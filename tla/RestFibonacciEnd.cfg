SPECIFICATION Spec
CHECK_DEADLOCK FALSE
CONSTANTS
  c1 = c1
  c2 = c2
  r1 = r1
  r2 = r2
  None = None
  Clients <- OneClient
  ReqIds <- OneId
  Ranges <- UpToTwo
  MaxStores = 1
PROPERTIES
  ClientFinishes
