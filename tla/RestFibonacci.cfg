SPECIFICATION SafeSpec
CHECK_DEADLOCK FALSE
CONSTANTS
  c1 = c1
  c2 = c2
  r1 = r1
  r2 = r2
  None = None
  Clients <- TwoClients
  ReqIds <- TwoIds
  Ranges <- UpToTwo
  MaxStores = 2
INVARIANTS
  TypeOK
  NothingLostOrRepeated
  StoresStay
