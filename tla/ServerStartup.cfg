SPECIFICATION Spec
CHECK_DEADLOCK FALSE
CONSTANTS
  a = a
  b = b
  None = None
  Servers <- TwoServers
  Files = 2
  MaxStarts = 2
  MaxOutages = 1
INVARIANTS
  TypeOK
  VersionMatchesSchema
PROPERTIES
  DirtyIsForever
  StartEnds
