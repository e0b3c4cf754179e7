SPECIFICATION Spec
CHECK_DEADLOCK FALSE
CONSTANTS
  s1 = s1
  s2 = s2
  Inputs <- ShortAndLong
  MinInt32 <- Smallest
  ChanSize = 1
  Streams <- TwoStreams
  ReplyBound = 1
INVARIANTS
  TypeOK
  ReportsArePrefixMaxima
  EndedStreamsAreShort
PROPERTIES
  GoodEndKillsServer
