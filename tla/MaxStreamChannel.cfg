SPECIFICATION Spec
CHECK_DEADLOCK FALSE
CONSTANTS
  s1 = s1
  s2 = s2
  Inputs <- ShortAndLong
  MinInt32 <- Smallest
  ChanSize = 1
  Streams <- OneStream
  ReplyBound = 1
PROPERTIES
  MaxReachesReporter
