SPECIFICATION Spec
CONSTANTS
  c1 = c1
  c2 = c2
  c3 = c3
  Calls <- ThreeCalls
  Deadlined <- OneDeadlined
  Threshold = 1
  MaxAttempts = 3
  RetryInterval = 2
  OpenTime = 5
  Deadline = 1
INVARIANTS
  TypeOK
  OpenIffThreshold
  OpenHasReset
  DeadlinedAnswersFirstTry
PROPERTIES
  ClosesEarlyOnlyByStaleTask
  EventuallyCloses
  EveryCallEnds
  RefinesBreaker
