------------------------- MODULE CircuitBreakerProofs -------------------------
(* Theorems about CircuitBreaker, for any set of calls and any timing.         *)
EXTENDS CircuitBreaker, TLAPS

-------------------------------------------------------------------------------
(* Type correctness. TypeOK is not inductive: Wake counts an attempt, so it    *)
(* needs to know that a call inside the loop of WithRetry has attempts left.   *)

BeforeThrow == {"new", "execute", "getBook", "getReviews", "sleep"}

LoopBound == \A c \in Calls : pc[c] \in BeforeThrow => attempt[c] < MaxAttempts

LEMMA InitFlag == Init => open \in BOOLEAN
  BY DEF Init

LEMMA NextFlag == open \in BOOLEAN /\ [Next]_vars => open' \in BOOLEAN
<1> SUFFICES ASSUME open \in BOOLEAN, [Next]_vars PROVE open' \in BOOLEAN
  OBVIOUS
<1>1. CASE open' = open
  BY <1>1
<1>2. CASE open' = TRUE \/ open' = FALSE
  BY <1>2
<1>3. open' = open \/ open' = TRUE \/ open' = FALSE
  BY DEF Next, vars, breaker, Tick, Arrive, CallStep, Execute, Admit, Reject, Attempt,
         GetBookAnswers, GetReviewsAnswers, AttemptFails, Wake, RecordFailure, Reset
<1> QED
  BY <1>1, <1>2, <1>3

LEMMA DecType ==
    ASSUME NEW m \in Nat, NEW n \in 0..m PROVE Dec(n) \in 0..m
  BY DEF Dec

LEMMA InitData == Init => DataOK /\ LoopBound
  BY ConstantsAssumption DEF Init, DataOK, LoopBound, PC

LEMMA CallStepData ==
    ASSUME DataOK, LoopBound, NEW c \in Calls, Arrive(c) \/ CallStep(c)
    PROVE  (DataOK /\ LoopBound)'
<1> USE ConstantsAssumption
    DEF DataOK, LoopBound, BeforeThrow, PC, Running, Ended, Goto
<1>1. CASE Arrive(c) \/ Execute(c)
  BY <1>1 DEF Arrive, Execute, Admit, Reject, breaker, history
<1>2. CASE Attempt(c)
  BY <1>2 DEF Attempt, GetBookAnswers, GetReviewsAnswers, AttemptFails, breaker, history
<1>3. CASE Wake(c)
  BY <1>3 DEF Wake, breaker, history
<1>4. CASE RecordFailure(c)
  BY <1>4 DEF RecordFailure, history
<1> QED
  BY <1>1, <1>2, <1>3, <1>4 DEF CallStep

LEMMA ResetData ==
    ASSUME DataOK, LoopBound, NEW c \in Calls, Reset(c) PROVE (DataOK /\ LoopBound)'
  BY ConstantsAssumption DEF DataOK, LoopBound, Reset, thread

LEMMA TickData ==
    ASSUME DataOK, LoopBound, Tick PROVE (DataOK /\ LoopBound)'
<1> USE ConstantsAssumption DEF DataOK, Tick
<1>1. resetIn' \in [Calls -> 0..OpenTime]
  BY DecType
<1>2. sleepFor' \in [Calls -> 0..RetryInterval]
  BY DecType
<1>3. deadlineIn' \in [Calls -> 0..Deadline]
  BY DecType
<1>4. openAge' \in 0..OpenTime
  OBVIOUS
<1> QED
  BY <1>1, <1>2, <1>3, <1>4 DEF LoopBound

LEMMA NextData == DataOK /\ LoopBound /\ [Next]_vars => (DataOK /\ LoopBound)'
<1>1. ASSUME DataOK, LoopBound, UNCHANGED vars PROVE (DataOK /\ LoopBound)'
  BY <1>1 DEF DataOK, LoopBound, vars, breaker, thread, history
<1> QED
  BY <1>1, CallStepData, ResetData, TickData DEF Next

TypeInv == TypeOK /\ LoopBound

LEMMA TypeInvariant == SafeSpec => []TypeInv
<1>1. Init => TypeInv
  BY InitFlag, InitData DEF TypeInv, TypeOK
<1>2. TypeInv /\ [Next]_vars => TypeInv'
  BY NextFlag, NextData DEF TypeInv, TypeOK
<1> QED
  BY <1>1, <1>2, PTL DEF SafeSpec

\* Type correctness: among others, no call is retried more than maxAttempts
\* times and no timer leaves its range.
THEOREM TypeCorrect == SafeSpec => []TypeOK
  BY TypeInvariant, PTL DEF TypeInv

-------------------------------------------------------------------------------
(* The breaker: flag, counter and reset tasks. *)

FlagInv == OpenIffThreshold /\ OpenHasReset

LEMMA FlagStep == TypeInv /\ FlagInv /\ [Next]_vars => FlagInv'
<1> SUFFICES ASSUME TypeInv, FlagInv, [Next]_vars PROVE FlagInv'
  OBVIOUS
<1> USE ConstantsAssumption DEF FlagInv, OpenIffThreshold, OpenHasReset
<1>1. CASE UNCHANGED breaker
  BY <1>1 DEF breaker
<1>2. ASSUME NEW c \in Calls, RecordFailure(c) PROVE FlagInv'
  BY <1>2 DEF RecordFailure, TypeInv, TypeOK, DataOK
<1>3. ASSUME NEW c \in Calls, Reset(c) PROVE FlagInv'
  BY <1>3 DEF Reset
<1>4. CASE Tick
  BY <1>4 DEF Tick
<1>5. ASSUME NEW c \in Calls, Arrive(c) \/ Execute(c) \/ Attempt(c) \/ Wake(c)
      PROVE  UNCHANGED breaker
  BY <1>5 DEF Arrive, Execute, Admit, Reject, Attempt, GetBookAnswers,
              GetReviewsAnswers, AttemptFails, Wake
<1> QED
  BY <1>1, <1>2, <1>3, <1>4, <1>5 DEF Next, CallStep, vars

LEMMA FlagInvariant == SafeSpec => []FlagInv
<1>1. Init => FlagInv
  BY ConstantsAssumption DEF Init, FlagInv, OpenIffThreshold, OpenHasReset
<1> QED
  BY <1>1, FlagStep, TypeInvariant, PTL DEF SafeSpec

\* The flag that callers read without the lock agrees with the counter.
THEOREM FlagAgreesWithCount == SafeSpec => []OpenIffThreshold
  BY FlagInvariant, PTL DEF FlagInv

\* An open breaker always has a reset task ahead of it: it cannot get stuck
\* open, in whatever order late failures and reset tasks enter the lock.
THEOREM OpenBreakerWillReset == SafeSpec => []OpenHasReset
  BY FlagInvariant, PTL DEF FlagInv

-------------------------------------------------------------------------------
(* The deadline of a call against its retries. *)

\* The sleep before a retry is never shorter than what is left of the deadline,
\* so every retry starts with an expired deadline.
RetryExpired(c) ==
    /\ pc[c] \in {"new", "execute"} => attempt[c] = 0
    /\ pc[c] = "sleep" => deadlineIn[c] <= sleepFor[c]
    /\ pc[c] = "getBook" /\ attempt[c] > 0 => deadlineIn[c] = 0
    /\ pc[c] = "getReviews" \/ pc[c] = "answered" => attempt[c] = 0

DeadlineInv == \A c \in Deadlined : RetryExpired(c)

LEMMA DecOrder ==
    ASSUME NEW m \in Nat, NEW n \in Nat, m <= n PROVE Dec(m) <= Dec(n)
  BY DEF Dec

LEMMA DeadlineCallStep ==
    ASSUME TypeInv, DeadlineInv, NEW c \in Calls, Arrive(c) \/ CallStep(c)
    PROVE  DeadlineInv'
<1> SUFFICES ASSUME NEW d \in Deadlined PROVE RetryExpired(d)'
  BY DEF DeadlineInv
<1> USE ConstantsAssumption DEF DeadlineInv, RetryExpired, TypeInv, TypeOK, DataOK, Goto
<1>1. CASE Arrive(c) \/ Execute(c)
  BY <1>1 DEF Arrive, Execute, Admit, Reject
<1>2. CASE GetBookAnswers(c)
  BY <1>2 DEF GetBookAnswers, Expired
<1>3. CASE GetReviewsAnswers(c)
  BY <1>3 DEF GetReviewsAnswers
<1>4. CASE AttemptFails(c)
  BY <1>4 DEF AttemptFails
<1>5. CASE Wake(c)
  BY <1>5 DEF Wake
<1>6. CASE RecordFailure(c)
  BY <1>6 DEF RecordFailure
<1> QED
  BY <1>1, <1>2, <1>3, <1>4, <1>5, <1>6 DEF CallStep, Attempt

LEMMA DeadlineTick == ASSUME TypeInv, DeadlineInv, Tick PROVE DeadlineInv'
<1> SUFFICES ASSUME NEW d \in Deadlined PROVE RetryExpired(d)'
  BY DEF DeadlineInv
<1> USE ConstantsAssumption DEF Tick, TypeInv, TypeOK, DataOK
<1>1. d \in Calls /\ RetryExpired(d)
  BY DEF DeadlineInv
<1>2. CASE pc[d] = "sleep"
  <2>1. deadlineIn'[d] = Dec(deadlineIn[d]) /\ sleepFor'[d] = Dec(sleepFor[d])
    BY <1>1, <1>2 DEF Running
  <2> QED
    BY <1>1, <1>2, <2>1, DecOrder DEF RetryExpired
<1>3. CASE pc[d] # "sleep"
  BY <1>1, <1>3 DEF RetryExpired, Dec
<1> QED
  BY <1>2, <1>3

LEMMA DeadlineStep == TypeInv /\ DeadlineInv /\ [Next]_vars => DeadlineInv'
<1>1. ASSUME DeadlineInv, UNCHANGED thread PROVE DeadlineInv'
  BY <1>1 DEF DeadlineInv, RetryExpired, thread
<1>2. ASSUME NEW c \in Calls, Reset(c) PROVE UNCHANGED thread
  BY <1>2 DEF Reset
<1> QED
  BY <1>1, <1>2, DeadlineCallStep, DeadlineTick DEF Next, vars

LEMMA DeadlineInvariant == SafeSpec => []DeadlineInv
<1>1. Init => DeadlineInv
  BY ConstantsAssumption DEF Init, DeadlineInv, RetryExpired
<1> QED
  BY <1>1, DeadlineStep, TypeInvariant, PTL DEF SafeSpec

\* The retries of a call with a deadline are in vain: GetBook answers it in its
\* first attempt or never, for any timing with Deadline <= RetryInterval.
THEOREM RetriesOfDeadlinedCallsAreVain == SafeSpec => []DeadlinedAnswersFirstTry
<1>1. DeadlineInv => DeadlinedAnswersFirstTry
  BY DEF DeadlineInv, RetryExpired, DeadlinedAnswersFirstTry
<1> QED
  BY <1>1, DeadlineInvariant, PTL

-------------------------------------------------------------------------------
(* How long the breaker stays open. *)

\* A task that was not yet sleeping when the breaker opened still sleeps for at
\* least what is left of OpenTime.
FreshTasksSleep ==
    open => \A c \in resetTasks \ stale : openAge + resetIn[c] >= OpenTime

LEMMA FreshStep == TypeInv /\ FreshTasksSleep /\ [Next]_vars => FreshTasksSleep'
<1> SUFFICES ASSUME TypeInv, FreshTasksSleep, [Next]_vars PROVE FreshTasksSleep'
  OBVIOUS
<1> USE ConstantsAssumption DEF FreshTasksSleep, TypeInv, TypeOK, DataOK
<1>1. CASE UNCHANGED <<breaker, history>>
  BY <1>1 DEF breaker, history
<1>2. ASSUME NEW c \in Calls, RecordFailure(c) PROVE FreshTasksSleep'
  <2>1. CASE failureCount + 1 < Threshold
    <3>1. UNCHANGED <<open, resetTasks, resetIn, history>>
      BY <1>2, <2>1 DEF RecordFailure, TypeInv, TypeOK, DataOK
    <3> QED
      BY <3>1 DEF history
  <2>2. CASE failureCount + 1 >= Threshold
    <3> SUFFICES ASSUME NEW d \in resetTasks' \ stale'
                 PROVE  openAge' + resetIn'[d] >= OpenTime
      OBVIOUS
    <3>1. /\ resetTasks' = resetTasks \union {c}
          /\ resetIn' = [resetIn EXCEPT ![c] = OpenTime]
          /\ openAge' = IF open THEN openAge ELSE 0
          /\ stale' = IF open THEN stale ELSE resetTasks
      BY <1>2, <2>2 DEF RecordFailure
    <3>2. CASE d = c
      BY <3>1, <3>2
    <3>3. CASE d # c
      BY <3>1, <3>3
    <3> QED
      BY <3>2, <3>3
  <2> QED
    BY <2>1, <2>2
<1>3. ASSUME NEW c \in Calls, Reset(c) PROVE FreshTasksSleep'
  BY <1>3 DEF Reset
<1>4. CASE Tick
  <2> SUFFICES ASSUME open, NEW c \in resetTasks \ stale
               PROVE  openAge' + resetIn'[c] >= OpenTime
    BY <1>4 DEF Tick
  <2>1. c \in Calls /\ openAge + resetIn[c] >= OpenTime
    OBVIOUS
  <2>2. resetIn'[c] = Dec(resetIn[c])
    BY <1>4, <2>1 DEF Tick
  <2>3. openAge' = IF openAge < OpenTime THEN openAge + 1 ELSE openAge
    BY <1>4 DEF Tick
  <2>4. resetIn[c] \in Nat /\ openAge \in Nat /\ openAge <= OpenTime
    BY <2>1
  <2> QED
    BY <2>1, <2>2, <2>3, <2>4 DEF Dec
<1>5. ASSUME NEW c \in Calls, Arrive(c) \/ Execute(c) \/ Attempt(c) \/ Wake(c)
      PROVE  UNCHANGED <<breaker, history>>
  BY <1>5 DEF Arrive, Execute, Admit, Reject, Attempt, GetBookAnswers,
              GetReviewsAnswers, AttemptFails, Wake
<1> QED
  BY <1>1, <1>2, <1>3, <1>4, <1>5 DEF Next, CallStep, vars

LEMMA FreshInvariant == SafeSpec => []FreshTasksSleep
<1>1. Init => FreshTasksSleep
  BY DEF Init, FreshTasksSleep
<1> QED
  BY <1>1, FreshStep, TypeInvariant, PTL DEF SafeSpec

EarlyClose == open /\ ~open' /\ openAge < OpenTime

\* The breaker closes before OpenTime has passed only through a reset task that
\* an earlier opening left behind.
THEOREM OnlyStaleTasksCloseEarly == SafeSpec => ClosesEarlyOnlyByStaleTask
<1>1. TypeInv /\ FreshTasksSleep /\ [Next]_vars
        => [EarlyClose => \E c \in stale : c \notin resetTasks']_vars
  <2> SUFFICES ASSUME TypeInv, FreshTasksSleep, [Next]_vars, EarlyClose
               PROVE  \E c \in stale : c \notin resetTasks'
    OBVIOUS
  <2>1. PICK c \in Calls : Reset(c)
    BY DEF EarlyClose, Next, vars, breaker, Tick, Arrive, CallStep, Execute, Admit, Reject,
           Attempt, GetBookAnswers, GetReviewsAnswers, AttemptFails, Wake, RecordFailure
  <2>2. c \in stale
    <3> SUFFICES ASSUME c \notin stale PROVE FALSE
      OBVIOUS
    <3>1. openAge + resetIn[c] >= OpenTime /\ resetIn[c] = 0
      BY <2>1 DEF EarlyClose, Reset, FreshTasksSleep
    <3> QED
      BY <3>1, ConstantsAssumption DEF EarlyClose, TypeInv, TypeOK, DataOK
  <2> QED
    BY <2>1, <2>2 DEF Reset
<1> QED
  BY <1>1, TypeInvariant, FreshInvariant, PTL
     DEF SafeSpec, ClosesEarlyOnlyByStaleTask, EarlyClose

-------------------------------------------------------------------------------
(* Refinement. *)

LEMMA OutcomeMoves ==
    ASSUME NEW c \in Calls, NEW from, NEW to, TypeInv, Goto(c, from, to), to \in PC,
           NEW from2, NEW to2,
           Outcome(c) = from2, Outcome(c)' = to2
    PROVE  Abstract!Move(c, from2, to2)
<1>1. \A d \in Calls \ {c} : pc'[d] = pc[d]
  BY DEF Goto, TypeInv, TypeOK, DataOK
<1> QED
  BY <1>1 DEF Abstract!Move, outcome, Outcome

\* Every step of the implementation is a step of the abstract breaker or leaves
\* its state alone.
LEMMA StepRefines ==
    TypeInv /\ OpenIffThreshold /\ [Next]_vars
      => [Abstract!Next]_(Abstract!breakerVars)
<1> SUFFICES ASSUME TypeInv, OpenIffThreshold, [Next]_vars
             PROVE  [Abstract!Next]_(Abstract!breakerVars)
  OBVIOUS
<1> USE DEF Abstract!Next, Abstract!breakerVars
<1>1. ASSUME UNCHANGED <<failureCount, pc>> PROVE UNCHANGED Abstract!breakerVars
  BY <1>1 DEF outcome, Outcome
<1>2. ASSUME NEW c \in Calls, Admit(c) PROVE Abstract!Admit(c)
  BY <1>2, OutcomeMoves
     DEF Admit, Goto, Outcome, Abstract!Admit, Abstract!Open, OpenIffThreshold, PC, Running,
         breaker, TypeInv, TypeOK, DataOK
<1>3. ASSUME NEW c \in Calls, Reject(c) PROVE Abstract!Reject(c)
  BY <1>3, OutcomeMoves
     DEF Reject, Goto, Outcome, Abstract!Reject, Abstract!Open, OpenIffThreshold, PC, Ended,
         breaker, TypeInv, TypeOK, DataOK
<1>4. ASSUME NEW c \in Calls, GetReviewsAnswers(c) PROVE Abstract!Answer(c)
  BY <1>4, OutcomeMoves
     DEF GetReviewsAnswers, Goto, Outcome, Abstract!Answer, PC, Ended, breaker,
         TypeInv, TypeOK, DataOK
<1>5. ASSUME NEW c \in Calls, RecordFailure(c) PROVE Abstract!Fail(c)
  BY <1>5, OutcomeMoves
     DEF RecordFailure, Goto, Outcome, Abstract!Fail, PC, Ended, TypeInv, TypeOK, DataOK
<1>6. ASSUME NEW c \in Calls, Reset(c) PROVE Abstract!Recover
  BY <1>6 DEF Reset, thread, Abstract!Recover, outcome, Outcome
<1>7. ASSUME NEW c \in Calls, Arrive(c) \/ GetBookAnswers(c) \/ AttemptFails(c) \/ Wake(c)
      PROVE  UNCHANGED Abstract!breakerVars
  <2>1. failureCount' = failureCount
    BY <1>7 DEF Arrive, GetBookAnswers, AttemptFails, Wake, breaker
  <2>2. \A d \in Calls \ {c} : pc'[d] = pc[d]
    BY <1>7 DEF Arrive, GetBookAnswers, AttemptFails, Wake, Goto, TypeInv, TypeOK, DataOK
  <2>3. Outcome(c)' = Outcome(c)
    BY <1>7 DEF Arrive, GetBookAnswers, AttemptFails, Wake, Goto, TypeInv, TypeOK, DataOK, Outcome
  <2> QED
    BY <2>1, <2>2, <2>3 DEF outcome, Outcome
<1> QED
  BY <1>1, <1>2, <1>3, <1>4, <1>5, <1>6, <1>7
     DEF Next, CallStep, Execute, Attempt, Tick, vars, breaker, thread

\* A caller sees the abstract breaker (its safety part; fairness is checked).
THEOREM ImplementsBreaker == SafeSpec => RefinesBreakerSafely
<1>1. Init => Abstract!Init
  BY DEF Init, Abstract!Init, outcome, Outcome
<1> QED
  BY <1>1, StepRefines, TypeInvariant, FlagAgreesWithCount, PTL
     DEF SafeSpec, RefinesBreakerSafely, Abstract!SafeSpec
===============================================================================
