---------------------------- MODULE CircuitBreaker ----------------------------
(***************************************************************************)
(* The C# GrpcBookInfoServer: GetBookInfoWithReviews calls the books and   *)
(* the review service inside WithRetry, which runs inside the one circuit  *)
(* breaker of the process (Resilience/CircuitBreaker.cs, Util.cs,          *)
(* Services/GrpcBookInfoService.cs).                                       *)
(*                                                                         *)
(* Time is counted in ticks by timers that count down to 0 and stay there: *)
(* a sleeping thread or task runs some time AFTER its timer reached 0,     *)
(* never before, which is all that Thread.Sleep promises.                  *)
(***************************************************************************)
EXTENDS Naturals

CONSTANTS Calls,         \* incoming GetBookInfoWithReviews calls
          Deadlined,     \* the calls for isbn 12347, which set a deadline
          Threshold,     \* failures that open the breaker
          MaxAttempts,   \* maxAttempts of WithRetry
          RetryInterval, \* ticks slept after every failed attempt
          OpenTime,      \* ticks a reset task sleeps
          Deadline       \* ticks a deadlined call has, from its arrival

ASSUME ConstantsAssumption ==
    /\ Deadlined \subseteq Calls
    /\ Threshold \in Nat /\ Threshold > 0
    /\ MaxAttempts \in Nat /\ MaxAttempts > 0
    /\ RetryInterval \in Nat
    /\ OpenTime \in Nat
    /\ Deadline \in Nat
    /\ Deadline <= RetryInterval

VARIABLES
    open,          \* _open
    failureCount,  \* _failureCount
    resetTasks,    \* calls whose failure started a reset task that still sleeps
    resetIn,       \* ticks that task still sleeps
    pc,            \* where the thread of each call is
    attempt,       \* i of WithRetry: failed attempts so far
    sleepFor,      \* ticks the thread still sleeps between attempts
    deadlineIn,    \* ticks to the deadline of a deadlined call
    openAge,       \* history: ticks since the breaker last went from closed to open
    stale          \* history: tasks that were already sleeping at that moment

breaker == <<open, failureCount, resetTasks, resetIn>>
thread  == <<pc, attempt, sleepFor, deadlineIn>>
history == <<openAge, stale>>
vars    == <<breaker, thread, history>>

Running == {"execute", "getBook", "getReviews", "sleep", "throw"}
Ended   == {"answered", "failed", "rejected"}
PC      == {"new"} \union Running \union Ended

Dec(n) == IF n > 0 THEN n - 1 ELSE 0

Goto(c, from, to) ==
    /\ pc[c] = from
    /\ pc' = [pc EXCEPT ![c] = to]

Init ==
    /\ open = FALSE
    /\ failureCount = 0
    /\ resetTasks = {}
    /\ resetIn = [c \in Calls |-> 0]
    /\ pc = [c \in Calls |-> "new"]
    /\ attempt = [c \in Calls |-> 0]
    /\ sleepFor = [c \in Calls |-> 0]
    /\ deadlineIn = [c \in Calls |-> Deadline]
    /\ openAge = 0
    /\ stale = {}

-------------------------------------------------------------------------------
(* Mutants: slips that the properties below must notice. *)

\* Wake with i <= maxAttempts.
WakeOnceTooOften(c) ==
    /\ sleepFor[c] = 0
    /\ attempt' = [attempt EXCEPT ![c] = @ + 1]
    /\ Goto(c, "sleep", IF attempt[c] < MaxAttempts THEN "getBook" ELSE "throw")
    /\ UNCHANGED <<breaker, sleepFor, deadlineIn, history>>

\* Wake without i++.
WakeUncounted(c) ==
    /\ sleepFor[c] = 0
    /\ Goto(c, "sleep", IF attempt[c] + 1 < MaxAttempts THEN "getBook" ELSE "throw")
    /\ UNCHANGED <<breaker, attempt, sleepFor, deadlineIn, history>>

\* The deadline is computed inside the attempt instead of before it.
WakeRenewsDeadline(c) ==
    /\ sleepFor[c] = 0
    /\ attempt' = [attempt EXCEPT ![c] = @ + 1]
    /\ deadlineIn' = [deadlineIn EXCEPT ![c] = Deadline]
    /\ Goto(c, "sleep", IF attempt[c] + 1 < MaxAttempts THEN "getBook" ELSE "throw")
    /\ UNCHANGED <<breaker, sleepFor, history>>

\* Execute that does not look at the flag.
AdmitAlways(c) ==
    /\ Goto(c, "execute", "getBook")
    /\ UNCHANGED <<breaker, attempt, sleepFor, deadlineIn, history>>

\* The task is started on the count before the increment, the flag set on the one after.
RecordFailureTaskLate(c) ==
    /\ Goto(c, "throw", "failed")
    /\ failureCount' = failureCount + 1
    /\ open' = (open \/ failureCount + 1 >= Threshold)
    /\ IF failureCount >= Threshold
       THEN /\ resetTasks' = resetTasks \union {c}
            /\ resetIn' = [resetIn EXCEPT ![c] = OpenTime]
       ELSE UNCHANGED <<resetTasks, resetIn>>
    /\ UNCHANGED <<attempt, sleepFor, deadlineIn, history>>

\* Reset that forgets the counter, one that forgets the flag, and one that does not sleep.
ResetFlagOnly(c) ==
    /\ c \in resetTasks
    /\ resetIn[c] = 0
    /\ open' = FALSE
    /\ resetTasks' = resetTasks \ {c}
    /\ openAge' = 0
    /\ stale' = stale \ {c}
    /\ UNCHANGED <<failureCount, resetIn, thread>>

ResetCountOnly(c) ==
    /\ c \in resetTasks
    /\ resetIn[c] = 0
    /\ failureCount' = 0
    /\ resetTasks' = resetTasks \ {c}
    /\ stale' = stale \ {c}
    /\ UNCHANGED <<open, resetIn, openAge, thread>>

ResetAtOnce(c) ==
    /\ c \in resetTasks
    /\ open' = FALSE
    /\ failureCount' = 0
    /\ resetTasks' = resetTasks \ {c}
    /\ openAge' = 0
    /\ stale' = stale \ {c}
    /\ UNCHANGED <<resetIn, thread>>

-------------------------------------------------------------------------------
(* The handler: the deadline is fixed once, before the first attempt. *)

Arrive(c) ==
    /\ Goto(c, "new", "execute")
    /\ UNCHANGED <<breaker, attempt, sleepFor, deadlineIn, history>>

(* Execute: the flag is read once, outside the lock. *)

Admit(c) ==
    /\ ~open
    /\ Goto(c, "execute", "getBook")
    /\ UNCHANGED <<breaker, attempt, sleepFor, deadlineIn, history>>

Reject(c) ==
    /\ open
    /\ Goto(c, "execute", "rejected")
    /\ UNCHANGED <<breaker, attempt, sleepFor, deadlineIn, history>>

(* One attempt: GetBook under the deadline, then GetBookReviews under none. *)
(* Each backend answers or fails as it likes.                               *)

Expired(c) == c \in Deadlined /\ deadlineIn[c] = 0

GetBookAnswers(c) ==
    /\ ~Expired(c)
    /\ Goto(c, "getBook", "getReviews")
    /\ UNCHANGED <<breaker, attempt, sleepFor, deadlineIn, history>>

GetReviewsAnswers(c) ==
    /\ Goto(c, "getReviews", "answered")
    /\ UNCHANGED <<breaker, attempt, sleepFor, deadlineIn, history>>

AttemptFails(c) ==
    /\ Goto(c, "getBook", "sleep") \/ Goto(c, "getReviews", "sleep")
    /\ sleepFor' = [sleepFor EXCEPT ![c] = RetryInterval]
    /\ UNCHANGED <<breaker, attempt, deadlineIn, history>>

(* WithRetry sleeps after every failed attempt, the last one included. *)

Wake(c) ==
    /\ sleepFor[c] = 0
    /\ attempt' = [attempt EXCEPT ![c] = @ + 1]
    /\ Goto(c, "sleep", IF attempt[c] + 1 < MaxAttempts THEN "getBook" ELSE "throw")
    /\ UNCHANGED <<breaker, sleepFor, deadlineIn, history>>

(* The catch block of Execute: one critical section. Every failure at or above *)
(* the threshold starts a reset task of its own.                               *)

RecordFailure(c) ==
    /\ Goto(c, "throw", "failed")
    /\ failureCount' = failureCount + 1
    /\ IF failureCount + 1 >= Threshold
       THEN /\ open' = TRUE
            /\ resetTasks' = resetTasks \union {c}
            /\ resetIn' = [resetIn EXCEPT ![c] = OpenTime]
            /\ openAge' = IF open THEN openAge ELSE 0
            /\ stale' = IF open THEN stale ELSE resetTasks
       ELSE UNCHANGED <<open, resetTasks, resetIn, history>>
    /\ UNCHANGED <<attempt, sleepFor, deadlineIn>>

(* The reset task started by c's failure. *)

Reset(c) ==
    /\ c \in resetTasks
    /\ resetIn[c] = 0
    /\ open' = FALSE
    /\ failureCount' = 0
    /\ resetTasks' = resetTasks \ {c}
    /\ openAge' = 0
    /\ stale' = stale \ {c}
    /\ UNCHANGED <<resetIn, thread>>

Tick ==
    /\ resetIn' = [c \in Calls |-> Dec(resetIn[c])]
    /\ sleepFor' = [c \in Calls |-> Dec(sleepFor[c])]
    /\ deadlineIn' = [c \in Calls |->
                        IF c \in Deadlined /\ pc[c] \in Running
                        THEN Dec(deadlineIn[c]) ELSE deadlineIn[c]]
    /\ openAge' = IF open /\ openAge < OpenTime THEN openAge + 1 ELSE openAge
    /\ UNCHANGED <<open, failureCount, resetTasks, pc, attempt, stale>>

-------------------------------------------------------------------------------

Execute(c) == Admit(c) \/ Reject(c)

Attempt(c) == GetBookAnswers(c) \/ GetReviewsAnswers(c) \/ AttemptFails(c)

CallStep(c) == Execute(c) \/ Attempt(c) \/ Wake(c) \/ RecordFailure(c)

Next == Tick \/ \E c \in Calls : Arrive(c) \/ CallStep(c) \/ Reset(c)

SafeSpec == Init /\ [][Next]_vars

\* Every thread and every started task is scheduled, time passes, and each
\* backend call ends with an answer or an exception.
Fairness ==
    /\ WF_vars(Tick)
    /\ \A c \in Calls : WF_vars(CallStep(c)) /\ WF_vars(Reset(c))

Spec == SafeSpec /\ Fairness

-------------------------------------------------------------------------------
(* Properties. *)

DataOK ==
    /\ failureCount \in Nat
    /\ resetTasks \subseteq Calls
    /\ resetIn \in [Calls -> 0..OpenTime]
    /\ pc \in [Calls -> PC]
    /\ attempt \in [Calls -> 0..MaxAttempts]
    /\ sleepFor \in [Calls -> 0..RetryInterval]
    /\ deadlineIn \in [Calls -> 0..Deadline]
    /\ openAge \in 0..OpenTime
    /\ stale \subseteq resetTasks

\* Every variable stays in its type; the countdowns stay within the sleep they
\* were started with and WithRetry never passes maxAttempts.
TypeOK == open \in BOOLEAN /\ DataOK

\* The flag the callers read without the lock and the counter behind it always
\* agree, whatever order failures and reset tasks take the lock in.
OpenIffThreshold == open <=> failureCount >= Threshold

\* An open breaker always has a reset task that will close it, although any
\* earlier task may have closed it and a late failure opened it again.
OpenHasReset == open => resetTasks # {}

\* A deadline is fixed once per call and a retry comes after a sleep that is at
\* least as long, so GetBook succeeds for a deadlined call in its first attempt
\* or never: the later attempts of such a call cannot reach an answer.
DeadlinedAnswersFirstTry ==
    \A c \in Deadlined : pc[c] \in {"getReviews", "answered"} => attempt[c] = 0

\* The breaker closes before it has been open for OpenTime only through a task
\* that was already sleeping when it opened.
ClosesEarlyOnlyByStaleTask ==
    [][open /\ ~open' /\ openAge < OpenTime
         => \E c \in stale : c \notin resetTasks']_vars

\* CascadingFailures.txt: "A circuit breaker will break the circuit for 5 seconds."
OpensForOpenTime == [][open /\ ~open' => openAge >= OpenTime]_vars

\* The breaker does not stay open for good, however many failures were recorded.
EventuallyCloses == open ~> ~open

\* Every call that arrived is answered, rejected or failed.
EveryCallEnds == \A c \in Calls : pc[c] = "execute" ~> pc[c] \in Ended

(* Refinement: what a caller sees of the breaker. *)

Outcome(c) == CASE pc[c] \in {"new", "execute"} -> "new"
                [] pc[c] \in {"getBook", "getReviews", "sleep", "throw"} -> "admitted"
                [] OTHER -> pc[c]

outcome == [c \in Calls |-> Outcome(c)]

Abstract == INSTANCE Breaker WITH failures <- failureCount

\* The retrying, timed implementation behaves as the abstract breaker, fairness
\* included.
RefinesBreaker == Abstract!Spec

RefinesBreakerSafely == Abstract!SafeSpec
===============================================================================
