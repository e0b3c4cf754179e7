------------------------------- MODULE Breaker -------------------------------
(***************************************************************************)
(* What GrpcBookInfoServer promises of its circuit breaker, without        *)
(* attempts, sleeps, deadlines and reset tasks: a call is admitted only    *)
(* while fewer than Threshold failures are on record, a call that is not   *)
(* admitted is rejected at once, every admitted call that fails is         *)
(* recorded, and a breaker that has opened recovers.                       *)
(***************************************************************************)
EXTENDS Naturals

CONSTANTS Calls, Threshold

VARIABLES failures,  \* failures on record since the last recovery
          outcome    \* how far each call got

breakerVars == <<failures, outcome>>

Open == failures >= Threshold

Move(c, from, to) ==
    /\ outcome[c] = from
    /\ outcome' = [outcome EXCEPT ![c] = to]

Init == failures = 0 /\ outcome = [c \in Calls |-> "new"]

Admit(c)  == ~Open /\ Move(c, "new", "admitted") /\ UNCHANGED failures
Reject(c) == Open /\ Move(c, "new", "rejected") /\ UNCHANGED failures
Answer(c) == Move(c, "admitted", "answered") /\ UNCHANGED failures
Fail(c)   == Move(c, "admitted", "failed") /\ failures' = failures + 1

Recover == failures' = 0 /\ UNCHANGED outcome

Next ==
    \/ Recover
    \/ \E c \in Calls : Admit(c) \/ Reject(c) \/ Answer(c) \/ Fail(c)

SafeSpec == Init /\ [][Next]_breakerVars

\* A breaker that is open recovers, and every admitted call ends.
Fairness ==
    /\ WF_breakerVars(Open /\ Recover)
    /\ \A c \in Calls : WF_breakerVars(Answer(c) \/ Fail(c))

Spec == SafeSpec /\ Fairness
===============================================================================
