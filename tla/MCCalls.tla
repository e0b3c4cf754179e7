-------------------------------- MODULE MCCalls --------------------------------
(***************************************************************************)
(* Systems that share nothing, one in each behaviour: chapter 4's average  *)
(* and Fibonacci services in Go, and all of its services in C#; the Go     *)
(* gateway over the greet service; and the books servers in C#.            *)
(***************************************************************************)
EXTENDS NumberStreams, Gateway, CsStreams, CsBooks

\* An int32 is -8 .. 7 here: the numbers 7, 7 sum to more than that, 8 becomes
\* negative, and from fib(6) = 8 on the sequence wraps.
MCJobs ==
    [kind : {"average"}, numbers : {<<>>, <<0, 1>>, <<-3, 0>>, <<7, 7, 4>>}]
    \union [kind : {"sync"}, number : {0, 3, 8}]
    \union [kind : {"async"}, number : {-1, 3, 7}]
    \union [kind : {"none"}]

MCArgs ==
    [kind : {"average"}, numbers : {<<>>, <<-3, 0>>, <<7, 7, 4>>}]
    \union [kind : {"sync"}, number : {-1, 0, 7}]
    \union [kind : {"async"}, number : {-1, 0, 7}]
    \union [kind : {"max"}, numbers : {<<>>, <<-3>>, <<2, 1, 7>>}]
    \union [kind : {"none"}]

MCRunKinds == [Runs -> {"books", "reviews"}] \union [Runs -> {"none"}]

StreamsUsed == \E c \in Callers : job[c].kind # "none"
GatewayUsed == gateway # "undeployed"
CsStreamsUsed == \E p \in Programs : args[p].kind # "none"
CsBooksUsed == \E c \in Runs : run[c].kind # "none"

Init ==
    /\ StreamsInit /\ GatewayInit /\ CsStreamsInit /\ CsBooksInit
    /\ \/ StreamsUsed /\ ~GatewayUsed /\ ~CsStreamsUsed /\ ~CsBooksUsed
       \/ GatewayUsed /\ ~StreamsUsed /\ ~CsStreamsUsed /\ ~CsBooksUsed
       \/ CsStreamsUsed /\ ~StreamsUsed /\ ~GatewayUsed /\ ~CsBooksUsed
       \/ CsBooksUsed /\ ~StreamsUsed /\ ~GatewayUsed /\ ~CsStreamsUsed

\* The servers in C# run in every behaviour, but only in theirs do they have callers.
Next ==
    \/ StreamsNext /\ UNCHANGED <<gatewayVars, callVars, csBooksVars>>
    \/ GatewayNext /\ UNCHANGED <<streamVars, callVars, csBooksVars>>
    \/ CsStreamsNext /\ UNCHANGED <<streamVars, gatewayVars, csBooksVars>>
    \/ CsBooksUsed /\ CsBooksNext /\ UNCHANGED <<streamVars, gatewayVars, callVars>>

vars == <<streamVars, gatewayVars, callVars, csBooksVars>>

Spec ==
    Init /\ [][Next]_vars /\ StreamsFairness /\ GatewayFairness /\ CsStreamsFairness

TypeOK == StreamsTypeOK /\ GatewayTypeOK /\ CsStreamsTypeOK /\ CsBooksTypeOK
===============================================================================
