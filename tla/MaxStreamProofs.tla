---------------------------- MODULE MaxStreamProofs ----------------------------
(***************************************************************************)
(* Theorems about MaxStream, for any streams, numbers and capacities: what *)
(* the responses say, and which streams end.                               *)
(***************************************************************************)
EXTENDS MaxStream, SequenceTheorems, TLAPS

-------------------------------------------------------------------------------
(* The inductive invariant. *)

Types ==
    /\ NumbersOf \in [Streams -> Seq(Int)]
    /\ up \in BOOLEAN
    /\ handler \in [Streams -> {"none", "recv", "push", "returned"}]
    /\ reporter \in [Streams -> {"none", "sleep", "send"}]
    /\ client \in [Streams -> {"new", "open", "ended", "dead"}]
    /\ closed \in [Streams -> BOOLEAN]
    /\ queued \in [Streams -> Nat] /\ taken \in [Streams -> Nat] /\ sent \in [Streams -> Nat]
    /\ max \in [Streams -> Int] /\ loaded \in [Streams -> Int] /\ got \in [Streams -> Int]
    /\ replies \in [Streams -> Seq(Int)]

\* The handler puts every number it has taken into responseChan, where it stays, before
\* it takes the next one or returns.
Counted(s) ==
    /\ client[s] = "new" => handler[s] = "none"
    /\ taken[s] <= sent[s] /\ sent[s] <= Len(NumbersOf[s])
    /\ closed[s] => sent[s] = Len(NumbersOf[s])
    /\ taken[s] = queued[s] + (IF handler[s] = "push" THEN 1 ELSE 0)
    /\ queued[s] <= ChanSize
    /\ handler[s] = "returned" => taken[s] = Len(NumbersOf[s])
    /\ Len(replies[s]) <= ReplyBound

\* What may be reported after t numbers.
Reportable(v, s, t) == \E k \in 0..t : IsMaxOfFirst(v, s, k)

\* What is on its way is old or new in the order in which the client gets it.
Reported(s) ==
    /\ IsMaxOfFirst(max[s], s, taken[s])
    /\ Reportable(got[s], s, taken[s])
    /\ Reportable(loaded[s], s, taken[s])
    /\ \A i \in 1..Len(replies[s]) :
         /\ Reportable(replies[s][i], s, taken[s])
         /\ got[s] <= replies[s][i]
         /\ reporter[s] = "send" => replies[s][i] <= loaded[s]
         /\ \A j \in 1..i : replies[s][j] <= replies[s][i]
    /\ reporter[s] = "send" => got[s] <= loaded[s]

DeathHasCause == ~up => \E s \in Streams : handler[s] = "returned" \/ client[s] = "dead"

IInv == Types /\ (\A s \in Streams : Counted(s) /\ Reported(s)) /\ DeathHasCause

-------------------------------------------------------------------------------
(* The largest of the first numbers. *)

LEMMA FirstNumbersAreInts ==
    ASSUME Types, NEW s \in Streams, NEW k \in Nat, k <= Len(NumbersOf[s])
    PROVE  FirstNumbers(s, k) \subseteq Int
BY ConstantsAssumption DEF Types, FirstNumbers, ConstantsAssumption

LEMMA FirstNumbersGrow ==
    ASSUME NEW s \in Streams, NEW k \in Nat, NEW t \in Nat, k <= t
    PROVE  FirstNumbers(s, k) \subseteq FirstNumbers(s, t)
BY DEF FirstNumbers

\* What may be reported is never above max.
LEMMA ReportableBelowMax ==
    ASSUME Types, NEW s \in Streams, Counted(s), IsMaxOfFirst(max[s], s, taken[s]),
           NEW v, Reportable(v, s, taken[s])
    PROVE  v \in Int /\ v <= max[s]
<1>1. PICK k \in 0..taken[s] : IsMaxOfFirst(v, s, k)
    BY DEF Reportable
<1>2. taken[s] \in Nat /\ k \in Nat /\ k <= taken[s] /\ taken[s] <= Len(NumbersOf[s])
    BY DEF Types, Counted
<1>3. v \in FirstNumbers(s, taken[s])
    BY <1>1, <1>2, FirstNumbersGrow DEF IsMaxOfFirst
<1> QED BY <1>2, <1>3, FirstNumbersAreInts DEF IsMaxOfFirst

\* One more number.
LEMMA NextMax ==
    ASSUME Types, NEW s \in Streams, NEW k \in Nat, k < Len(NumbersOf[s]),
           NEW m \in Int, IsMaxOfFirst(m, s, k)
    PROVE  IsMaxOfFirst(Larger(m, NumbersOf[s][k + 1]), s, k + 1)
<1> DEFINE n == NumbersOf[s][k + 1]
<1>1. n \in Int
    BY DEF Types
<1>2. FirstNumbers(s, k + 1) = FirstNumbers(s, k) \union {n}
    BY DEF FirstNumbers
<1>3. \A w \in FirstNumbers(s, k) : w \in Int /\ w <= m
    BY FirstNumbersAreInts DEF IsMaxOfFirst
<1>4. m \in FirstNumbers(s, k)
    BY DEF IsMaxOfFirst
<1> QED BY <1>1, <1>2, <1>3, <1>4 DEF IsMaxOfFirst, Larger

LEMMA SameNumbers ==
    ASSUME UNCHANGED NumbersOf
    PROVE  \A s, v, t : /\ IsMaxOfFirst(v, s, t)' <=> IsMaxOfFirst(v, s, t)
                        /\ Reportable(v, s, t)' <=> Reportable(v, s, t)
<1>1. \A s, t : FirstNumbers(s, t)' = FirstNumbers(s, t)
    BY DEF FirstNumbers
<1>2. \A s, v, t : IsMaxOfFirst(v, s, t)' <=> IsMaxOfFirst(v, s, t)
    BY <1>1 DEF IsMaxOfFirst
<1> QED BY <1>2 DEF Reportable

\* What the reports of a stream are depends on nothing but these.
LEMMA ReportsStay ==
    ASSUME NEW s \in Streams, Reported(s),
           UNCHANGED <<NumbersOf, max[s], taken[s], got[s], loaded[s], replies[s]>>,
           reporter'[s] = reporter[s] \/ reporter'[s] # "send"
    PROVE  Reported(s)'
BY SameNumbers DEF Reported

-------------------------------------------------------------------------------
(* The initial states. *)

LEMMA InitIInv == Init => IInv
<1> SUFFICES ASSUME Init PROVE IInv
    OBVIOUS
<1> USE ConstantsAssumption DEF ConstantsAssumption, Init
<1>1. Types
    BY DEF Types
<1>2. \A s \in Streams : Counted(s)
    BY DEF Counted
<1>3. ASSUME NEW s \in Streams PROVE Reported(s)
    <2>1. IsMaxOfFirst(MinInt32, s, 0)
        BY DEF IsMaxOfFirst, FirstNumbers
    <2>2. Reportable(MinInt32, s, 0)
        BY <2>1 DEF Reportable
    <2> QED BY <2>1, <2>2 DEF Reported
<1> QED BY <1>1, <1>2, <1>3 DEF IInv, DeathHasCause

-------------------------------------------------------------------------------
(* Steps that move neither a number nor a report. *)

Quiet(s) ==
    \/ Open(s) \/ ClientSend(s) \/ CloseSend(s) \/ ClientRecvEOF(s) \/ ClientRecvError(s)
    \/ ClientKilled(s) \/ Push(s) \/ RecvEOF(s) \/ RecvError(s) \/ SendError(s)

LEMMA QuietTypes ==
    ASSUME Types, NEW s \in Streams, Quiet(s), UNCHANGED NumbersOf
    PROVE  Types'
<1>n. sent[s] + 1 \in Nat /\ queued[s] + 1 \in Nat
    BY DEF Types
<1>1. CASE Open(s)
    BY <1>1 DEF Open, Types, Become
<1>2. CASE ClientSend(s) \/ CloseSend(s)
    <2>1. sent' \in [Streams -> Nat]
        BY <1>n, <1>2 DEF ClientSend, CloseSend, Types, Become
    <2>2. closed' \in [Streams -> BOOLEAN]
        BY <1>n, <1>2 DEF ClientSend, CloseSend, Types, Become
    <2> QED BY <1>2, <2>1, <2>2 DEF ClientSend, CloseSend, Types, goroutines, reporting
<1>3. CASE ClientRecvEOF(s) \/ ClientRecvError(s) \/ ClientKilled(s)
    BY <1>3 DEF ClientRecvEOF, ClientRecvError, ClientKilled, Types, Become,
                goroutines, reporting
<1>4. CASE Push(s) \/ RecvEOF(s)
    <2>1. queued' \in [Streams -> Nat]
        BY <1>n, <1>4 DEF Push, RecvEOF, Types, Become
    <2>2. handler' \in [Streams -> {"none", "recv", "push", "returned"}]
        BY <1>n, <1>4 DEF Push, RecvEOF, Types, Become
    <2> QED BY <1>4, <2>1, <2>2 DEF Push, RecvEOF, Types, reporting, clientSide
<1>5. CASE RecvError(s) \/ SendError(s)
    BY <1>5 DEF RecvError, SendError, Types, goroutines, reporting, clientSide
<1> QED BY <1>1, <1>2, <1>3, <1>4, <1>5 DEF Quiet

LEMMA QuietCounts ==
    ASSUME Types, NEW s \in Streams, \A r \in Streams : Counted(r), Quiet(s), UNCHANGED NumbersOf
    PROVE  \A r \in Streams : Counted(r)'
<1> USE ConstantsAssumption DEF ConstantsAssumption
<1> SUFFICES ASSUME NEW r \in Streams PROVE Counted(r)'
    OBVIOUS
<1>1. Counted(r)
    OBVIOUS
<1>2. CASE Open(s)
    BY <1>1, <1>2 DEF Open, Types, Counted, Become
<1>3. CASE ClientSend(s)
    <2>1. sent'[r] = IF r = s THEN sent[r] + 1 ELSE sent[r]
        BY <1>3 DEF ClientSend, Types, Become
    <2>2. UNCHANGED <<closed, taken, queued, handler, replies, client>>
        BY <1>3 DEF ClientSend, goroutines
    <2>3. r = s => sent[r] < Len(NumbersOf[r]) /\ Len(NumbersOf[r]) \in Nat
        BY <1>3 DEF ClientSend, Types
    <2>4. sent[r] \in Nat /\ taken[r] \in Nat
        BY DEF Types
    <2> QED BY <1>1, <2>1, <2>2, <2>3, <2>4 DEF Counted
<1>4. CASE CloseSend(s)
    BY <1>1, <1>4 DEF CloseSend, Types, Counted, Become, goroutines
<1>5. CASE ClientRecvEOF(s) \/ ClientRecvError(s) \/ ClientKilled(s)
    BY <1>1, <1>5 DEF ClientRecvEOF, ClientRecvError, ClientKilled, Types, Counted, Become,
                      goroutines
<1>6. CASE Push(s)
    <2>1. queued'[r] = IF r = s THEN queued[r] + 1 ELSE queued[r]
        BY <1>6 DEF Push, Types, Become
    <2>2. handler'[r] = IF r = s THEN "recv" ELSE handler[r]
        BY <1>6 DEF Push, Types, Become
    <2>3. UNCHANGED <<closed, taken, sent, replies, client>>
        BY <1>6 DEF Push, clientSide
    <2>4. r = s => handler[r] = "push" /\ queued[r] < ChanSize
        BY <1>6 DEF Push, At
    <2>5. queued[r] \in Nat
        BY DEF Types
    <2> QED BY <1>1, <2>1, <2>2, <2>3, <2>4, <2>5 DEF Counted
<1>7. CASE RecvEOF(s)
    BY <1>1, <1>7 DEF RecvEOF, At, Types, Counted, Become, clientSide
<1>8. CASE RecvError(s) \/ SendError(s)
    BY <1>1, <1>8 DEF RecvError, SendError, Counted, goroutines, clientSide
<1> QED BY <1>2, <1>3, <1>4, <1>5, <1>6, <1>7, <1>8 DEF Quiet

LEMMA QuietReports ==
    ASSUME Types, NEW s \in Streams, \A r \in Streams : Reported(r), Quiet(s), UNCHANGED NumbersOf
    PROVE  \A r \in Streams : Reported(r)'
<1> SUFFICES ASSUME NEW r \in Streams PROVE Reported(r)'
    OBVIOUS
<1>1. UNCHANGED <<NumbersOf, max, taken, got, loaded, replies>>
    BY DEF Quiet, Open, ClientSend, CloseSend, ClientRecvEOF, ClientRecvError, ClientKilled,
           Push, RecvEOF, RecvError, SendError, goroutines, reporting, clientSide
<1>2. reporter'[r] = reporter[r] \/ reporter'[r] # "send"
    BY DEF Quiet, Open, ClientSend, CloseSend, ClientRecvEOF, ClientRecvError, ClientKilled,
           Push, RecvEOF, RecvError, SendError, Become, Types, reporting
<1> QED BY <1>1, <1>2, ReportsStay

-------------------------------------------------------------------------------
(* Steps that move a number or a report. *)

Moving(s) == Recv(s) \/ ClientRecv(s) \/ Load(s) \/ Send(s)

LEMMA MovingTypes ==
    ASSUME Types, NEW s \in Streams, Counted(s), Moving(s), UNCHANGED NumbersOf
    PROVE  Types'
<1>1. CASE Recv(s)
    <2>1. taken[s] + 1 \in Nat /\ taken[s] + 1 \in 1..Len(NumbersOf[s])
        BY <1>1 DEF Recv, Types, Counted
    <2>2. Larger(max[s], NumbersOf[s][taken[s] + 1]) \in Int
        BY <2>1 DEF Larger, Types
    <2> QED BY <1>1, <2>1, <2>2 DEF Recv, Types, Become, reporting, clientSide
<1>2. CASE ClientRecv(s)
    <2>1. Head(replies[s]) \in Int /\ Tail(replies[s]) \in Seq(Int)
        BY <1>2 DEF ClientRecv, Types
    <2> QED BY <1>2, <2>1 DEF ClientRecv, Types, Become, goroutines, reporting
<1>3. CASE Load(s)
    BY <1>3 DEF Load, Types, Become, goroutines, clientSide
<1>4. CASE Send(s)
    <2>1. Append(replies[s], loaded[s]) \in Seq(Int)
        BY DEF Types
    <2> QED BY <1>4, <2>1 DEF Send, Types, Become, goroutines, clientSide
<1> QED BY <1>1, <1>2, <1>3, <1>4 DEF Moving

LEMMA MovingCounts ==
    ASSUME Types, NEW s \in Streams, \A r \in Streams : Counted(r), Moving(s), UNCHANGED NumbersOf
    PROVE  \A r \in Streams : Counted(r)'
<1> SUFFICES ASSUME NEW r \in Streams PROVE Counted(r)'
    OBVIOUS
<1>0. Counted(r)
    OBVIOUS
<1>1. CASE Recv(s)
    <2>1. taken'[r] = IF r = s THEN taken[r] + 1 ELSE taken[r]
        BY <1>1 DEF Recv, Types, Become
    <2>2. handler'[r] = IF r = s THEN "push" ELSE handler[r]
        BY <1>1 DEF Recv, Types, Become
    <2>3. UNCHANGED <<closed, queued, sent, replies, client>>
        BY <1>1 DEF Recv, clientSide
    <2>4. r = s => handler[r] = "recv" /\ taken[r] < sent[r] /\ client[r] # "new"
        BY <1>0, <1>1 DEF Recv, At, Counted
    <2>5. queued[r] \in Nat /\ taken[r] \in Nat /\ sent[r] \in Nat
        BY DEF Types
    <2> QED BY <1>0, <2>1, <2>2, <2>3, <2>4, <2>5 DEF Counted
<1>2. CASE ClientRecv(s)
    <2>1. r = s => Len(replies'[r]) = Len(replies[r]) - 1 /\ Len(replies[r]) \in Nat
        BY <1>2 DEF ClientRecv, Types, Become
    <2>2. r # s => replies'[r] = replies[r]
        BY <1>2 DEF ClientRecv, Types, Become
    <2>3. ReplyBound \in Nat
        BY ConstantsAssumption DEF ConstantsAssumption
    <2> QED BY <1>0, <1>2, <2>1, <2>2, <2>3 DEF ClientRecv, Counted, goroutines
<1>3. CASE Load(s)
    BY <1>0, <1>3 DEF Load, Counted, goroutines, clientSide
<1>4. CASE Send(s)
    <2>1. r = s => Len(replies'[r]) = Len(replies[r]) + 1 /\ Len(replies[r]) < ReplyBound
        BY <1>4 DEF Send, Types, Become
    <2>2. r # s => replies'[r] = replies[r]
        BY <1>4 DEF Send, Types, Become
    <2>3. ReplyBound \in Nat /\ Len(replies[r]) \in Nat
        BY ConstantsAssumption DEF ConstantsAssumption, Types
    <2> QED BY <1>0, <1>4, <2>1, <2>2, <2>3 DEF Send, Counted, goroutines, clientSide
<1> QED BY <1>1, <1>2, <1>3, <1>4 DEF Moving

LEMMA RecvReports ==
    ASSUME Types, NEW s \in Streams, Counted(s), Reported(s), Recv(s), UNCHANGED NumbersOf
    PROVE  Reported(s)'
<1> DEFINE n == taken[s]
<1>1. n \in Nat /\ n < Len(NumbersOf[s])
    BY DEF Recv, Types, Counted
<1>2. taken'[s] = n + 1 /\ max'[s] = Larger(max[s], NumbersOf[s][n + 1])
    BY DEF Recv, Types, Become
<1>3. UNCHANGED <<got, loaded, replies, reporter>>
    BY DEF Recv, reporting, clientSide
<1>4. IsMaxOfFirst(max'[s], s, n + 1)
    BY <1>1, <1>2, NextMax DEF Types, Reported
<1>5. \A v : Reportable(v, s, n) => Reportable(v, s, n + 1)
    BY <1>1 DEF Reportable
<1> HIDE DEF n
<1>6. \A v : Reportable(v, s, taken[s]) => Reportable(v, s, taken[s])'
    BY <1>2, <1>5, SameNumbers DEF n
<1>7. IsMaxOfFirst(max[s], s, taken[s])'
    BY <1>2, <1>4, SameNumbers
<1> QED BY <1>3, <1>6, <1>7 DEF Reported

LEMMA ClientRecvReports ==
    ASSUME Types, NEW s \in Streams, Reported(s), ClientRecv(s), UNCHANGED NumbersOf
    PROVE  Reported(s)'
<1>1. UNCHANGED <<max, taken, loaded, reporter>>
    BY DEF ClientRecv, goroutines, reporting
<1>2. replies[s] \in Seq(Int) /\ replies[s] # <<>>
    BY DEF ClientRecv, Types
<1>3. got'[s] = replies[s][1] /\ 1 \in 1..Len(replies[s])
    BY <1>2 DEF ClientRecv, Types, Become
<1>4. /\ Len(replies'[s]) = Len(replies[s]) - 1
      /\ \A i \in 1..Len(replies'[s]) : replies'[s][i] = replies[s][i + 1]
    BY <1>2 DEF ClientRecv, Types, Become
<1>5. \A i \in 1..Len(replies'[s]) :
        i + 1 \in 1..Len(replies[s]) /\ 1 \in 1..(i + 1) /\ \A j \in 1..i : j + 1 \in 1..(i + 1)
    BY <1>2, <1>4
<1>6. \A i \in 1..Len(replies'[s]) :
        /\ Reportable(replies'[s][i], s, taken[s])
        /\ got'[s] <= replies'[s][i]
        /\ reporter[s] = "send" => replies'[s][i] <= loaded[s]
        /\ \A j \in 1..i : replies'[s][j] <= replies'[s][i]
    <2> SUFFICES ASSUME NEW i \in 1..Len(replies'[s])
                 PROVE  /\ Reportable(replies'[s][i], s, taken[s])
                        /\ got'[s] <= replies'[s][i]
                        /\ reporter[s] = "send" => replies'[s][i] <= loaded[s]
                        /\ \A j \in 1..i : replies'[s][j] <= replies'[s][i]
        OBVIOUS
    <2>1. i + 1 \in 1..Len(replies[s]) /\ 1 \in 1..(i + 1)
        BY <1>5
    <2>2. \A j \in 1..i : j \in 1..Len(replies'[s]) /\ j + 1 \in 1..(i + 1)
        BY <1>2, <1>4, <1>5
    <2> QED BY <1>3, <1>4, <2>1, <2>2 DEF Reported
<1>7. Reportable(got'[s], s, taken[s]) /\ (reporter[s] = "send" => got'[s] <= loaded[s])
    BY <1>3 DEF Reported
<1>8. Reportable(got[s], s, taken[s])' /\ Reportable(loaded[s], s, taken[s])'
      /\ IsMaxOfFirst(max[s], s, taken[s])'
      /\ \A i \in 1..Len(replies'[s]) : Reportable(replies[s][i], s, taken[s])'
    BY <1>1, <1>6, <1>7, SameNumbers DEF Reported
<1> QED BY <1>1, <1>6, <1>7, <1>8 DEF Reported

LEMMA LoadReports ==
    ASSUME Types, NEW s \in Streams, Counted(s), Reported(s), Load(s), UNCHANGED NumbersOf
    PROVE  Reported(s)'
<1>1. UNCHANGED <<max, taken, got, replies>>
    BY DEF Load, goroutines, clientSide
<1>2. loaded'[s] = max[s]
    BY DEF Load, Types, Become
<1>3. Reportable(max[s], s, taken[s])
    BY DEF Reported, Reportable, Types
<1>4. \A i \in 1..Len(replies[s]) : replies[s][i] <= max[s]
    BY ReportableBelowMax DEF Reported
<1>5. got[s] <= max[s]
    BY ReportableBelowMax DEF Reported
<1> QED BY <1>1, <1>2, <1>3, <1>4, <1>5, SameNumbers DEF Reported

LEMMA SendReports ==
    ASSUME Types, NEW s \in Streams, Reported(s), Send(s), UNCHANGED NumbersOf
    PROVE  Reported(s)'
<1>1. UNCHANGED <<max, taken, got, loaded>>
    BY DEF Send, goroutines, clientSide
<1>2. reporter[s] = "send" /\ reporter'[s] # "send"
    BY DEF Send, Types, Become
<1>3. replies[s] \in Seq(Int) /\ loaded[s] \in Int
    BY DEF Types
<1>4. replies'[s] = Append(replies[s], loaded[s])
    BY DEF Send, Types, Become
<1> DEFINE n == Len(replies[s])
<1>5. /\ n \in Nat
      /\ Len(replies'[s]) = n + 1
      /\ \A i \in 1..n : replies'[s][i] = replies[s][i]
      /\ replies'[s][n + 1] = loaded[s]
    BY <1>3, <1>4
<1> HIDE DEF n
<1>6. \A i \in 1..(n + 1) : i \in 1..n \/ i = n + 1
    BY <1>5
<1>7. ASSUME NEW i \in 1..(n + 1)
      PROVE  /\ Reportable(replies'[s][i], s, taken[s])
             /\ got[s] <= replies'[s][i]
             /\ \A j \in 1..i : replies'[s][j] <= replies'[s][i]
    <2>1. CASE i \in 1..n
        <3>1. \A j \in 1..i : j \in 1..n
            BY <1>5, <2>1
        <3> QED BY <1>5, <2>1, <3>1 DEF n, Reported
    <2>2. CASE i = n + 1
        <3>1. \A j \in 1..i : j \in 1..n \/ j = n + 1
            BY <1>6, <2>2
        <3> QED BY <1>2, <1>3, <1>5, <2>2, <3>1 DEF n, Reported
    <2> QED BY <1>6, <2>1, <2>2
<1> QED BY <1>1, <1>2, <1>5, <1>7, SameNumbers DEF Reported

LEMMA MovingReports ==
    ASSUME Types, NEW s \in Streams, \A r \in Streams : Counted(r) /\ Reported(r),
           Moving(s), UNCHANGED NumbersOf
    PROVE  \A r \in Streams : Reported(r)'
<1> SUFFICES ASSUME NEW r \in Streams PROVE Reported(r)'
    OBVIOUS
<1>1. CASE r = s
    BY <1>1, RecvReports, ClientRecvReports, LoadReports, SendReports DEF Moving
<1>2. CASE r # s
    <2>1. /\ UNCHANGED <<NumbersOf, max[r], taken[r], got[r], loaded[r], replies[r]>>
          /\ reporter'[r] = reporter[r]
        BY <1>2 DEF Moving, Recv, ClientRecv, Load, Send, Types, Become,
                    goroutines, reporting, clientSide
    <2> QED BY <2>1, ReportsStay
<1> QED BY <1>1, <1>2

-------------------------------------------------------------------------------
(* Every step. *)

LEMMA StepIsQuietOrMoving ==
    ASSUME Next
    PROVE  (\E s \in Streams : Quiet(s) \/ Moving(s)) /\ UNCHANGED NumbersOf
BY DEF Next, Keep, ClientStep, HandlerStep, ReporterStep, Quiet, Moving

LEMMA DeathStep ==
    ASSUME IInv, NEW s \in Streams, Quiet(s) \/ Moving(s)
    PROVE  DeathHasCause'
<1>1. \A r \in Streams : handler[r] = "returned" => handler'[r] = "returned"
    BY DEF IInv, Types, Counted, Quiet, Moving, Open, ClientSend, CloseSend, ClientRecv,
           ClientRecvEOF, ClientRecvError, ClientKilled, Recv, Push, RecvEOF, RecvError,
           Load, Send, SendError, At, Become, goroutines
<1>2. \A r \in Streams : client[r] = "dead" => client'[r] = "dead"
    BY DEF IInv, Types, Quiet, Moving, Open, ClientSend, CloseSend, ClientRecv,
           ClientRecvEOF, ClientRecvError, ClientKilled, Recv, Push, RecvEOF, RecvError,
           Load, Send, SendError, Become, clientSide
<1>3. up' = up \/ handler[s] = "returned" \/ client[s] = "dead"
    BY DEF Quiet, Moving, Open, ClientSend, CloseSend, ClientRecv, ClientRecvEOF,
           ClientRecvError, ClientKilled, Recv, Push, RecvEOF, RecvError, Load, Send,
           SendError, StreamLive
<1> QED BY <1>1, <1>2, <1>3 DEF IInv, DeathHasCause

LEMMA NextIInv == IInv /\ [Next]_vars => IInv'
<1> SUFFICES ASSUME IInv, [Next]_vars PROVE IInv'
    OBVIOUS
<1>1. CASE Next
    <2>1. PICK s \in Streams : Quiet(s) \/ Moving(s)
        BY <1>1, StepIsQuietOrMoving
    <2>2. UNCHANGED NumbersOf
        BY <1>1, StepIsQuietOrMoving
    <2>3. Types' /\ \A r \in Streams : Counted(r)' /\ Reported(r)'
        BY <2>1, <2>2, QuietTypes, QuietCounts, QuietReports,
           MovingTypes, MovingCounts, MovingReports DEF IInv
    <2> QED BY <2>1, <2>3, DeathStep DEF IInv
<1>2. CASE UNCHANGED vars
    <2>1. Types' /\ DeathHasCause'
        BY <1>2 DEF IInv, Types, DeathHasCause, vars, goroutines, reporting, clientSide
    <2>2. \A r \in Streams : Counted(r)'
        BY <1>2 DEF IInv, Counted, vars, goroutines, reporting, clientSide
    <2>3. \A r \in Streams : Reported(r)'
        BY <1>2, ReportsStay DEF IInv, vars, goroutines, reporting, clientSide
    <2> QED BY <2>1, <2>2, <2>3 DEF IInv
<1> QED BY <1>1, <1>2

\* The invariant holds whatever the clients send, and however the goroutines interleave.
THEOREM Invariance == SafeSpec => []IInv
BY InitIInv, NextIInv, PTL DEF SafeSpec

-------------------------------------------------------------------------------
(* What follows. *)

\* What a client has got, what is on its way and max have the types the code gives
\* them; nothing but the numbers of that client and the initial value is ever reported.
THEOREM TypeCorrect == SafeSpec => []TypeOK
<1>1. ASSUME IInv PROVE TypeOK
    <2> SUFFICES ASSUME NEW s \in Streams
                 PROVE  {max[s], loaded[s], got[s]} \subseteq FirstNumbers(s, Len(NumbersOf[s]))
        BY <1>1, ConstantsAssumption DEF IInv, TypeOK, Types, Counted, ConstantsAssumption
    <2>1. \A v, k : k \in 0..taken[s] /\ v \in FirstNumbers(s, k)
                      => v \in FirstNumbers(s, Len(NumbersOf[s]))
        BY <1>1, FirstNumbersGrow DEF IInv, Types, Counted
    <2>2. taken[s] \in 0..taken[s]
        BY <1>1 DEF IInv, Types
    <2> QED BY <1>1, <2>1, <2>2 DEF IInv, Reported, Reportable, IsMaxOfFirst
<1> QED BY <1>1, Invariance, PTL

\* The number of pending responses, at most one.
Pending(s) == IF reporter[s] = "send" THEN 1 ELSE 0

LEMMA PipelineElements ==
    ASSUME Types, NEW s \in Streams
    PROVE  /\ Len(Pipeline(s)) = Len(replies[s]) + Pending(s) + 2
           /\ Pipeline(s)[1] = got[s]
           /\ \A i \in 1..Len(replies[s]) : Pipeline(s)[i + 1] = replies[s][i]
           /\ Pending(s) = 1 => Pipeline(s)[Len(replies[s]) + 2] = loaded[s]
           /\ Pipeline(s)[Len(replies[s]) + Pending(s) + 2] = max[s]
<1> DEFINE n == Len(replies[s])
           m == Pending(s)
           q == IF reporter[s] = "send" THEN <<loaded[s]>> ELSE <<>>
           a == <<got[s]>> \o replies[s]
           b == a \o q
<1>1. n \in Nat /\ replies[s] \in Seq(Int) /\ got[s] \in Int /\ max[s] \in Int
    BY DEF Types
<1>2. q \in Seq(Int) /\ Len(q) = m /\ (m = 1 => q[1] = loaded[s]) /\ m \in Nat /\ m <= 1
    BY DEF Types, Pending
<1>3. a \in Seq(Int) /\ Len(a) = n + 1 /\ a[1] = got[s]
      /\ \A i \in 1..n : a[i + 1] = replies[s][i]
    BY <1>1
<1> HIDE DEF a, q, n, m
<1>4. b \in Seq(Int) /\ Len(b) = n + 1 + m
      /\ (\A i \in 1..(n + 1) : b[i] = a[i]) /\ (m = 1 => b[n + 2] = q[1])
    BY <1>1, <1>2, <1>3
<1> HIDE DEF b
<1>5. Pipeline(s) = b \o <<max[s]>>
    BY DEF Pipeline, a, b, q
<1>6. /\ Len(Pipeline(s)) = n + m + 2
      /\ \A i \in 1..(n + m + 1) : Pipeline(s)[i] = b[i]
      /\ Pipeline(s)[n + m + 2] = max[s]
    BY <1>1, <1>2, <1>4, <1>5
<1>7. \A i \in 1..n : i + 1 \in 1..(n + 1) /\ i + 1 \in 1..(n + m + 1)
    BY <1>1, <1>2
<1>8. 1 \in 1..(n + 1) /\ 1 \in 1..(n + m + 1) /\ (m = 1 => n + 2 \in 1..(n + m + 1))
    BY <1>1, <1>2
<1> QED BY <1>1, <1>2, <1>3, <1>4, <1>6, <1>7, <1>8 DEF n, m

\* FindMax reads max without a lock, and still every response is the maximum of a first
\* part of the numbers, and no response is below an earlier one.
THEOREM ResponsesAreMaxima == SafeSpec => []ReportsArePrefixMaxima
<1>1. ASSUME IInv, NEW s \in Streams
      PROVE  /\ \A i \in 1..Len(Pipeline(s)) : Reportable(Pipeline(s)[i], s, taken[s])
             /\ \A i \in 1..Len(Pipeline(s)) - 1 : Pipeline(s)[i] <= Pipeline(s)[i + 1]
    <2> DEFINE n == Len(replies[s])
               m == Pending(s)
               p == Pipeline(s)
    <2>0. Types /\ Counted(s) /\ Reported(s)
        BY <1>1 DEF IInv
    <2>1. n \in Nat /\ m \in 0..1
        BY <2>0 DEF Types, Pending
    <2>2. /\ Len(p) = n + m + 2
          /\ p[1] = got[s]
          /\ \A i \in 1..n : p[i + 1] = replies[s][i]
          /\ m = 1 => p[n + 2] = loaded[s]
          /\ p[n + m + 2] = max[s]
        BY <2>0, PipelineElements
    <2>3. Reportable(max[s], s, taken[s])
        BY <2>0 DEF Reported, Reportable, Types
    <2>4. /\ got[s] <= max[s] /\ loaded[s] <= max[s]
          /\ \A i \in 1..n : replies[s][i] <= max[s]
        BY <2>0, ReportableBelowMax DEF Reported
    <2>5. m = 1 => got[s] <= loaded[s] /\ \A i \in 1..n : replies[s][i] <= loaded[s]
        BY <2>0 DEF Reported, Pending
    <2>6. ASSUME NEW i \in 1..n, i + 1 \in 1..n PROVE replies[s][i] <= replies[s][i + 1]
        <3>1. i \in 1..(i + 1)
            BY <2>1
        <3> QED BY <2>0, <2>6, <3>1 DEF Reported
    <2>7. n >= 1 => got[s] <= replies[s][1]
        BY <2>0, <2>1 DEF Reported
    <2>8. /\ Reportable(got[s], s, taken[s]) /\ Reportable(loaded[s], s, taken[s])
          /\ \A i \in 1..n : Reportable(replies[s][i], s, taken[s])
        BY <2>0 DEF Reported
    <2> HIDE DEF n, m, p
    <2>9. ASSUME NEW i \in 1..Len(p) PROVE Reportable(p[i], s, taken[s])
        <3>1. i = 1 \/ (i - 1 \in 1..n /\ (i - 1) + 1 = i)
              \/ (m = 1 /\ i = n + 2) \/ i = n + m + 2
            BY <2>1, <2>2
        <3> QED BY <2>2, <2>3, <2>8, <3>1
    <2>10. ASSUME NEW i \in 1..Len(p) - 1 PROVE p[i] <= p[i + 1]
        <3>1. CASE i = 1
            <4>1. n = 0 \/ 1 \in 1..n
                BY <2>1
            <4> QED BY <2>1, <2>2, <2>4, <2>5, <2>7, <3>1, <4>1
        <3>2. CASE i # 1 /\ i < n + 1
            <4>1. i - 1 \in 1..n /\ i \in 1..n /\ (i - 1) + 1 = i
                BY <2>1, <2>2, <3>2
            <4> QED BY <2>2, <2>6, <4>1
        <3>3. CASE i # 1 /\ i = n + 1
            <4>1. n \in 1..n
                BY <2>1, <3>3
            <4> QED BY <2>1, <2>2, <2>4, <2>5, <3>3, <4>1
        <3>4. CASE i = n + 2 /\ m = 1
            BY <2>1, <2>2, <2>4, <3>4
        <3>5. i < n + 1 \/ i = n + 1 \/ (i = n + 2 /\ m = 1)
            BY <2>1, <2>2
        <3> QED BY <3>1, <3>2, <3>3, <3>4, <3>5
    <2> QED BY <2>9, <2>10 DEF p
<1>2. ASSUME IInv PROVE ReportsArePrefixMaxima
    BY <1>1, <1>2 DEF IInv, ReportsArePrefixMaxima, Reported, Reportable
<1> QED BY <1>2, Invariance, PTL

\* A stream that comes to its end had no more numbers than responseChan holds, all of
\* them taken; and the process ends only after such an end or a lost client.
THEOREM EndedStreamsFit == SafeSpec => []EndedStreamsAreShort
<1>1. ASSUME IInv PROVE EndedStreamsAreShort
    <2>1. ASSUME NEW s \in Streams, handler[s] = "returned"
          PROVE  taken[s] = Len(NumbersOf[s]) /\ taken[s] <= ChanSize
        <3>1. Counted(s) /\ queued[s] \in Nat /\ ChanSize \in Nat
            BY <1>1, ConstantsAssumption DEF IInv, Types, ConstantsAssumption
        <3>2. handler[s] # "push"
            BY <2>1
        <3> QED BY <2>1, <3>1, <3>2 DEF Counted
    <2> QED BY <1>1, <2>1 DEF IInv, DeathHasCause, EndedStreamsAreShort
<1> QED BY <1>1, Invariance, PTL
===============================================================================
