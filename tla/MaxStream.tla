------------------------------- MODULE MaxStream -------------------------------
(***************************************************************************)
(* chapter-4's Go max service: FindMax of grpc-max-server.go, one instance *)
(* per stream of one server process, and the client of grpc-max-client.go. *)
(* FindMax runs two goroutines that share the local max without a lock:    *)
(* the handler reads the numbers, the reporter sends max every two         *)
(* seconds, for ever.  Each direction of a stream is a FIFO channel.       *)
(***************************************************************************)
EXTENDS Integers, Sequences, FiniteSets

CONSTANTS Streams,      \* the clients, one stream each
          Inputs,       \* sequences of numbers a client may send
          MinInt32,
          ChanSize,     \* capacity of responseChan
          ReplyBound    \* bound on undelivered responses of a stream

ASSUME ConstantsAssumption ==
    /\ Inputs \subseteq Seq(Int)
    /\ MinInt32 \in Int
    /\ ChanSize \in Nat
    /\ ReplyBound \in Nat

VARIABLES
    NumbersOf,   \* the numbers the client of a stream sends
    up,          \* the server process runs
    handler,     \* where the main loop of FindMax is
    max,         \* the local the two goroutines share
    queued,      \* values in responseChan, which nobody receives
    reporter,    \* where the sending goroutine is
    loaded,      \* the argument of its pending Send
    sent,        \* numbers the client has sent
    closed,      \* the client has called CloseSend
    taken,       \* numbers the handler has received
    replies,     \* responses under way to the client
    got,         \* history: the last response the client received, or MinInt32
    client       \* what became of the client

goroutines == <<handler, max, queued, taken>>
reporting  == <<reporter, loaded>>
clientSide == <<sent, closed, got, client>>
vars == <<NumbersOf, up, goroutines, reporting, replies, clientSide>>

Init ==
    /\ NumbersOf \in [Streams -> Inputs]
    /\ up = TRUE
    /\ handler = [s \in Streams |-> "none"]
    /\ max = [s \in Streams |-> MinInt32]
    /\ queued = [s \in Streams |-> 0]
    /\ reporter = [s \in Streams |-> "none"]
    /\ loaded = [s \in Streams |-> MinInt32]
    /\ sent = [s \in Streams |-> 0]
    /\ closed = [s \in Streams |-> FALSE]
    /\ taken = [s \in Streams |-> 0]
    /\ replies = [s \in Streams |-> <<>>]
    /\ got = [s \in Streams |-> MinInt32]
    /\ client = [s \in Streams |-> "new"]

At(s, pc) == up /\ handler[s] = pc

Become(f, s, v) == [f EXCEPT ![s] = v]

-------------------------------------------------------------------------------
(* Mutants: slips that the properties below must notice. *)

\* The last number instead of the largest.
RecvLatest(s) ==
    /\ At(s, "recv")
    /\ taken[s] < sent[s]
    /\ taken' = Become(taken, s, taken[s] + 1)
    /\ max' = Become(max, s, NumbersOf[s][taken[s] + 1])
    /\ handler' = Become(handler, s, "push")
    /\ UNCHANGED <<up, queued, reporting, replies, clientSide>>

\* A channel that takes any number of values.
PushUnbounded(s) ==
    /\ At(s, "push")
    /\ queued' = Become(queued, s, queued[s] + 1)
    /\ handler' = Become(handler, s, "recv")
    /\ UNCHANGED <<up, max, taken, reporting, replies, clientSide>>

\* The end of the stream overtakes the numbers.
RecvEOFEarly(s) ==
    /\ At(s, "recv")
    /\ closed[s]
    /\ handler' = Become(handler, s, "returned")
    /\ UNCHANGED <<up, max, queued, taken, reporting, replies, clientSide>>

\* An error of Send ends the reporter only.
SendErrorEndsReporter(s) ==
    /\ up
    /\ reporter[s] = "send"
    /\ handler[s] = "returned" \/ client[s] = "dead"
    /\ reporter' = Become(reporter, s, "ended")
    /\ UNCHANGED <<up, goroutines, loaded, replies, clientSide>>

-------------------------------------------------------------------------------
(* The client: one goroutine sends the numbers and closes, one receives. *)

Open(s) ==
    /\ up
    /\ client[s] = "new"
    /\ client' = Become(client, s, "open")
    /\ handler' = Become(handler, s, "recv")
    /\ reporter' = Become(reporter, s, "sleep")
    /\ UNCHANGED <<up, max, queued, taken, loaded, replies, sent, closed, got>>

ClientSend(s) ==
    /\ client[s] = "open"
    /\ sent[s] < Len(NumbersOf[s])
    /\ sent' = Become(sent, s, sent[s] + 1)
    /\ UNCHANGED <<up, goroutines, reporting, replies, closed, got, client>>

CloseSend(s) ==
    /\ client[s] = "open"
    /\ sent[s] = Len(NumbersOf[s])
    /\ ~closed[s]
    /\ closed' = Become(closed, s, TRUE)
    /\ UNCHANGED <<up, goroutines, reporting, replies, sent, got, client>>

ClientRecv(s) ==
    /\ client[s] = "open"
    /\ replies[s] # <<>>
    /\ got' = Become(got, s, Head(replies[s]))
    /\ replies' = Become(replies, s, Tail(replies[s]))
    /\ UNCHANGED <<up, goroutines, reporting, sent, closed, client>>

\* io.EOF comes after the responses.
ClientRecvEOF(s) ==
    /\ client[s] = "open"
    /\ handler[s] = "returned" /\ replies[s] = <<>>
    /\ client' = Become(client, s, "ended")
    /\ UNCHANGED <<up, goroutines, reporting, replies, sent, closed, got>>

\* Recv reports an error once the server is gone: log.Fatalf.
ClientRecvError(s) ==
    /\ ~up
    /\ client[s] = "open"
    /\ client' = Become(client, s, "dead")
    /\ UNCHANGED <<up, goroutines, reporting, replies, sent, closed, got>>

\* The client process is stopped from outside.
ClientKilled(s) ==
    /\ client[s] = "open"
    /\ client' = Become(client, s, "dead")
    /\ UNCHANGED <<up, goroutines, reporting, replies, sent, closed, got>>

-------------------------------------------------------------------------------
(* The handler. *)

Larger(a, b) == IF a < b THEN b ELSE a

Recv(s) ==
    /\ At(s, "recv")
    /\ taken[s] < sent[s]
    /\ taken' = Become(taken, s, taken[s] + 1)
    /\ max' = Become(max, s, Larger(max[s], NumbersOf[s][taken[s] + 1]))
    /\ handler' = Become(handler, s, "push")
    /\ UNCHANGED <<up, queued, reporting, replies, clientSide>>

\* responseChan <- max: nobody receives, so a full channel blocks for good.
Push(s) ==
    /\ At(s, "push")
    /\ queued[s] < ChanSize
    /\ queued' = Become(queued, s, queued[s] + 1)
    /\ handler' = Become(handler, s, "recv")
    /\ UNCHANGED <<up, max, taken, reporting, replies, clientSide>>

\* io.EOF: the handler returns and the stream ends for the client.
RecvEOF(s) ==
    /\ At(s, "recv")
    /\ closed[s] /\ taken[s] = sent[s]
    /\ handler' = Become(handler, s, "returned")
    /\ UNCHANGED <<up, max, queued, taken, reporting, replies, clientSide>>

\* A client that is gone makes Recv fail, possibly after numbers that were still
\* under way: any error but io.EOF is fatal for the whole process.
RecvError(s) ==
    /\ At(s, "recv")
    /\ client[s] = "dead"
    /\ up' = FALSE
    /\ UNCHANGED <<goroutines, reporting, replies, clientSide>>

-------------------------------------------------------------------------------
(* The reporter. *)

Load(s) ==
    /\ up
    /\ reporter[s] = "sleep"
    /\ loaded' = Become(loaded, s, max[s])
    /\ reporter' = Become(reporter, s, "send")
    /\ UNCHANGED <<up, goroutines, replies, clientSide>>

StreamLive(s) == handler[s] # "returned" /\ client[s] # "dead"

Send(s) ==
    /\ up
    /\ reporter[s] = "send"
    /\ StreamLive(s)
    /\ Len(replies[s]) < ReplyBound
    /\ replies' = Become(replies, s, Append(replies[s], loaded[s]))
    /\ reporter' = Become(reporter, s, "sleep")
    /\ UNCHANGED <<up, goroutines, loaded, clientSide>>

\* Send fails on a stream that has ended: log.Fatalf ends the process, and with it
\* every other stream.
SendError(s) ==
    /\ up
    /\ reporter[s] = "send"
    /\ ~StreamLive(s)
    /\ up' = FALSE
    /\ UNCHANGED <<goroutines, reporting, replies, clientSide>>

-------------------------------------------------------------------------------

ClientStep(s) ==
    \/ Open(s) \/ ClientSend(s) \/ CloseSend(s)
    \/ ClientRecv(s) \/ ClientRecvEOF(s) \/ ClientRecvError(s)

HandlerStep(s) == Recv(s) \/ Push(s) \/ RecvEOF(s) \/ RecvError(s)

ReporterStep(s) == Load(s) \/ Send(s) \/ SendError(s)

\* The numbers of a client never change.
Keep(step) == step /\ UNCHANGED NumbersOf

Next ==
    \E s \in Streams : \/ Keep(ClientStep(s)) \/ Keep(ClientKilled(s))
                       \/ Keep(HandlerStep(s)) \/ Keep(ReporterStep(s))

SafeSpec == Init /\ [][Next]_vars

\* Goroutines are scheduled and sleeps end; that a client is killed is not assumed.
\* The two goroutines of a client run side by side.
Spec ==
    /\ SafeSpec
    /\ \A s \in Streams :
         /\ WF_vars(Keep(ClientSend(s) \/ CloseSend(s)))
         /\ WF_vars(Keep(ClientRecv(s) \/ ClientRecvEOF(s) \/ ClientRecvError(s)))
         /\ WF_vars(Keep(HandlerStep(s))) /\ WF_vars(Keep(ReporterStep(s)))

-------------------------------------------------------------------------------
(* Properties. *)

\* The initial value of max and the first k numbers.
FirstNumbers(s, k) == {MinInt32} \union {NumbersOf[s][i] : i \in 1..k}

TypeOK ==
    /\ up \in BOOLEAN
    /\ \A s \in Streams :
         /\ queued[s] \in 0..ChanSize
         /\ taken[s] <= sent[s] /\ sent[s] <= Len(NumbersOf[s])
         /\ closed[s] => sent[s] = Len(NumbersOf[s])
         /\ {max[s], loaded[s], got[s]} \subseteq FirstNumbers(s, Len(NumbersOf[s]))
         /\ Len(replies[s]) <= ReplyBound

IsMaxOfFirst(v, s, k) ==
    v \in FirstNumbers(s, k) /\ \A w \in FirstNumbers(s, k) : w <= v

\* What the client has not seen yet, oldest first, the pending Send last.
Pipeline(s) ==
    <<got[s]>> \o replies[s]
    \o (IF reporter[s] = "send" THEN <<loaded[s]>> ELSE <<>>) \o <<max[s]>>

\* Although max is read without a lock, every response is the maximum of some
\* first part of the numbers, and responses never go down.
ReportsArePrefixMaxima ==
    \A s \in Streams :
        LET p == Pipeline(s) IN
        /\ IsMaxOfFirst(max[s], s, taken[s])
        /\ \A i \in 1..Len(p) : \E k \in 0..taken[s] : IsMaxOfFirst(p[i], s, k)
        /\ \A i \in 1..Len(p) - 1 : p[i] <= p[i + 1]

\* A stream ends for its client only after the handler took every number, and
\* then the client sent no more numbers than responseChan holds. The process ends
\* only after such an end, or after a client has disappeared.
EndedStreamsAreShort ==
    /\ \A s \in Streams :
         handler[s] = "returned" => taken[s] = Len(NumbersOf[s]) /\ taken[s] <= ChanSize
    /\ ~up => \E s \in Streams : handler[s] = "returned" \/ client[s] = "dead"

\* A stream that ends in good order takes the server down: its reporter outlives it.
GoodEndKillsServer == \A s \in Streams : handler[s] = "returned" ~> ~up

\* grpc-max-server.go:80: "Send the updated max to the goroutine through the channel".
MaxReachesReporter == \A s \in Streams : queued[s] > 0 ~> queued[s] = 0 \/ ~up
===============================================================================
