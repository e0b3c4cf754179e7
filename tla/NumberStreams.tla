------------------------------ MODULE NumberStreams ------------------------------
(***************************************************************************)
(* chapter-4's Go average and Fibonacci servers and their clients: a       *)
(* client-streaming, a unary and a server-streaming method.  Neither       *)
(* server recovers from a panic, so one call can end the process and with  *)
(* it every other call.  Each direction of a call is a FIFO channel.       *)
(***************************************************************************)
EXTENDS NumberProto, FixedWidth

CONSTANTS Callers,
          Jobs,       \* what a caller may be asked to do, see Job
          MaxKills    \* bound on callers that are killed

\* The flags of a client. The clients of the repository send at least one number;
\* a caller of its own making (the servers register reflection) may send none.
Job == [kind : {"average"}, numbers : Seq(Int)]
       \union [kind : {"sync", "async"}, number : Int]
       \union [kind : {"none"}]

ASSUME StreamsAssumption ==
    Jobs \subseteq Job /\ MaxKills \in Nat

VARIABLES
    job,       \* what a caller does
    caller,    \* where it is, how many numbers it sent, what it printed
    stream,    \* a call: its two channels and the locals of its handler
    serving,   \* the server processes that run
    kills

streamVars == <<job, caller, stream, serving, kills>>

StreamsInit ==
    /\ job \in [Callers -> Jobs]
    /\ caller = [c \in Callers |-> [at |-> "off", sent |-> 0, printed |-> <<>>]]
    /\ stream = [c \in Callers |-> [at |-> "none", up |-> <<>>, closed |-> FALSE,
                                    down |-> <<>>, sum |-> 0, count |-> 0]]
    /\ serving = {"average", "fibonacci"}
    /\ kills = 0

-------------------------------------------------------------------------------

Kind(c) == job[c].kind

ServerFor(c) == IF Kind(c) = "average" THEN "average" ELSE "fibonacci"

SetCaller(c, at) == caller' = [caller EXCEPT ![c].at = at]

Running(c) == stream[c].at = "running"

\* A server process ends, and with it every call that it runs. A call that its
\* handler has ended is lost too, unless all of it has left the process.
Dies(s) ==
    /\ serving' = serving \ {s}
    /\ \E left \in SUBSET {c \in Callers : ServerFor(c) = s /\ stream[c].at = "ended"} :
         stream' = [c \in Callers |->
             IF ServerFor(c) = s /\ stream[c].at # "none" /\ c \notin left
             THEN [stream[c] EXCEPT !.at = "broken"] ELSE stream[c]]
    /\ UNCHANGED <<job, caller, kills>>

-------------------------------------------------------------------------------
(* The clients. Any error ends a client, except that of a Send.               *)

\* A stub opens the call; the stubs of the Fibonacci methods also send the one
\* request and close.
Open(c) ==
    /\ caller[c].at = "off" /\ Kind(c) # "none"
    /\ IF ServerFor(c) \notin serving THEN SetCaller(c, "dead") /\ UNCHANGED stream
       ELSE IF Kind(c) = "average"
       THEN /\ SetCaller(c, "sending")
            /\ stream' = [stream EXCEPT ![c].at = "running"]
       ELSE /\ SetCaller(c, "reading")
            /\ stream' = [stream EXCEPT
                 ![c].at = "running", ![c].closed = TRUE,
                 ![c].up = <<Encode(FibonacciRequest, [number |-> ToInt32(job[c].number)])>>]
    /\ UNCHANGED <<job, serving, kills>>

SendNumber(c) ==
    /\ caller[c].at = "sending" /\ caller[c].sent < Len(job[c].numbers)
    /\ caller' = [caller EXCEPT ![c].sent = @ + 1]
    /\ \E n \in {ToInt32(job[c].numbers[caller[c].sent + 1])} :
         stream' = IF Running(c)
                   THEN [stream EXCEPT ![c].up =
                           Append(@, Encode(AverageRequest, [number |-> n]))]
                   ELSE stream
    /\ UNCHANGED <<job, serving, kills>>

\* Mutant: a client that waits for the response without closing.
CloseAndRecvOpen(c) ==
    /\ caller[c].at = "sending" /\ caller[c].sent = Len(job[c].numbers)
    /\ SetCaller(c, "reading")
    /\ UNCHANGED <<job, stream, serving, kills>>

CloseAndRecv(c) ==
    /\ caller[c].at = "sending" /\ caller[c].sent = Len(job[c].numbers)
    /\ SetCaller(c, "reading")
    /\ stream' = [stream EXCEPT ![c].closed = TRUE]
    /\ UNCHANGED <<job, serving, kills>>

Reads(c) == caller[c].at = "reading" /\ stream[c].down # <<>>

ReadAverage(c) ==
    /\ Reads(c) /\ Kind(c) = "average" /\ stream[c].at = "ended"
    /\ \E r \in {Decode(AverageResponse, Head(stream[c].down))} :
         caller' = [caller EXCEPT ![c].at = "done", ![c].printed = <<r.average>>]
    /\ UNCHANGED <<job, stream, serving, kills>>

\* Without a number the client has nothing to cut the first comma from: it panics.
ReadSync(c) ==
    /\ Reads(c) /\ Kind(c) = "sync" /\ stream[c].at = "ended"
    /\ \E r \in {Decode(SyncFibonacciResponse, Head(stream[c].down))} :
         IF r.fibonacciNumbers = <<>> THEN SetCaller(c, "dead")
         ELSE caller' = [caller EXCEPT ![c].at = "done", ![c].printed =
                 [k \in 1 .. Len(r.fibonacciNumbers) |->
                     [sequence |-> k - 1, fibonacciNumber |-> r.fibonacciNumbers[k]]]]
    /\ UNCHANGED <<job, stream, serving, kills>>

ReadAsync(c) ==
    /\ Reads(c) /\ Kind(c) = "async"
    /\ \E r \in {Decode(AsyncFibonacciResponse, Head(stream[c].down))} :
         caller' = [caller EXCEPT ![c].printed = Append(@, r)]
    /\ stream' = [stream EXCEPT ![c].down = Tail(@)]
    /\ UNCHANGED <<job, serving, kills>>

ReadEOF(c) ==
    /\ caller[c].at = "reading" /\ Kind(c) = "async"
    /\ stream[c].at = "ended" /\ stream[c].down = <<>>
    /\ SetCaller(c, "done")
    /\ UNCHANGED <<job, stream, serving, kills>>

\* Mutant: asyncFibonacci that takes every error for the end of the stream.
ReadErrorAsEnd(c) ==
    /\ caller[c].at = "reading" /\ stream[c].at = "broken"
    /\ SetCaller(c, IF Kind(c) = "async" THEN "done" ELSE "dead")
    /\ UNCHANGED <<job, stream, serving, kills>>

\* Responses of a broken call may have been lost with it.
ReadError(c) ==
    /\ caller[c].at = "reading" /\ stream[c].at = "broken"
    /\ SetCaller(c, "dead")
    /\ UNCHANGED <<job, stream, serving, kills>>

KillCaller(c) ==
    /\ kills < MaxKills
    /\ caller[c].at \in {"sending", "reading"}
    /\ SetCaller(c, "dead")
    /\ kills' = kills + 1
    /\ UNCHANGED <<job, stream, serving>>

-------------------------------------------------------------------------------
(* FindAverage. *)

\* Mutant: FindAverage that takes a zero for a field that is not there.
RecvSkipsZero(c) ==
    /\ Running(c) /\ Kind(c) = "average" /\ stream[c].up # <<>>
    /\ \E r \in {Decode(AverageRequest, Head(stream[c].up))} :
         stream' = [stream EXCEPT ![c].up = Tail(@), ![c].sum = @ + r.number,
                                  ![c].count = IF r.number = 0 THEN @ ELSE @ + 1]
    /\ UNCHANGED <<job, caller, serving, kills>>

Recv(c) ==
    /\ Running(c) /\ Kind(c) = "average" /\ stream[c].up # <<>>
    /\ \E r \in {Decode(AverageRequest, Head(stream[c].up))} :
         stream' = [stream EXCEPT ![c].up = Tail(@), ![c].count = @ + 1, ![c].sum = @ + r.number]
    /\ UNCHANGED <<job, caller, serving, kills>>

Average(c) == ToInt32(Quotient(stream[c].sum, stream[c].count))

\* Without a number the division panics, which ends the process.
RecvEOF(c) ==
    /\ Running(c) /\ Kind(c) = "average" /\ stream[c].up = <<>> /\ stream[c].closed
    /\ IF stream[c].count = 0 THEN Dies("average")
       ELSE /\ stream' = [stream EXCEPT ![c].at = "ended",
                 ![c].down = <<Encode(AverageResponse, [average |-> Average(c)])>>]
            /\ UNCHANGED <<job, caller, serving, kills>>

\* The caller has gone: log.Fatalf ends the process.
RecvError(c) ==
    /\ Running(c) /\ Kind(c) = "average" /\ caller[c].at = "dead"
    /\ Dies("average")

-------------------------------------------------------------------------------
(* SyncFibonacci and AsyncFibonacci. *)

Requested(c) == Decode(FibonacciRequest, Head(stream[c].up)).number

Fibonacci(n) == [k \in 1 .. n |-> ToInt32(fib[k - 1])]

\* Mutant: a handler that has no room for an empty result either.
SyncFibonacciNoZero(c) ==
    /\ Running(c) /\ Kind(c) = "sync"
    /\ IF Requested(c) <= 0 THEN Dies("fibonacci")
       ELSE /\ stream' = [stream EXCEPT ![c].at = "ended",
                 ![c].down = <<Encode(SyncFibonacciResponse,
                     [timeTaken |-> "seconds", fibonacciNumbers |-> Fibonacci(Requested(c))])>>]
            /\ UNCHANGED <<job, caller, serving, kills>>

\* make panics for a negative length.
SyncFibonacci(c) ==
    /\ Running(c) /\ Kind(c) = "sync"
    /\ IF Requested(c) < 0 THEN Dies("fibonacci")
       ELSE /\ stream' = [stream EXCEPT ![c].at = "ended",
                 ![c].down = <<Encode(SyncFibonacciResponse,
                     [timeTaken |-> "seconds", fibonacciNumbers |-> Fibonacci(Requested(c))])>>]
            /\ UNCHANGED <<job, caller, serving, kills>>

\* One iteration of the loop, whose counter is count. An error of Send is ignored:
\* the loop also runs to its end for a caller that has gone.
AsyncFibonacci(c) ==
    /\ Running(c) /\ Kind(c) = "async"
    /\ IF stream[c].count < Requested(c)
       THEN stream' = [stream EXCEPT ![c].count = @ + 1,
                ![c].down = Append(@, Encode(AsyncFibonacciResponse,
                    [sequence |-> stream[c].count,
                     fibonacciNumber |-> ToInt32(fib[stream[c].count])]))]
       ELSE stream' = [stream EXCEPT ![c].at = "ended"]
    /\ UNCHANGED <<job, caller, serving, kills>>

-------------------------------------------------------------------------------

CallerStep(c) ==
    \/ Open(c) \/ SendNumber(c) \/ CloseAndRecv(c)
    \/ ReadAverage(c) \/ ReadSync(c) \/ ReadAsync(c) \/ ReadEOF(c) \/ ReadError(c)

HandlerStep(c) ==
    Recv(c) \/ RecvEOF(c) \/ RecvError(c) \/ SyncFibonacci(c) \/ AsyncFibonacci(c)

StreamsNext ==
    \E c \in Callers : CallerStep(c) \/ HandlerStep(c) \/ KillCaller(c)

\* Every process that runs makes progress.
StreamsFairness ==
    \A c \in Callers : WF_streamVars(CallerStep(c)) /\ WF_streamVars(HandlerStep(c))

-------------------------------------------------------------------------------
(* Properties. *)

StreamsTypeOK ==
    /\ job \in [Callers -> Job]
    /\ serving \subseteq {"average", "fibonacci"}
    /\ kills \in 0 .. MaxKills
    /\ \A c \in Callers :
         /\ caller[c].at \in {"off", "sending", "reading", "done", "dead"}
         /\ stream[c].at \in {"none", "running", "ended", "broken"}
         /\ stream[c].at = "running" => ServerFor(c) \in serving

\* A client of the average server that gets an answer gets the average of all the
\* numbers it was given, of which there is at least one, although it ignores the
\* errors of Send, and although a zero travels as an empty message.
AverageOfAllNumbers ==
    \A c \in Callers :
        Kind(c) = "average" /\ caller[c].at = "done" =>
            /\ job[c].numbers # <<>>
            /\ caller[c].printed =
                 <<Quotient(Sums(job[c].numbers)[Len(job[c].numbers)], Len(job[c].numbers))>>

\* What a Fibonacci client prints begins the sequence, in order and without a gap, and
\* a client that ends normally has printed all of it, whoever else ended the server.
PrintedInOrder ==
    \A c \in Callers :
        Kind(c) \in {"sync", "async"} =>
            /\ \A k \in DOMAIN caller[c].printed :
                 caller[c].printed[k] =
                    [sequence |-> k - 1, fibonacciNumber |-> ToInt32(fib[k - 1])]
            /\ caller[c].at = "done" =>
                 DOMAIN caller[c].printed = 1 .. ToInt32(job[c].number)

\* A server process ends only by the call of one caller: by one that closes its stream
\* without a number or disappears before it is answered (average), or by a synchronous
\* one that asks for a negative count of numbers (Fibonacci).
ServerDeathHasCause ==
    [][\A s \in serving \ serving' :
          \E c \in Callers :
              /\ ServerFor(c) = s /\ Running(c)
              /\ \/ Kind(c) = "average" /\ (caller[c].at = "dead" \/ job[c].numbers = <<>>)
                 \/ Kind(c) = "sync" /\ ToInt32(job[c].number) < 0]_streamVars

\* Every client ends, with its answer or an error, though none sets a deadline.
EveryCallerEnds ==
    \A c \in Callers : Kind(c) # "none" ~> caller[c].at \in {"done", "dead"}
===============================================================================
