------------------------------ MODULE CallsProofs ------------------------------
(***************************************************************************)
(* Theorems about the systems that MCCalls checks side by side, for any    *)
(* callers, pods and programs: the average and Fibonacci services in Go,   *)
(* the gateway over the greet service, and chapter 4's services and the    *)
(* books servers in C#.  They share nothing, so each part has a            *)
(* specification, an invariant and theorems of its own, and the last lemma *)
(* carries them over to where all of them run.                             *)
(***************************************************************************)
EXTENDS MCCalls, WireProofs, WellFoundedInduction

-------------------------------------------------------------------------------
(***************************************************************************)
(* NumberStreams: what ends a server process, and what clients print.      *)
(***************************************************************************)

StreamsSpec == StreamsInit /\ [][StreamsNext]_streamVars

IsCaller(r) == r = [at |-> r.at, sent |-> r.sent, printed |-> r.printed]

IsStream(r) ==
    r = [at |-> r.at, up |-> r.up, closed |-> r.closed,
         down |-> r.down, sum |-> r.sum, count |-> r.count]

StreamsShape ==
    /\ job \in [Callers -> Job]
    /\ caller = [c \in Callers |-> caller[c]]
    /\ stream = [c \in Callers |-> stream[c]]
    /\ \A c \in Callers : IsCaller(caller[c]) /\ IsStream(stream[c])

Numbers32 == {Encode(AverageRequest, [number |-> ToInt32(n)]) : n \in Int}

\* FindAverage has counted, or has yet to read, every number that was sent; and all of
\* them were sent before the stream was closed.
Counted(c) ==
    Kind(c) = "average" =>
        /\ caller[c].sent \in Nat /\ stream[c].count \in Nat
        /\ stream[c].up \in Seq(Numbers32)
        /\ caller[c].at = "off" =>
             /\ stream[c].at = "none" /\ ~stream[c].closed
             /\ caller[c].sent = 0 /\ stream[c].count = 0 /\ stream[c].up = <<>>
        /\ Running(c) => stream[c].count + Len(stream[c].up) = caller[c].sent
        /\ stream[c].closed =>
             caller[c].sent = Len(job[c].numbers) /\ caller[c].at # "sending"

\* A synchronous call that runs still has the request it was opened with.
Requesting(c) ==
    Kind(c) = "sync" =>
        /\ caller[c].at # "sending"
        /\ Running(c) => stream[c].up =
             <<Encode(FibonacciRequest, [number |-> ToInt32(job[c].number)])>>

StreamsIInv == StreamsShape /\ \A c \in Callers : Counted(c) /\ Requesting(c)

-------------------------------------------------------------------------------

LEMMA StreamsInit_IInv == StreamsInit => StreamsIInv
<1> SUFFICES ASSUME StreamsInit PROVE StreamsIInv
    OBVIOUS
<1>1. StreamsShape
    BY StreamsAssumption DEF StreamsInit, StreamsShape, IsCaller, IsStream
<1>2. ASSUME NEW c \in Callers PROVE Counted(c) /\ Requesting(c)
    <2>1. /\ caller[c].at = "off" /\ caller[c].sent = 0
          /\ stream[c].at = "none" /\ stream[c].count = 0 /\ stream[c].up = <<>>
        BY DEF StreamsInit
    <2>2. stream[c].closed = FALSE
        BY DEF StreamsInit
    <2>3. <<>> \in Seq(Numbers32)
        OBVIOUS
    <2>4. Counted(c)
        BY <2>1, <2>2, <2>3 DEF Counted, Running
    <2>5. Requesting(c)
        BY <2>1 DEF Requesting, Running
    <2> QED BY <2>4, <2>5
<1> QED BY <1>1, <1>2 DEF StreamsIInv

\* A step of one caller, or of the handler of its call, leaves the others alone.
LEMMA Local ==
    ASSUME StreamsIInv, StreamsShape', job' = job, NEW c \in Callers,
           \A d \in Callers \ {c} : caller'[d] = caller[d] /\ stream'[d] = stream[d],
           Counted(c)', Requesting(c)'
    PROVE  StreamsIInv'
    BY DEF StreamsIInv, Counted, Requesting, Kind, Running

\* Neither of the two invariants is about an asynchronous call.
LEMMA Unconcerned ==
    ASSUME StreamsIInv, StreamsShape', job' = job, NEW c \in Callers,
           Kind(c) \notin {"average", "sync"},
           \A d \in Callers \ {c} : caller'[d] = caller[d] /\ stream'[d] = stream[d]
    PROVE  StreamsIInv'
<1>1. Counted(c)' /\ Requesting(c)'
    BY DEF Counted, Requesting, Kind
<1> QED BY <1>1, Local

LEMMA DiesIInv ==
    ASSUME StreamsIInv, NEW s, Dies(s) PROVE StreamsIInv'
<1>2. ASSUME NEW c \in Callers
      PROVE  /\ stream'[c] = stream[c] \/ stream'[c] = [stream[c] EXCEPT !.at = "broken"]
             /\ stream[c].at = "none" => stream'[c] = stream[c]
    BY DEF Dies
<1>3. ASSUME NEW c \in Callers
      PROVE  Counted(c)' /\ Requesting(c)' /\ IsStream(stream'[c])
    <2>1. Counted(c) /\ Requesting(c) /\ job' = job /\ caller' = caller
        BY DEF StreamsIInv, Dies
    <2>2. stream[c] =
              [at |-> stream[c].at, up |-> stream[c].up, closed |-> stream[c].closed,
               down |-> stream[c].down, sum |-> stream[c].sum, count |-> stream[c].count]
        BY DEF StreamsIInv, StreamsShape, IsStream
    <2>3. /\ stream'[c].up = stream[c].up /\ stream'[c].closed = stream[c].closed
          /\ stream'[c].count = stream[c].count
          /\ stream'[c].at = stream[c].at
             \/ (stream'[c].at = "broken" /\ stream[c].at # "none")
        BY <1>2, <2>2
    <2>4. IsStream(stream'[c])
        BY <1>2, <2>2 DEF IsStream
    <2> QED BY <2>1, <2>3, <2>4 DEF Counted, Requesting, Kind, Running
<1>4. StreamsShape'
    BY <1>3 DEF StreamsIInv, StreamsShape, Dies
<1> QED BY <1>3, <1>4 DEF StreamsIInv

LEMMA StreamShape ==
    ASSUME StreamsShape, UNCHANGED <<job, caller>>, NEW c \in Callers,
           stream' = [d \in Callers |-> stream'[d]],
           \A d \in Callers \ {c} : stream'[d] = stream[d],
           IsStream(stream'[c])
    PROVE  StreamsShape'
    BY DEF StreamsShape

\* The handler of a call returns, whatever it sends last.
LEMMA EndedIInv ==
    ASSUME StreamsIInv, NEW c \in Callers, Running(c), NEW down, UNCHANGED <<job, caller>>,
           stream' = [stream EXCEPT ![c].at = "ended", ![c].down = down]
    PROVE  StreamsIInv'
<1>1. /\ stream' = [d \in Callers |-> stream'[d]]
      /\ \A d \in Callers \ {c} : stream'[d] = stream[d]
      /\ stream'[c] = [stream[c] EXCEPT !.at = "ended", !.down = down]
    BY DEF StreamsIInv, StreamsShape
<1>2. stream'[c] =
         [at |-> "ended", up |-> stream[c].up, closed |-> stream[c].closed,
          down |-> down, sum |-> stream[c].sum, count |-> stream[c].count]
    BY <1>1 DEF StreamsIInv, StreamsShape, IsStream
<1>3. Counted(c) /\ Requesting(c)
    BY DEF StreamsIInv
<1>4. Counted(c)'
    BY <1>2, <1>3 DEF Counted, Kind, Running
<1>5. Requesting(c)'
    BY <1>2, <1>3 DEF Requesting, Kind, Running
<1>6. StreamsShape'
    BY <1>1, <1>2, StreamShape DEF StreamsIInv, IsStream
<1> QED BY <1>1, <1>4, <1>5, <1>6, Local

LEMMA HandlerStepIInv ==
    ASSUME StreamsIInv, NEW c \in Callers, HandlerStep(c)
    PROVE  StreamsIInv'
<1>1. CASE Recv(c)
    <2>1. PICK r \in {Decode(AverageRequest, Head(stream[c].up))} :
            stream' = [stream EXCEPT ![c].up = Tail(@), ![c].count = @ + 1,
                                     ![c].sum = @ + r.number]
        BY <1>1 DEF Recv
    <2>2. /\ Kind(c) = "average" /\ Running(c) /\ stream[c].up # <<>>
          /\ UNCHANGED <<job, caller, serving, kills>>
        BY <1>1 DEF Recv
    <2>3. /\ stream' = [d \in Callers |-> stream'[d]]
          /\ \A d \in Callers \ {c} : stream'[d] = stream[d]
          /\ stream'[c] = [stream[c] EXCEPT !.up = Tail(@), !.count = @ + 1,
                                            !.sum = @ + r.number]
        BY <2>1 DEF StreamsIInv, StreamsShape
    <2>4. stream'[c] =
             [at |-> stream[c].at, up |-> Tail(stream[c].up), closed |-> stream[c].closed,
              down |-> stream[c].down, sum |-> stream[c].sum + r.number,
              count |-> stream[c].count + 1]
        BY <2>3 DEF StreamsIInv, StreamsShape, IsStream
    <2>5. /\ Tail(stream[c].up) \in Seq(Numbers32)
          /\ Len(Tail(stream[c].up)) = Len(stream[c].up) - 1
          /\ Len(stream[c].up) \in Nat
        BY <2>2 DEF StreamsIInv, Counted
    <2>6. Counted(c)'
        BY <2>2, <2>4, <2>5 DEF StreamsIInv, Counted, Kind, Running
    <2>7. Requesting(c)'
        BY <2>2 DEF Requesting, Kind
    <2>8. StreamsShape'
        BY <2>2, <2>3, <2>4, StreamShape DEF StreamsIInv, IsStream
    <2> QED BY <2>2, <2>3, <2>6, <2>7, <2>8, Local
<1>2. CASE RecvEOF(c)
    <2>1. CASE stream[c].count = 0
        BY <1>2, <2>1, DiesIInv DEF RecvEOF
    <2>2. CASE stream[c].count # 0
        BY <1>2, <2>2, EndedIInv DEF RecvEOF
    <2> QED BY <2>1, <2>2
<1>3. CASE RecvError(c)
    BY <1>3, DiesIInv DEF RecvError
<1>4. CASE SyncFibonacci(c)
    <2>1. CASE Requested(c) < 0
        BY <1>4, <2>1, DiesIInv DEF SyncFibonacci
    <2>2. CASE ~(Requested(c) < 0)
        BY <1>4, <2>2, EndedIInv DEF SyncFibonacci
    <2> QED BY <2>1, <2>2
<1>5. CASE AsyncFibonacci(c)
    <2>1. /\ Kind(c) = "async"
          /\ UNCHANGED <<job, caller, serving, kills>>
        BY <1>5 DEF AsyncFibonacci
    <2>2. CASE stream[c].count < Requested(c)
        <3> DEFINE down == Append(stream[c].down, Encode(AsyncFibonacciResponse,
                       [sequence |-> stream[c].count,
                        fibonacciNumber |-> ToInt32(fib[stream[c].count])]))
        <3>1. stream' = [stream EXCEPT ![c].count = @ + 1, ![c].down = down]
            BY <1>5, <2>2 DEF AsyncFibonacci
        <3> HIDE DEF down
        <3>2. /\ stream' = [d \in Callers |-> stream'[d]]
              /\ \A d \in Callers \ {c} : stream'[d] = stream[d]
              /\ stream'[c] = [stream[c] EXCEPT !.count = @ + 1, !.down = down]
            BY <3>1 DEF StreamsIInv, StreamsShape
        <3>3. stream'[c] =
                 [at |-> stream[c].at, up |-> stream[c].up, closed |-> stream[c].closed,
                  down |-> down, sum |-> stream[c].sum, count |-> stream[c].count + 1]
            BY <3>2 DEF StreamsIInv, StreamsShape, IsStream
        <3>4. StreamsShape'
            BY <2>1, <3>2, <3>3, StreamShape DEF StreamsIInv, IsStream
        <3> QED BY <2>1, <3>2, <3>4, Unconcerned DEF StreamsIInv
    <2>3. CASE ~(stream[c].count < Requested(c))
        <3>1. stream' = [stream EXCEPT ![c].at = "ended"]
            BY <1>5, <2>3 DEF AsyncFibonacci
        <3>2. /\ stream' = [d \in Callers |-> stream'[d]]
              /\ \A d \in Callers \ {c} : stream'[d] = stream[d]
              /\ stream'[c] = [stream[c] EXCEPT !.at = "ended"]
            BY <3>1 DEF StreamsIInv, StreamsShape
        <3>3. stream'[c] =
                 [at |-> "ended", up |-> stream[c].up, closed |-> stream[c].closed,
                  down |-> stream[c].down, sum |-> stream[c].sum, count |-> stream[c].count]
            BY <3>2 DEF StreamsIInv, StreamsShape, IsStream
        <3>4. StreamsShape'
            BY <2>1, <3>2, <3>3, StreamShape DEF StreamsIInv, IsStream
        <3> QED BY <2>1, <3>2, <3>4, Unconcerned DEF StreamsIInv
    <2> QED BY <2>2, <2>3
<1> QED BY <1>1, <1>2, <1>3, <1>4, <1>5 DEF HandlerStep

\* The caller of a call moves on, and leaves its number of sent numbers alone.
LEMMA CallerMoves ==
    ASSUME StreamsIInv, NEW c \in Callers, NEW at, NEW printed, UNCHANGED <<job, stream>>,
           caller[c].at # "off", at \notin {"off", "sending"},
           caller' = [d \in Callers |-> caller'[d]],
           \A d \in Callers \ {c} : caller'[d] = caller[d],
           caller'[c] = [at |-> at, sent |-> caller[c].sent, printed |-> printed]
    PROVE  StreamsIInv'
<1>1. Counted(c) /\ Requesting(c)
    BY DEF StreamsIInv
<1>2. Counted(c)'
    BY <1>1 DEF Counted, Kind, Running
<1>3. Requesting(c)'
    BY <1>1 DEF Requesting, Kind, Running, ToInt32
<1>4. StreamsShape'
    BY DEF StreamsIInv, StreamsShape, IsCaller
<1> QED BY <1>2, <1>3, <1>4, Local

LEMMA CallerLeaves ==
    ASSUME StreamsIInv, NEW c \in Callers, UNCHANGED <<job, stream>>, caller[c].at # "off",
           SetCaller(c, "dead") \/ SetCaller(c, "done")
    PROVE  StreamsIInv'
<1>1. ASSUME NEW at \in {"dead", "done"}, caller' = [caller EXCEPT ![c].at = at]
      PROVE  StreamsIInv'
    <2>1. /\ caller' = [d \in Callers |-> caller'[d]]
          /\ \A d \in Callers \ {c} : caller'[d] = caller[d]
          /\ caller'[c] = [caller[c] EXCEPT !.at = at]
        BY <1>1 DEF StreamsIInv, StreamsShape
    <2>2. caller'[c] = [at |-> at, sent |-> caller[c].sent, printed |-> caller[c].printed]
        BY <2>1 DEF StreamsIInv, StreamsShape, IsCaller
    <2> QED BY <1>1, <2>1, <2>2, CallerMoves
<1> QED BY <1>1 DEF SetCaller

LEMMA CallerPrints ==
    ASSUME StreamsIInv, NEW c \in Callers, NEW printed, UNCHANGED <<job, stream>>,
           caller[c].at # "off",
           caller' = [caller EXCEPT ![c].at = "done", ![c].printed = printed]
    PROVE  StreamsIInv'
<1>1. /\ caller' = [d \in Callers |-> caller'[d]]
      /\ \A d \in Callers \ {c} : caller'[d] = caller[d]
      /\ caller'[c] = [caller[c] EXCEPT !.at = "done", !.printed = printed]
    BY DEF StreamsIInv, StreamsShape
<1>2. caller'[c] = [at |-> "done", sent |-> caller[c].sent, printed |-> printed]
    BY <1>1 DEF StreamsIInv, StreamsShape, IsCaller
<1> QED BY <1>1, <1>2, CallerMoves

LEMMA JobTypes ==
    ASSUME StreamsShape, NEW c \in Callers
    PROVE  /\ Kind(c) = "average" => job[c].numbers \in Seq(Int)
           /\ Kind(c) = "sync" => job[c].number \in Int
BY DEF StreamsShape, Job, Kind

LEMMA OpenIInv ==
    ASSUME StreamsIInv, NEW c \in Callers, Open(c) PROVE StreamsIInv'
<1>1. caller[c].at = "off" /\ UNCHANGED <<job, serving, kills>>
    BY DEF Open
<1>2. Counted(c) /\ Requesting(c) /\ StreamsShape
    BY DEF StreamsIInv
<1>3. ASSUME NEW at, SetCaller(c, at)
      PROVE  /\ caller' = [d \in Callers |-> caller'[d]]
             /\ \A d \in Callers \ {c} : caller'[d] = caller[d]
             /\ caller'[c] = [at |-> at, sent |-> caller[c].sent,
                              printed |-> caller[c].printed]
    <2>1. /\ caller' = [d \in Callers |-> caller'[d]]
          /\ \A d \in Callers \ {c} : caller'[d] = caller[d]
          /\ caller'[c] = [caller[c] EXCEPT !.at = at]
        BY <1>2, <1>3 DEF SetCaller, StreamsShape
    <2> QED BY <2>1, <1>2 DEF StreamsShape, IsCaller
<1>4. CASE ServerFor(c) \notin serving
    <2>1. SetCaller(c, "dead") /\ UNCHANGED stream
        BY <1>4 DEF Open
    <2>2. caller'[c] = [at |-> "dead", sent |-> caller[c].sent,
                       printed |-> caller[c].printed]
        BY <2>1, <1>3
    <2>3. Counted(c)'
        BY <1>1, <1>2, <2>1, <2>2 DEF Counted, Kind, Running
    <2>4. Requesting(c)'
        BY <1>1, <1>2, <2>1, <2>2 DEF Requesting, Kind, Running
    <2>5. StreamsShape'
        BY <1>1, <1>2, <1>3, <2>1, <2>2 DEF StreamsShape, IsCaller
    <2> QED BY <1>1, <1>3, <2>1, <2>3, <2>4, <2>5, Local
<1>5. CASE ServerFor(c) \in serving /\ Kind(c) = "average"
    <2>1. SetCaller(c, "sending") /\ stream' = [stream EXCEPT ![c].at = "running"]
        BY <1>5 DEF Open
    <2>2. caller'[c] = [at |-> "sending", sent |-> caller[c].sent,
                       printed |-> caller[c].printed]
        BY <2>1, <1>3
    <2>3. /\ stream' = [d \in Callers |-> stream'[d]]
          /\ \A d \in Callers \ {c} : stream'[d] = stream[d]
          /\ stream'[c] = [stream[c] EXCEPT !.at = "running"]
        BY <2>1, <1>2 DEF StreamsShape
    <2>4. stream'[c] =
             [at |-> "running", up |-> stream[c].up, closed |-> stream[c].closed,
              down |-> stream[c].down, sum |-> stream[c].sum, count |-> stream[c].count]
        BY <2>3, <1>2 DEF StreamsShape, IsStream
    <2>5. caller[c].sent = 0 /\ stream[c].count = 0 /\ stream[c].up = <<>>
          /\ ~stream[c].closed /\ <<>> \in Seq(Numbers32) /\ Len(<<>>) = 0
        BY <1>1, <1>2, <1>5 DEF Counted
    <2>6. Counted(c)'
        BY <2>2, <2>4, <2>5 DEF Counted, Kind, Running
    <2>7. Requesting(c)'
        BY <1>1, <1>5 DEF Requesting, Kind
    <2>8. StreamsShape'
        BY <1>1, <1>2, <1>3, <2>1, <2>2, <2>3, <2>4 DEF StreamsShape, IsCaller, IsStream
    <2> QED BY <1>1, <1>3, <2>1, <2>3, <2>6, <2>7, <2>8, Local
<1>6. CASE ServerFor(c) \in serving /\ Kind(c) # "average"
    <2> DEFINE up == <<Encode(FibonacciRequest, [number |-> ToInt32(job[c].number)])>>
    <2>1. /\ SetCaller(c, "reading")
          /\ stream' = [stream EXCEPT ![c].at = "running", ![c].closed = TRUE,
                                      ![c].up = up]
        BY <1>6 DEF Open
    <2> HIDE DEF up
    <2>2. caller'[c] = [at |-> "reading", sent |-> caller[c].sent,
                       printed |-> caller[c].printed]
        BY <2>1, <1>3
    <2>3. /\ stream' = [d \in Callers |-> stream'[d]]
          /\ \A d \in Callers \ {c} : stream'[d] = stream[d]
          /\ stream'[c] = [stream[c] EXCEPT !.at = "running", !.closed = TRUE, !.up = up]
        BY <2>1, <1>2 DEF StreamsShape
    <2>4. stream'[c] =
             [at |-> "running", up |-> up, closed |-> TRUE,
              down |-> stream[c].down, sum |-> stream[c].sum, count |-> stream[c].count]
        BY <2>3, <1>2 DEF StreamsShape, IsStream
    <2>5. Counted(c)'
        BY <1>1, <1>6 DEF Counted, Kind
    <2>6. up' = up
        BY <1>1 DEF up, ToInt32
    <2>7. Requesting(c)'
        <3>1. caller'[c].at # "sending" /\ stream'[c].up = up'
            BY <2>2, <2>4, <2>6
        <3> QED BY <3>1 DEF Requesting, up
    <2>8. StreamsShape'
        BY <1>1, <1>2, <1>3, <2>1, <2>2, <2>3, <2>4 DEF StreamsShape, IsCaller, IsStream
    <2> QED BY <1>1, <1>3, <2>1, <2>3, <2>5, <2>7, <2>8, Local
<1> QED BY <1>4, <1>5, <1>6

LEMMA SendNumberIInv ==
    ASSUME StreamsIInv, NEW c \in Callers, SendNumber(c) PROVE StreamsIInv'
<1>1. caller[c].at = "sending" /\ caller[c].sent < Len(job[c].numbers) /\ UNCHANGED job
    BY DEF SendNumber
<1>2. Counted(c) /\ Requesting(c) /\ StreamsShape
    BY DEF StreamsIInv
<1>3. /\ caller' = [d \in Callers |-> caller'[d]]
      /\ \A d \in Callers \ {c} : caller'[d] = caller[d]
      /\ caller'[c] = [caller[c] EXCEPT !.sent = @ + 1]
    BY <1>2 DEF SendNumber, StreamsShape
<1>4. caller'[c] = [at |-> "sending", sent |-> caller[c].sent + 1,
                   printed |-> caller[c].printed]
    BY <1>1, <1>2, <1>3 DEF StreamsShape, IsCaller
<1>5. PICK n \in {ToInt32(job[c].numbers[caller[c].sent + 1])} :
        stream' = IF Running(c)
                  THEN [stream EXCEPT ![c].up =
                          Append(@, Encode(AverageRequest, [number |-> n]))]
                  ELSE stream
    BY DEF SendNumber
<1> DEFINE e == Encode(AverageRequest, [number |-> n])
<1>6. CASE Running(c)
    <2>1. stream' = [stream EXCEPT ![c].up = Append(@, e)]
        BY <1>5, <1>6
    <2>2. /\ stream' = [d \in Callers |-> stream'[d]]
          /\ \A d \in Callers \ {c} : stream'[d] = stream[d]
          /\ stream'[c] = [stream[c] EXCEPT !.up = Append(@, e)]
        BY <2>1, <1>2 DEF StreamsShape
    <2>3. stream'[c] =
             [at |-> stream[c].at, up |-> Append(stream[c].up, e),
              closed |-> stream[c].closed, down |-> stream[c].down,
              sum |-> stream[c].sum, count |-> stream[c].count]
        BY <2>2, <1>2 DEF StreamsShape, IsStream
    <2>4. Kind(c) = "average" => e \in Numbers32
        <3> SUFFICES ASSUME Kind(c) = "average" PROVE e \in Numbers32
            OBVIOUS
        <3>1. job[c].numbers \in Seq(Int) /\ caller[c].sent \in Nat
            BY <1>2, JobTypes DEF Counted
        <3>2. job[c].numbers[caller[c].sent + 1] \in Int
            BY <1>1, <3>1
        <3> QED BY <1>5, <3>2 DEF Numbers32
    <2> HIDE DEF e
    <2>5. Kind(c) = "average" =>
             /\ Append(stream[c].up, e) \in Seq(Numbers32)
             /\ Len(Append(stream[c].up, e)) = Len(stream[c].up) + 1
             /\ Len(stream[c].up) \in Nat
        BY <2>4, <1>2 DEF Counted
    <2>6. Counted(c)'
        <3> SUFFICES ASSUME Kind(c) = "average" PROVE Counted(c)'
            BY <1>1 DEF Counted, Kind
        <3>1. /\ caller[c].sent \in Nat /\ stream[c].count \in Nat
              /\ stream[c].count + Len(stream[c].up) = caller[c].sent
              /\ ~stream[c].closed
            BY <1>1, <1>2, <1>6 DEF Counted
        <3>2. /\ caller'[c].sent = caller[c].sent + 1 /\ caller'[c].at = "sending"
              /\ stream'[c].count = stream[c].count /\ ~stream'[c].closed
              /\ stream'[c].up = Append(stream[c].up, e)
            BY <1>4, <2>3, <3>1
        <3>3. /\ caller'[c].sent \in Nat
              /\ stream'[c].count + Len(stream'[c].up) = caller'[c].sent
            <4>1. \A a, b, m \in Nat : a + b = m => a + (b + 1) = m + 1 /\ m + 1 \in Nat
                OBVIOUS
            <4>2. Len(stream'[c].up) = Len(stream[c].up) + 1 /\ Len(stream[c].up) \in Nat
                BY <2>5, <3>2
            <4>3. stream'[c].count + Len(stream'[c].up) =
                      stream[c].count + (Len(stream[c].up) + 1)
                BY <3>2, <4>2, Zenon
            <4>4. /\ stream[c].count + (Len(stream[c].up) + 1) = caller[c].sent + 1
                  /\ caller[c].sent + 1 \in Nat
                BY <3>1, <4>1, <4>2, Zenon
            <4> QED BY <3>2, <4>3, <4>4, Zenon
        <3>4. stream'[c].count \in Nat /\ stream'[c].up \in Seq(Numbers32)
            BY <2>5, <3>1, <3>2
        <3> QED BY <3>2, <3>3, <3>4 DEF Counted
    <2>7. Requesting(c)'
        BY <1>1, <1>2 DEF Requesting, Kind
    <2>8. StreamsShape'
        BY <1>1, <1>2, <1>3, <1>4, <2>2, <2>3 DEF StreamsShape, IsCaller, IsStream
    <2> QED BY <1>1, <1>3, <2>2, <2>6, <2>7, <2>8, Local
<1>7. CASE ~Running(c)
    <2>1. stream' = stream
        BY <1>5, <1>7
    <2>2. Counted(c)'
        BY <1>1, <1>2, <1>4, <1>7, <2>1 DEF Counted, Kind, Running
    <2>3. Requesting(c)'
        BY <1>1, <1>2 DEF Requesting, Kind
    <2>4. StreamsShape'
        BY <1>1, <1>2, <1>3, <1>4, <2>1 DEF StreamsShape, IsCaller
    <2> QED BY <1>1, <1>3, <2>1, <2>2, <2>3, <2>4, Local
<1> QED BY <1>6, <1>7

LEMMA CloseAndRecvIInv ==
    ASSUME StreamsIInv, NEW c \in Callers, CloseAndRecv(c) PROVE StreamsIInv'
<1>1. /\ caller[c].at = "sending" /\ caller[c].sent = Len(job[c].numbers)
      /\ UNCHANGED job
    BY DEF CloseAndRecv
<1>2. Counted(c) /\ Requesting(c) /\ StreamsShape
    BY DEF StreamsIInv
<1>3. /\ caller' = [d \in Callers |-> caller'[d]]
      /\ \A d \in Callers \ {c} : caller'[d] = caller[d]
      /\ caller'[c] = [caller[c] EXCEPT !.at = "reading"]
      /\ stream' = [d \in Callers |-> stream'[d]]
      /\ \A d \in Callers \ {c} : stream'[d] = stream[d]
      /\ stream'[c] = [stream[c] EXCEPT !.closed = TRUE]
    BY <1>2 DEF CloseAndRecv, SetCaller, StreamsShape
<1>4. caller'[c] = [at |-> "reading", sent |-> caller[c].sent,
                   printed |-> caller[c].printed]
    BY <1>2, <1>3 DEF StreamsShape, IsCaller
<1>5. stream'[c] =
         [at |-> stream[c].at, up |-> stream[c].up, closed |-> TRUE,
          down |-> stream[c].down, sum |-> stream[c].sum, count |-> stream[c].count]
    BY <1>2, <1>3 DEF StreamsShape, IsStream
<1>6. Counted(c)'
    BY <1>1, <1>2, <1>4, <1>5 DEF Counted, Kind, Running
<1>7. Requesting(c)'
    BY <1>1, <1>2 DEF Requesting, Kind
<1>8. StreamsShape'
    BY <1>1, <1>2, <1>3, <1>4, <1>5 DEF StreamsShape, IsCaller, IsStream
<1> QED BY <1>1, <1>3, <1>6, <1>7, <1>8, Local

LEMMA ReadAsyncIInv ==
    ASSUME StreamsIInv, NEW c \in Callers, ReadAsync(c) PROVE StreamsIInv'
<1>1. Kind(c) = "async" /\ UNCHANGED job /\ StreamsShape
    BY DEF ReadAsync, StreamsIInv
<1>2. /\ caller' = [d \in Callers |-> caller'[d]]
      /\ \A d \in Callers \ {c} : caller'[d] = caller[d]
      /\ \E p : caller'[c] = [caller[c] EXCEPT !.printed = p]
      /\ stream' = [d \in Callers |-> stream'[d]]
      /\ \A d \in Callers \ {c} : stream'[d] = stream[d]
      /\ stream'[c] = [stream[c] EXCEPT !.down = Tail(@)]
    BY <1>1 DEF ReadAsync, StreamsShape
<1>3. IsCaller(caller'[c]) /\ IsStream(stream'[c])
    BY <1>1, <1>2 DEF StreamsShape, IsCaller, IsStream
<1>4. StreamsShape'
    BY <1>1, <1>2, <1>3 DEF StreamsShape
<1> QED BY <1>1, <1>2, <1>4, Unconcerned

LEMMA StreamsNext_IInv == StreamsIInv /\ [StreamsNext]_streamVars => StreamsIInv'
<1> SUFFICES ASSUME StreamsIInv, [StreamsNext]_streamVars PROVE StreamsIInv'
    OBVIOUS
<1>1. ASSUME NEW c \in Callers, CallerStep(c) PROVE StreamsIInv'
    <2>1. CASE Open(c)
        BY <2>1, OpenIInv
    <2>2. CASE SendNumber(c)
        BY <2>2, SendNumberIInv
    <2>3. CASE CloseAndRecv(c)
        BY <2>3, CloseAndRecvIInv
    <2>4. CASE ReadAverage(c)
        <3>1. PICK r : /\ caller' = [caller EXCEPT ![c].at = "done",
                                                   ![c].printed = <<r.average>>]
                       /\ caller[c].at = "reading" /\ UNCHANGED <<job, stream>>
            BY <2>4 DEF ReadAverage, Reads
        <3> DEFINE printed == <<r.average>>
        <3>2. caller' = [caller EXCEPT ![c].at = "done", ![c].printed = printed]
            BY <3>1
        <3> HIDE DEF printed
        <3> QED BY <3>1, <3>2, CallerPrints
    <2>5. CASE ReadSync(c)
        <3>1. PICK r : /\ IF r.fibonacciNumbers = <<>> THEN SetCaller(c, "dead")
                          ELSE caller' = [caller EXCEPT ![c].at = "done", ![c].printed =
                                  [k \in 1 .. Len(r.fibonacciNumbers) |->
                                     [sequence |-> k - 1,
                                      fibonacciNumber |-> r.fibonacciNumbers[k]]]]
                       /\ caller[c].at = "reading" /\ UNCHANGED <<job, stream>>
            BY <2>5 DEF ReadSync, Reads
        <3> DEFINE printed == [k \in 1 .. Len(r.fibonacciNumbers) |->
                                  [sequence |-> k - 1,
                                   fibonacciNumber |-> r.fibonacciNumbers[k]]]
        <3>2. \/ SetCaller(c, "dead")
              \/ caller' = [caller EXCEPT ![c].at = "done", ![c].printed = printed]
            BY <3>1
        <3> HIDE DEF printed
        <3>3. CASE SetCaller(c, "dead")
            BY <3>1, <3>3, CallerLeaves
        <3>4. CASE caller' = [caller EXCEPT ![c].at = "done", ![c].printed = printed]
            BY <3>1, <3>4, CallerPrints
        <3> QED BY <3>2, <3>3, <3>4
    <2>6. CASE ReadAsync(c)
        BY <2>6, ReadAsyncIInv
    <2>7. CASE ReadEOF(c)
        BY <2>7, CallerLeaves DEF ReadEOF
    <2>8. CASE ReadError(c)
        BY <2>8, CallerLeaves DEF ReadError
    <2> QED BY <1>1, <2>1, <2>2, <2>3, <2>4, <2>5, <2>6, <2>7, <2>8 DEF CallerStep
<1>2. ASSUME NEW c \in Callers, HandlerStep(c) PROVE StreamsIInv'
    BY <1>2, HandlerStepIInv
<1>3. ASSUME NEW c \in Callers, KillCaller(c) PROVE StreamsIInv'
    BY <1>3, CallerLeaves DEF KillCaller
<1>4. CASE UNCHANGED streamVars
    BY <1>4 DEF streamVars, StreamsIInv, StreamsShape, Counted, Requesting, Kind, Running, ToInt32
<1> QED BY <1>1, <1>2, <1>3, <1>4 DEF StreamsNext

-------------------------------------------------------------------------------

\* What SyncFibonacci reads is the number the client was given, as an int32.
LEMMA RequestedIsNumber ==
    ASSUME StreamsIInv, NEW c \in Callers, Running(c), Kind(c) = "sync"
    PROVE  Requested(c) = ToInt32(job[c].number)
<1> DEFINE m == [number |-> ToInt32(job[c].number)]
<1>1. Head(stream[c].up) = Encode(FibonacciRequest, m)
    BY DEF StreamsIInv, Requesting
<1>2. WellFormed(FibonacciRequest, m)
    BY DEF WellFormed, Distinct, Of, Fits, FibonacciRequest, Int32, Field
<1>3. Decode(FibonacciRequest, Encode(FibonacciRequest, m)) = m
    BY <1>2, RoundTrip
<1> QED BY <1>1, <1>3 DEF Requested

\* Every step that ends a server is the step of a handler that its caller brought
\* there.
LEMMA StepHasCause ==
    ASSUME StreamsIInv, [StreamsNext]_streamVars, NEW s \in serving \ serving'
    PROVE  \E c \in Callers :
              /\ ServerFor(c) = s /\ Running(c)
              /\ \/ Kind(c) = "average" /\ (caller[c].at = "dead" \/ job[c].numbers = <<>>)
                 \/ Kind(c) = "sync" /\ ToInt32(job[c].number) < 0
<1>1. PICK c \in Callers : CallerStep(c) \/ HandlerStep(c) \/ KillCaller(c)
    BY DEF StreamsNext, streamVars
<1>2. ~CallerStep(c) /\ ~KillCaller(c)
    BY DEF CallerStep, KillCaller, Open, SendNumber, CloseAndRecv, ReadAverage, ReadSync,
           ReadAsync, ReadEOF, ReadError
<1>3. CASE RecvEOF(c)
    <2>1. /\ Running(c) /\ Kind(c) = "average" /\ stream[c].up = <<>> /\ stream[c].closed
          /\ stream[c].count = 0
        BY <1>3 DEF RecvEOF
    <2>2. Dies("average")
        BY <1>3, <2>1 DEF RecvEOF
    <2>3. s = "average" /\ ServerFor(c) = "average"
        BY <2>1, <2>2 DEF Dies, ServerFor
    <2>4. Counted(c) /\ job[c].numbers \in Seq(Int)
        BY <2>1, JobTypes DEF StreamsIInv
    <2>5. Len(job[c].numbers) = 0
        BY <2>1, <2>4 DEF Counted
    <2>6. job[c].numbers = <<>>
        BY <2>4, <2>5, EmptySeq
    <2> QED BY <2>1, <2>3, <2>6
<1>4. CASE RecvError(c)
    BY <1>4 DEF RecvError, Dies, ServerFor
<1>5. CASE SyncFibonacci(c)
    <2>1. Running(c) /\ Kind(c) = "sync" /\ Requested(c) < 0 /\ Dies("fibonacci")
        BY <1>5 DEF SyncFibonacci
    <2>2. s = "fibonacci" /\ ServerFor(c) = "fibonacci"
        BY <2>1 DEF Dies, ServerFor
    <2> QED BY <2>1, <2>2, RequestedIsNumber
<1>6. ~Recv(c) /\ ~AsyncFibonacci(c)
    BY DEF Recv, AsyncFibonacci
<1> QED BY <1>1, <1>2, <1>3, <1>4, <1>5, <1>6 DEF HandlerStep

\* A server process of chapter-4 ends only by the call of one caller, and by one that
\* closes its stream without a number, disappears, or asks for a negative count.
THEOREM OnlyCallersKillServers == StreamsSpec => ServerDeathHasCause
<1>1. StreamsIInv /\ [StreamsNext]_streamVars =>
        [\A s \in serving \ serving' :
            \E c \in Callers :
              /\ ServerFor(c) = s /\ Running(c)
              /\ \/ Kind(c) = "average" /\ (caller[c].at = "dead" \/ job[c].numbers = <<>>)
                 \/ Kind(c) = "sync" /\ ToInt32(job[c].number) < 0]_streamVars
    BY StepHasCause
<1> QED BY StreamsInit_IInv, StreamsNext_IInv, <1>1, PTL DEF StreamsSpec, ServerDeathHasCause

-------------------------------------------------------------------------------
(* NumberStreams: the sum of the first numbers of a sequence.                  *)

LEMMA LessNumber == ASSUME NEW x \in Nat, NEW y \in Nat, x < y PROVE <<x, y>> \in OpToRel(<, Nat)
BY DEF OpToRel

LEMMA LeastNumber ==
    ASSUME NEW T \in SUBSET Nat, T # {}
    PROVE  \E x \in T : \A y \in T : x <= y
<1>1. PICK x \in T : \A y \in T : ~(<<y, x>> \in OpToRel(<, Nat))
    BY NatLessThanWellFounded, WFMin
<1>2. \A y \in T : ~(y < x)
    BY <1>1, LessNumber
<1> QED BY <1>2

\* Induction over the natural numbers, for a set instead of a predicate.
LEMMA SetInduction ==
    ASSUME NEW T \in SUBSET Nat, 0 \in T, \A n \in T : n + 1 \in T
    PROVE  T = Nat
<1> SUFFICES ASSUME Nat \ T # {} PROVE FALSE
    OBVIOUS
<1>1. PICK x \in Nat \ T : \A y \in Nat \ T : x <= y
    BY LeastNumber
<1>2. x # 0 /\ x - 1 \in Nat /\ x - 1 \notin Nat \ T
    BY <1>1
<1>3. x - 1 \in T /\ (x - 1) + 1 = x
    BY <1>2
<1> QED BY <1>1, <1>3

LEMMA Int32Range ==
    /\ \A n \in Int : ToInt32(n) \in -Int32Bound .. Int32Bound - 1
    /\ \A n \in -Int32Bound .. Int32Bound - 1 : ToInt32(n) = n
    /\ Int32Bound \in Int
<1>1. ASSUME NEW n \in Int PROVE ToInt32(n) \in -Int32Bound .. Int32Bound - 1
    BY Int32Assumption DEF ToInt32
<1>2. ASSUME NEW n \in -Int32Bound .. Int32Bound - 1 PROVE ToInt32(n) = n
    BY Int32Assumption DEF ToInt32
<1> QED BY <1>1, <1>2, Int32Assumption

\* The equation that defines Sums has a solution.
LEMMA SumsEquation ==
    ASSUME NEW s \in Seq(Int)
    PROVE  Sums(s) = [k \in 0 .. Len(s) |->
                        IF k = 0 THEN 0 ELSE Sums(s)[k - 1] + ToInt32(s[k])]
<1> DEFINE Solves(g, n) == g = [k \in 0 .. n |-> IF k = 0 THEN 0 ELSE g[k - 1] + ToInt32(s[k])]
           T == {n \in Nat : \E g : Solves(g, n)}
<1>1. 0 \in T
    <2>1. Solves([k \in 0 .. 0 |-> 0], 0)
        OBVIOUS
    <2> QED BY <2>1
<1>2. ASSUME NEW n \in T PROVE n + 1 \in T
    <2>1. PICK g : Solves(g, n)
        BY <1>2
    <2> DEFINE h == [k \in 0 .. n + 1 |-> IF k <= n THEN g[k] ELSE g[n] + ToInt32(s[n + 1])]
    <2>2. ASSUME NEW k \in 0 .. n + 1
          PROVE  h[k] = IF k = 0 THEN 0 ELSE h[k - 1] + ToInt32(s[k])
        <3>1. CASE k <= n
            BY <2>1, <3>1
        <3>2. CASE k = n + 1
            BY <3>2
        <3> QED BY <3>1, <3>2
    <2>3. h = [k \in 0 .. n + 1 |-> h[k]]
        OBVIOUS
    <2> HIDE DEF h
    <2>4. Solves(h, n + 1)
        BY <2>2, <2>3
    <2> QED BY <1>2, <2>4
<1>3. T = Nat
    <2> HIDE DEF T
    <2> QED BY <1>1, <1>2, SetInduction DEF T
<1>4. \E g : Solves(g, Len(s))
    BY <1>3
<1> QED BY <1>4 DEF Sums

LEMMA SumsValues ==
    ASSUME NEW s \in Seq(Int)
    PROVE  /\ Sums(s)[0] = 0
           /\ \A k \in 1 .. Len(s) : Sums(s)[k] = Sums(s)[k - 1] + ToInt32(s[k])
<1>1. ASSUME NEW k \in 0 .. Len(s)
      PROVE  Sums(s)[k] = IF k = 0 THEN 0 ELSE Sums(s)[k - 1] + ToInt32(s[k])
    BY SumsEquation
<1> QED BY <1>1

\* A sum of that many int32 numbers.
LEMMA SumsBounds ==
    ASSUME NEW s \in Seq(Int), NEW n \in 0 .. Len(s)
    PROVE  /\ Sums(s)[n] \in Int
           /\ -(n * Int32Bound) <= Sums(s)[n] /\ Sums(s)[n] <= n * (Int32Bound - 1)
<1> DEFINE T == {k \in Nat : k <= Len(s) =>
                    /\ Sums(s)[k] \in Int
                    /\ -(k * Int32Bound) <= Sums(s)[k]
                    /\ Sums(s)[k] <= k * (Int32Bound - 1)}
<1>1. 0 \in T
    BY SumsValues, Int32Range
<1>2. ASSUME NEW k \in T PROVE k + 1 \in T
    <2> SUFFICES ASSUME k + 1 <= Len(s) PROVE k + 1 \in T
        OBVIOUS
    <2>1. /\ k \in Nat /\ Sums(s)[k] \in Int
          /\ -(k * Int32Bound) <= Sums(s)[k] /\ Sums(s)[k] <= k * (Int32Bound - 1)
        BY <1>2
    <2>2. ToInt32(s[k + 1]) \in -Int32Bound .. Int32Bound - 1
        <3>1. s[k + 1] \in Int
            BY <2>1
        <3> QED BY <3>1, Int32Range
    <2>3. Sums(s)[k + 1] = Sums(s)[k] + ToInt32(s[k + 1])
        BY SumsValues
    <2>4. /\ (k + 1) * Int32Bound = k * Int32Bound + Int32Bound
          /\ (k + 1) * (Int32Bound - 1) = k * (Int32Bound - 1) + (Int32Bound - 1)
          /\ k * Int32Bound \in Int /\ k * (Int32Bound - 1) \in Int
        BY <2>1, Int32Range
    <2>5. /\ Sums(s)[k + 1] \in Int
          /\ -((k + 1) * Int32Bound) <= Sums(s)[k + 1]
          /\ Sums(s)[k + 1] <= (k + 1) * (Int32Bound - 1)
        <3> DEFINE low == k * Int32Bound  high == k * (Int32Bound - 1)
                   a == Sums(s)[k]  b == ToInt32(s[k + 1])
        <3> HIDE DEF low, high, a, b
        <3>1. /\ a \in Int /\ b \in Int /\ low \in Int /\ high \in Int /\ Int32Bound \in Int
              /\ -low <= a /\ a <= high /\ -Int32Bound <= b /\ b <= Int32Bound - 1
            BY <2>1, <2>2, <2>4, Int32Range DEF low, high, a, b
        <3>2. /\ a + b \in Int /\ -(low + Int32Bound) <= a + b
              /\ a + b <= high + (Int32Bound - 1)
            BY <3>1
        <3> QED BY <2>3, <2>4, <3>2 DEF low, high, a, b
    <2> QED BY <2>1, <2>5
<1>3. T = Nat
    <2> HIDE DEF T
    <2> QED BY <1>1, <1>2, SetInduction DEF T
<1> QED BY <1>3

\* The average of int32 numbers is one.
LEMMA QuotientFits ==
    ASSUME NEW a \in Int, NEW n \in Nat \ {0},
           -(n * Int32Bound) <= a, a <= n * (Int32Bound - 1)
    PROVE  ToInt32(Quotient(a, n)) = Quotient(a, n)
<1>1. CASE a >= 0
    <2>1. a \div n \in Nat /\ a \div n <= Int32Bound - 1
        BY <1>1, Int32Assumption
    <2> QED BY <1>1, <2>1, Int32Range, Int32Assumption DEF Quotient
<1>2. CASE ~(a >= 0)
    <2>1. -a \in Nat /\ -a <= n * Int32Bound
        BY <1>2, Int32Assumption
    <2>2. (-a) \div n \in Nat /\ (-a) \div n <= Int32Bound
        BY <2>1, Int32Assumption
    <2>3. -((-a) \div n) \in -Int32Bound .. Int32Bound - 1
        BY <2>2, Int32Assumption
    <2> QED BY <1>2, <2>3, Int32Range DEF Quotient
<1> QED BY <1>1, <1>2

-------------------------------------------------------------------------------
(* NumberStreams: what clients print is what they were promised. AnswersOk, on *)
(* top of StreamsIInv, is inductive.                                           *)

LEMMA NumbersArrive ==
    ASSUME NEW a, NEW b
    PROVE  /\ Decode(AverageRequest, Encode(AverageRequest, [number |-> a])).number = a
           /\ Decode(AverageResponse, Encode(AverageResponse, [average |-> a])).average = a
           /\ Decode(FibonacciRequest, Encode(FibonacciRequest, [number |-> a])).number = a
           /\ Decode(SyncFibonacciResponse, Encode(SyncFibonacciResponse,
                  [timeTaken |-> a, fibonacciNumbers |-> b])).fibonacciNumbers = b
           /\ Decode(AsyncFibonacciResponse, Encode(AsyncFibonacciResponse,
                  [sequence |-> a, fibonacciNumber |-> b]))
                  = [sequence |-> a, fibonacciNumber |-> b]
<1> USE DEF WellFormed, Distinct, Of, Fits, Int32, String, Int32s, Field
<1>1. WellFormed(AverageRequest, [number |-> a])
    BY DEF AverageRequest
<1>2. WellFormed(AverageResponse, [average |-> a])
    BY DEF AverageResponse
<1>3. WellFormed(FibonacciRequest, [number |-> a])
    BY DEF FibonacciRequest
<1>4. WellFormed(SyncFibonacciResponse, [timeTaken |-> a, fibonacciNumbers |-> b])
    BY DEF SyncFibonacciResponse
<1>5. WellFormed(AsyncFibonacciResponse, [sequence |-> a, fibonacciNumber |-> b])
    BY DEF AsyncFibonacciResponse
<1> HIDE DEF WellFormed, Distinct, Of, Fits, Int32, String, Int32s, Field
<1> QED BY <1>1, <1>2, <1>3, <1>4, <1>5, RoundTrip


Request(c) == ToInt32(job[c].number)

Item(k) == [sequence |-> k, fibonacciNumber |-> ToInt32(fib[k])]

ItemSent(k) == Encode(AsyncFibonacciResponse, Item(k))

WholeSent(n) ==
    Encode(SyncFibonacciResponse, [timeTaken |-> "seconds", fibonacciNumbers |-> Fibonacci(n)])

RequestSent(n) == Encode(FibonacciRequest, [number |-> n])

\* A call of a Fibonacci method from its opening to its end.
Asked(c) ==
    /\ caller[c].at # "sending"
    /\ stream[c].at = "none" =>
         /\ stream[c].up = <<>> /\ stream[c].down = <<>> /\ stream[c].count = 0
         /\ caller[c].printed = <<>>
    /\ caller[c].at = "off" => stream[c].at = "none"
    /\ caller[c].at = "reading" => stream[c].at # "none"
    /\ Running(c) => stream[c].up = <<RequestSent(Request(c))>>

\* The whole sequence at once.
Whole(c) ==
    /\ caller[c].at # "done" => caller[c].printed = <<>>
    /\ caller[c].at = "done" =>
         caller[c].printed = [k \in 1 .. Request(c) |-> Item(k - 1)] /\ Request(c) > 0
    /\ Running(c) => stream[c].down = <<>>
    /\ stream[c].down # <<>> =>
         Request(c) >= 0 /\ stream[c].down = <<WholeSent(Request(c))>>

\* One number at a time: what is printed goes on with what is under way.
OneByOne(c) ==
    /\ stream[c].count \in Nat
    /\ stream[c].count > 0 => stream[c].count <= Request(c)
    /\ caller[c].printed \in Seq({Item(k) : k \in Nat})
    /\ stream[c].down \in Seq({ItemSent(k) : k \in Nat})
    /\ Len(caller[c].printed) + Len(stream[c].down) = stream[c].count
    /\ \A k \in 1 .. Len(caller[c].printed) : caller[c].printed[k] = Item(k - 1)
    /\ \A k \in 1 .. Len(stream[c].down) :
         stream[c].down[k] = ItemSent(Len(caller[c].printed) + k - 1)
    /\ stream[c].at = "ended" => stream[c].count >= Request(c)
    /\ caller[c].at = "done" => stream[c].count >= Request(c) /\ stream[c].down = <<>>

FibonacciOk(c) ==
    /\ Kind(c) \in {"sync", "async"} => Asked(c)
    /\ Kind(c) = "sync" => Whole(c)
    /\ Kind(c) = "async" => OneByOne(c)

NumberSent(n) == Encode(AverageRequest, [number |-> ToInt32(n)])

AverageSent(n) == Encode(AverageResponse, [average |-> n])

\* The sum of the first numbers that a caller was given.
SumOfFirst(c, n) == Sums(job[c].numbers)[n]

\* FindAverage has summed what it has counted, and has the rest still to read.
AverageOk(c) ==
    Kind(c) = "average" =>
        /\ stream[c].count \in Nat
        /\ stream[c].count + Len(stream[c].up) <= Len(job[c].numbers)
        /\ stream[c].sum = SumOfFirst(c, stream[c].count)
        /\ \A i \in 1 .. Len(stream[c].up) :
             stream[c].up[i] = NumberSent(job[c].numbers[stream[c].count + i])
        /\ stream[c].at \in {"none", "running"} => stream[c].down = <<>>
        /\ stream[c].down # <<>> =>
             /\ stream[c].count = Len(job[c].numbers) /\ stream[c].count > 0
             /\ stream[c].down = <<AverageSent(Average(c))>>
        /\ caller[c].at = "done" =>
             /\ Len(job[c].numbers) > 0
             /\ caller[c].printed = <<ToInt32(Quotient(
                    SumOfFirst(c, Len(job[c].numbers)), Len(job[c].numbers)))>>

AnswersOk == \A c \in Callers : FibonacciOk(c) /\ AverageOk(c)

-------------------------------------------------------------------------------


\* What each EXCEPT of the actions does to the entry of one caller.
LEMMA CallerExcept ==
    ASSUME StreamsShape, NEW c \in Callers, NEW x, NEW at, NEW n, NEW p,
           \/ x = [caller EXCEPT ![c].at = at] /\ n = caller[c].sent /\ p = caller[c].printed
           \/ x = [caller EXCEPT ![c].sent = n] /\ at = caller[c].at /\ p = caller[c].printed
           \/ x = [caller EXCEPT ![c].printed = p] /\ at = caller[c].at /\ n = caller[c].sent
           \/ x = [caller EXCEPT ![c].at = at, ![c].printed = p] /\ n = caller[c].sent
    PROVE  /\ \A d \in Callers \ {c} : x[d] = caller[d]
           /\ x[c].at = at /\ x[c].sent = n /\ x[c].printed = p
<1>1. /\ \A d \in Callers \ {c} : x[d] = caller[d]
      /\ \/ x[c] = [caller[c] EXCEPT !.at = at] /\ n = caller[c].sent /\ p = caller[c].printed
         \/ x[c] = [caller[c] EXCEPT !.sent = n] /\ at = caller[c].at /\ p = caller[c].printed
         \/ x[c] = [caller[c] EXCEPT !.printed = p] /\ at = caller[c].at /\ n = caller[c].sent
         \/ x[c] = [caller[c] EXCEPT !.at = at, !.printed = p] /\ n = caller[c].sent
    BY DEF StreamsShape
<1>2. x[c] = [at |-> at, sent |-> n, printed |-> p]
    BY <1>1 DEF StreamsShape, IsCaller
<1> QED BY <1>1, <1>2


LEMMA OthersOk ==
    ASSUME NEW d, FibonacciOk(d), AverageOk(d), UNCHANGED <<job, caller[d], stream[d]>>
    PROVE  FibonacciOk(d)' /\ AverageOk(d)'
<1>1. AverageOk(d)'
    BY DEF AverageOk, Kind, SumOfFirst, NumberSent, AverageSent, Average, ToInt32, Quotient, Sums
<1>2. FibonacciOk(d)'
    <2>1. Kind(d)' = Kind(d) /\ Request(d)' = Request(d)
        BY DEF Kind, Request, ToInt32
    <2>2. Asked(d) => Asked(d)'
        BY <2>1 DEF Asked, Running, RequestSent
    <2>3. Whole(d) => Whole(d)'
        BY <2>1 DEF Whole, Running
    <2>4. OneByOne(d) => OneByOne(d)'
        BY <2>1 DEF OneByOne
    <2> QED BY <2>1, <2>2, <2>3, <2>4 DEF FibonacciOk
<1> QED BY <1>1, <1>2

\* A step of one caller, or of the handler of its call.
LEMMA OneMoves ==
    ASSUME AnswersOk, job' = job, NEW c \in Callers, FibonacciOk(c)', AverageOk(c)',
           \A d \in Callers \ {c} : caller'[d] = caller[d] /\ stream'[d] = stream[d]
    PROVE  AnswersOk'
    BY OthersOk DEF AnswersOk

LEMMA JobNumbers ==
    ASSUME StreamsShape, NEW c \in Callers
    PROVE  /\ Kind(c) \in {"average", "sync", "async", "none"}
           /\ Kind(c) = "average" => job[c].numbers \in Seq(Int)
           /\ Kind(c) \in {"sync", "async"} => Request(c) \in Int
<1>1. /\ Kind(c) \in {"average", "sync", "async", "none"}
      /\ Kind(c) = "average" => job[c].numbers \in Seq(Int)
      /\ Kind(c) \in {"sync", "async"} => job[c].number \in Int
    BY DEF StreamsShape, Job, Kind
<1>2. Kind(c) \in {"sync", "async"} => Request(c) \in Int
    BY <1>1, Int32Range DEF Request
<1> QED BY <1>1, <1>2

LEMMA StreamsInit_AnswersOk == StreamsInit => AnswersOk
<1> SUFFICES ASSUME StreamsInit, NEW c \in Callers PROVE FibonacciOk(c) /\ AverageOk(c)
    BY DEF AnswersOk
<1>1. /\ caller[c].at = "off" /\ caller[c].sent = 0 /\ caller[c].printed = <<>>
      /\ stream[c].at = "none" /\ stream[c].count = 0 /\ stream[c].sum = 0
      /\ stream[c].up = <<>> /\ stream[c].down = <<>>
    BY DEF StreamsInit
<1>2. AverageOk(c)
    <2> SUFFICES ASSUME Kind(c) = "average" PROVE AverageOk(c)
        BY DEF AverageOk
    <2>1. job[c].numbers \in Seq(Int)
        BY JobNumbers, StreamsInit_IInv DEF StreamsIInv
    <2>2. Len(job[c].numbers) \in Nat /\ SumOfFirst(c, 0) = 0
        BY <2>1, SumsValues DEF SumOfFirst
    <2> QED BY <1>1, <2>2 DEF AverageOk
<1>3. FibonacciOk(c)
    <2>1. <<>> \in Seq({Item(k) : k \in Nat}) /\ <<>> \in Seq({ItemSent(k) : k \in Nat})
        OBVIOUS
    <2>2. Asked(c)
        BY <1>1 DEF Asked, Running
    <2>3. Whole(c)
        BY <1>1 DEF Whole, Running
    <2>4. OneByOne(c)
        BY <1>1, <2>1 DEF OneByOne
    <2> QED BY <2>2, <2>3, <2>4 DEF FibonacciOk
<1> QED BY <1>2, <1>3


LEMMA CallBreaks ==
    ASSUME NEW c, FibonacciOk(c), AverageOk(c), UNCHANGED <<job, caller[c]>>,
           stream[c].at # "none", stream'[c].at = "broken", stream'[c].up = stream[c].up,
           stream'[c].down = stream[c].down, stream'[c].sum = stream[c].sum,
           stream'[c].count = stream[c].count
    PROVE  FibonacciOk(c)' /\ AverageOk(c)'
<1>1. Kind(c)' = Kind(c) /\ Request(c)' = Request(c)
    BY DEF Kind, Request, ToInt32
<1>2. AverageOk(c)'
    BY <1>1 DEF AverageOk, SumOfFirst, Average
<1>3. Asked(c) => Asked(c)'
    BY <1>1 DEF Asked, Running
<1>4. Whole(c) => Whole(c)'
    BY <1>1 DEF Whole, Running
<1>5. OneByOne(c) => OneByOne(c)'
    BY <1>1 DEF OneByOne
<1> QED BY <1>1, <1>2, <1>3, <1>4, <1>5 DEF FibonacciOk

\* A server process ends: no caller and no count moves.
LEMMA DiesAnswersOk ==
    ASSUME StreamsIInv, AnswersOk, NEW s, Dies(s) PROVE AnswersOk'
<1> SUFFICES ASSUME NEW c \in Callers PROVE FibonacciOk(c)' /\ AverageOk(c)'
    BY DEF AnswersOk
<1>1. FibonacciOk(c) /\ AverageOk(c) /\ UNCHANGED <<job, caller[c]>>
    BY DEF AnswersOk, Dies
<1>2. stream'[c] = stream[c] \/ (/\ stream'[c] = [stream[c] EXCEPT !.at = "broken"]
                                /\ stream[c].at # "none")
    BY DEF Dies
<1>3. CASE stream'[c] = stream[c]
    BY <1>1, <1>3, OthersOk
<1>4. CASE stream'[c] = [stream[c] EXCEPT !.at = "broken"] /\ stream[c].at # "none"
    <2>1. /\ stream'[c].at = "broken" /\ stream'[c].up = stream[c].up
          /\ stream'[c].down = stream[c].down /\ stream'[c].sum = stream[c].sum
          /\ stream'[c].count = stream[c].count
        BY <1>4 DEF StreamsIInv, StreamsShape, IsStream
    <2> QED BY <1>1, <1>4, <2>1, CallBreaks
<1> QED BY <1>2, <1>3, <1>4

LEMMA RecvAnswersOk ==
    ASSUME StreamsIInv, AnswersOk, NEW c \in Callers, Recv(c) PROVE AnswersOk'
<1>1. /\ Running(c) /\ Kind(c) = "average" /\ stream[c].up # <<>>
      /\ UNCHANGED <<job, caller, serving, kills>> /\ FibonacciOk(c) /\ AverageOk(c)
    BY DEF Recv, AnswersOk
<1>2. /\ job[c].numbers \in Seq(Int) /\ stream[c].up \in Seq(Numbers32)
      /\ stream[c].count \in Nat
    BY <1>1, JobNumbers DEF StreamsIInv, Counted
<1> DEFINE up == stream[c].up  k == stream[c].count + 1  n == job[c].numbers[k]
<1>3. /\ Len(up) \in Nat /\ Len(up) > 0 /\ k \in 1 .. Len(job[c].numbers) /\ n \in Int
    <2>1. Len(up) \in Nat /\ Len(up) > 0
        BY <1>1, <1>2, EmptySeq
    <2>2. k \in 1 .. Len(job[c].numbers)
        BY <1>1, <1>2, <2>1 DEF AverageOk
    <2> QED BY <1>2, <2>1, <2>2
<1>4. Head(up) = NumberSent(n)
    <2>1. 1 \in 1 .. Len(up)
        BY <1>3
    <2>2. up[1] = NumberSent(n)
        BY <1>1, <2>1 DEF AverageOk
    <2> QED BY <2>2
<1>5. Decode(AverageRequest, Head(up)).number = ToInt32(n)
    BY <1>4, NumbersArrive DEF NumberSent
<1>6. stream' = [stream EXCEPT ![c].up = Tail(up), ![c].count = k,
                               ![c].sum = stream[c].sum + ToInt32(n)]
    <2>1. PICK r \in {Decode(AverageRequest, Head(stream[c].up))} :
            stream' = [stream EXCEPT ![c].up = Tail(@), ![c].count = @ + 1,
                                     ![c].sum = @ + r.number]
        BY DEF Recv
    <2>2. r.number = ToInt32(n)
        BY <1>5, <2>1
    <2> QED BY <2>1, <2>2
<1> HIDE DEF k, n
<1>7. /\ \A d \in Callers \ {c} : stream'[d] = stream[d]
      /\ stream'[c].at = stream[c].at /\ stream'[c].up = Tail(up)
      /\ stream'[c].down = stream[c].down
      /\ stream'[c].sum = stream[c].sum + ToInt32(n) /\ stream'[c].count = k
    <2>1. /\ \A d \in Callers \ {c} : stream'[d] = stream[d]
          /\ stream'[c] = [stream[c] EXCEPT !.up = Tail(up), !.count = k,
                                            !.sum = stream[c].sum + ToInt32(n)]
        BY <1>6 DEF StreamsIInv, StreamsShape
    <2> QED BY <2>1 DEF StreamsIInv, StreamsShape, IsStream
<1>8. SumOfFirst(c, k) = stream[c].sum + ToInt32(n)
    <2>1. SumOfFirst(c, k) = SumOfFirst(c, k - 1) + ToInt32(n)
        BY <1>2, <1>3, SumsValues DEF SumOfFirst, n
    <2> QED BY <1>1, <1>2, <2>1 DEF AverageOk, k
<1>9. AverageOk(c)'
    <2>1. /\ Tail(up) \in Seq(Numbers32) /\ Len(Tail(up)) = Len(up) - 1
          /\ \A i \in 1 .. Len(Tail(up)) : Tail(up)[i] = up[i + 1]
        BY <1>1, <1>2
    <2>2. k + Len(Tail(up)) <= Len(job[c].numbers) /\ k \in Nat
        BY <1>1, <1>2, <1>3, <2>1 DEF AverageOk, k
    <2>3. ASSUME NEW i \in 1 .. Len(Tail(up))
          PROVE  Tail(up)[i] = NumberSent(job[c].numbers[k + i])
        <3>1. i \in Nat /\ i + 1 \in 1 .. Len(up)
            BY <1>3, <2>1
        <3> HIDE DEF up
        <3>2. stream[c].count + (i + 1) = k + i
            BY <1>2, <3>1 DEF k
        <3>3. up[i + 1] = NumberSent(job[c].numbers[stream[c].count + (i + 1)])
            BY <1>1, <3>1 DEF AverageOk, up
        <3> QED BY <2>1, <3>2, <3>3
    <2>4. stream[c].down = <<>>
        BY <1>1 DEF AverageOk, Running
    <2>5. /\ stream'[c].count \in Nat
          /\ stream'[c].count + Len(stream'[c].up) <= Len(job'[c].numbers)
        BY <1>1, <1>7, <2>2
    <2>6. stream'[c].sum = SumOfFirst(c, k)
        BY <1>7, <1>8
    <2>7. ASSUME NEW i \in 1 .. Len(stream'[c].up)
          PROVE  stream'[c].up[i] = NumberSent(job[c].numbers[stream'[c].count + i])
        BY <1>7, <2>3
    <2>8. SumOfFirst(c, stream[c].count)' = SumOfFirst(c, k)
        BY <1>1, <1>7 DEF SumOfFirst
    <2>9. /\ stream'[c].down = <<>>
          /\ caller'[c].at = "done" =>
               /\ Len(job[c].numbers) > 0
               /\ caller'[c].printed = <<ToInt32(Quotient(
                      SumOfFirst(c, Len(job[c].numbers)), Len(job[c].numbers)))>>
        BY <1>1, <1>7, <2>4 DEF AverageOk
    <2> QED BY <1>1, <2>5, <2>6, <2>7, <2>8, <2>9 DEF AverageOk, Kind, SumOfFirst, NumberSent,
                 ToInt32, Quotient
<1>10. FibonacciOk(c)'
    BY <1>1 DEF FibonacciOk, Kind
<1> QED BY <1>1, <1>7, <1>9, <1>10, OneMoves

LEMMA RecvEOFAnswersOk ==
    ASSUME StreamsIInv, AnswersOk, NEW c \in Callers, RecvEOF(c) PROVE AnswersOk'
<1>1. /\ Running(c) /\ Kind(c) = "average" /\ stream[c].up = <<>> /\ stream[c].closed
      /\ FibonacciOk(c) /\ AverageOk(c)
    BY DEF RecvEOF, AnswersOk
<1>2. CASE stream[c].count = 0
    BY <1>2, DiesAnswersOk DEF RecvEOF
<1>3. CASE stream[c].count # 0
    <2> DEFINE down == <<AverageSent(Average(c))>>
    <2>1. /\ stream' = [stream EXCEPT ![c].at = "ended", ![c].down = down]
          /\ UNCHANGED <<job, caller, serving, kills>>
        BY <1>3 DEF RecvEOF, AverageSent
    <2>2. /\ \A d \in Callers \ {c} : stream'[d] = stream[d]
          /\ stream'[c].at = "ended" /\ stream'[c].up = stream[c].up
          /\ stream'[c].down = down /\ stream'[c].sum = stream[c].sum
          /\ stream'[c].count = stream[c].count
        <3> HIDE DEF down
        <3>1. /\ \A d \in Callers \ {c} : stream'[d] = stream[d]
              /\ stream'[c] = [stream[c] EXCEPT !.at = "ended", !.down = down]
            BY <2>1 DEF StreamsIInv, StreamsShape
        <3> QED BY <3>1 DEF StreamsIInv, StreamsShape, IsStream
    <2>3. stream[c].count = Len(job[c].numbers) /\ stream[c].count > 0
        BY <1>1, <1>3 DEF StreamsIInv, Counted
    <2>4. Average(c)' = Average(c)
        BY <2>2 DEF Average, Quotient, ToInt32
    <2>5. AverageOk(c)'
        BY <1>1, <2>1, <2>2, <2>3, <2>4 DEF AverageOk, Kind, SumOfFirst, AverageSent
    <2>6. FibonacciOk(c)'
        BY <1>1, <2>1 DEF FibonacciOk, Kind
    <2> QED BY <2>1, <2>2, <2>5, <2>6, OneMoves
<1> QED BY <1>2, <1>3

\* The state of a caller changes, and neither its call nor what it has printed.
LEMMA CallerTurns ==
    ASSUME StreamsIInv, NEW c \in Callers, NEW at, SetCaller(c, at)
    PROVE  /\ \A d \in Callers \ {c} : caller'[d] = caller[d]
           /\ caller'[c].at = at /\ caller'[c].sent = caller[c].sent
           /\ caller'[c].printed = caller[c].printed
<1>1. /\ \A d \in Callers \ {c} : caller'[d] = caller[d]
      /\ caller'[c] = [caller[c] EXCEPT !.at = at]
    BY DEF SetCaller, StreamsIInv, StreamsShape
<1> QED BY <1>1 DEF StreamsIInv, StreamsShape, IsCaller

LEMMA CallerFails ==
    ASSUME StreamsIInv, AnswersOk, NEW c \in Callers, UNCHANGED <<job, stream>>,
           caller[c].at # "done", SetCaller(c, "dead")
    PROVE  AnswersOk'
<1>1. FibonacciOk(c) /\ AverageOk(c)
    BY DEF AnswersOk
<1>2. /\ \A d \in Callers \ {c} : caller'[d] = caller[d]
      /\ caller'[c].at = "dead" /\ caller'[c].printed = caller[c].printed
    BY CallerTurns
<1>3. Kind(c)' = Kind(c) /\ Request(c)' = Request(c)
    BY DEF Kind, Request, ToInt32
<1>4. AverageOk(c)'
    BY <1>1, <1>2, <1>3 DEF AverageOk, SumOfFirst, Average
<1>5. Asked(c) => Asked(c)'
    BY <1>2, <1>3 DEF Asked, Running
<1>6. Whole(c) => Whole(c)'
    BY <1>2, <1>3 DEF Whole, Running
<1>7. OneByOne(c) => OneByOne(c)'
    BY <1>2, <1>3 DEF OneByOne
<1>8. FibonacciOk(c)'
    BY <1>1, <1>3, <1>5, <1>6, <1>7 DEF FibonacciOk
<1> QED BY <1>2, <1>4, <1>8, OneMoves

LEMMA OpenAnswersOk ==
    ASSUME StreamsIInv, AnswersOk, NEW c \in Callers, Open(c) PROVE AnswersOk'
<1>1. /\ caller[c].at = "off" /\ UNCHANGED <<job, serving, kills>>
      /\ FibonacciOk(c) /\ AverageOk(c) /\ Counted(c) /\ Kind(c) # "none"
    BY DEF Open, AnswersOk, StreamsIInv
<1>2. Kind(c)' = Kind(c) /\ Request(c)' = Request(c)
    BY <1>1 DEF Kind, Request, ToInt32
<1>3. CASE ServerFor(c) \notin serving
    BY <1>1, <1>3, CallerFails DEF Open
<1>4. CASE ServerFor(c) \in serving /\ Kind(c) = "average"
    <2>1. SetCaller(c, "sending") /\ stream' = [stream EXCEPT ![c].at = "running"]
        BY <1>4 DEF Open
    <2>2. /\ \A d \in Callers \ {c} : caller'[d] = caller[d]
          /\ caller'[c].at = "sending"
        BY <2>1, CallerTurns
    <2>3. /\ \A d \in Callers \ {c} : stream'[d] = stream[d]
          /\ stream'[c] = [stream[c] EXCEPT !.at = "running"]
        BY <2>1 DEF StreamsIInv, StreamsShape
    <2>4. /\ stream'[c].at = "running" /\ stream'[c].up = stream[c].up
          /\ stream'[c].down = stream[c].down /\ stream'[c].sum = stream[c].sum
          /\ stream'[c].count = stream[c].count
        BY <2>3 DEF StreamsIInv, StreamsShape, IsStream
    <2>5. stream[c].down = <<>>
        BY <1>1, <1>4 DEF AverageOk, Counted
    <2>6. AverageOk(c)'
        BY <1>1, <1>2, <2>2, <2>4, <2>5 DEF AverageOk, SumOfFirst
    <2>7. FibonacciOk(c)'
        BY <1>2, <1>4 DEF FibonacciOk
    <2> QED BY <1>1, <2>2, <2>3, <2>6, <2>7, OneMoves
<1>5. CASE ServerFor(c) \in serving /\ Kind(c) # "average"
    <2> DEFINE up == <<RequestSent(Request(c))>>
    <2>1. /\ SetCaller(c, "reading")
          /\ stream' = [stream EXCEPT ![c].at = "running", ![c].closed = TRUE, ![c].up = up]
        BY <1>5 DEF Open, RequestSent, Request
    <2> HIDE DEF up
    <2>2. /\ \A d \in Callers \ {c} : caller'[d] = caller[d]
          /\ caller'[c].at = "reading" /\ caller'[c].printed = caller[c].printed
        BY <2>1, CallerTurns
    <2>3. /\ \A d \in Callers \ {c} : stream'[d] = stream[d]
          /\ stream'[c] = [stream[c] EXCEPT !.at = "running", !.closed = TRUE, !.up = up]
        BY <2>1 DEF StreamsIInv, StreamsShape
    <2>4. /\ stream'[c].at = "running" /\ stream'[c].up = up
          /\ stream'[c].down = stream[c].down /\ stream'[c].count = stream[c].count
        BY <2>3 DEF StreamsIInv, StreamsShape, IsStream
    <2>5. Kind(c) \in {"sync", "async"}
        BY <1>1, <1>5, JobNumbers DEF StreamsIInv
    <2>6. /\ stream[c].down = <<>> /\ stream[c].count = 0
          /\ caller[c].printed = <<>>
        BY <1>1, <2>5 DEF FibonacciOk, Asked
    <2>7. Asked(c)'
        BY <1>2, <2>2, <2>4 DEF Asked, Running, up, RequestSent
    <2>8. Whole(c)'
        BY <2>2, <2>4, <2>6 DEF Whole, Running
    <2>9. Kind(c) = "async" => OneByOne(c)'
        BY <1>1, <1>2, <2>2, <2>4, <2>6 DEF OneByOne, FibonacciOk
    <2>10. FibonacciOk(c)'
        BY <1>2, <2>7, <2>8, <2>9 DEF FibonacciOk
    <2>11. AverageOk(c)'
        BY <1>2, <1>5 DEF AverageOk
    <2> QED BY <1>1, <2>2, <2>3, <2>10, <2>11, OneMoves
<1> QED BY <1>3, <1>4, <1>5

LEMMA SendNumberAnswersOk ==
    ASSUME StreamsIInv, AnswersOk, NEW c \in Callers, SendNumber(c) PROVE AnswersOk'
<1>1. /\ caller[c].at = "sending" /\ caller[c].sent < Len(job[c].numbers)
      /\ UNCHANGED <<job, serving, kills>>
      /\ FibonacciOk(c) /\ AverageOk(c) /\ Counted(c)
    BY DEF SendNumber, AnswersOk, StreamsIInv
<1>2. Kind(c)' = Kind(c) /\ Kind(c) \notin {"sync", "async"}
    BY <1>1 DEF Kind, FibonacciOk, Asked
<1>3. /\ \A d \in Callers \ {c} : caller'[d] = caller[d]
      /\ caller'[c].at = "sending" /\ caller'[c].printed = caller[c].printed
    <2>1. /\ \A d \in Callers \ {c} : caller'[d] = caller[d]
          /\ caller'[c] = [caller[c] EXCEPT !.sent = @ + 1]
        BY DEF SendNumber, StreamsIInv, StreamsShape
    <2> QED BY <1>1, <2>1 DEF StreamsIInv, StreamsShape, IsCaller
<1> DEFINE e == NumberSent(job[c].numbers[caller[c].sent + 1])
<1>4. stream' = IF Running(c) THEN [stream EXCEPT ![c].up = Append(@, e)] ELSE stream
    BY DEF SendNumber, NumberSent
<1>5. FibonacciOk(c)'
    BY <1>2 DEF FibonacciOk
<1>6. CASE ~Running(c)
    <2>1. AverageOk(c)'
        BY <1>1, <1>2, <1>3, <1>4, <1>6 DEF AverageOk, SumOfFirst, Average
    <2> QED BY <1>1, <1>3, <1>4, <1>5, <1>6, <2>1, OneMoves
<1>7. CASE Running(c)
    <2> HIDE DEF e
    <2>1. /\ \A d \in Callers \ {c} : stream'[d] = stream[d]
          /\ stream'[c] = [stream[c] EXCEPT !.up = Append(@, e)]
        BY <1>4, <1>7 DEF StreamsIInv, StreamsShape
    <2>2. /\ stream'[c].at = stream[c].at /\ stream'[c].up = Append(stream[c].up, e)
          /\ stream'[c].down = stream[c].down /\ stream'[c].sum = stream[c].sum
          /\ stream'[c].count = stream[c].count
        BY <2>1 DEF StreamsIInv, StreamsShape, IsStream
    <2>3. AverageOk(c)'
        <3> SUFFICES ASSUME Kind(c) = "average" PROVE AverageOk(c)'
            BY <1>2 DEF AverageOk
        <3> DEFINE up == stream[c].up
        <3>1. /\ up \in Seq(Numbers32) /\ stream[c].count \in Nat /\ caller[c].sent \in Nat
              /\ stream[c].count + Len(up) = caller[c].sent
              /\ job[c].numbers \in Seq(Int)
            BY <1>1, <1>7, JobNumbers DEF Counted, StreamsIInv
        <3>2. /\ Len(up) \in Nat /\ Len(Append(up, e)) = Len(up) + 1
              /\ \A i \in 1 .. Len(up) : Append(up, e)[i] = up[i]
              /\ Append(up, e)[Len(up) + 1] = e
            <4> HIDE DEF up
            <4> QED BY <3>1
        <3> HIDE DEF up
        <3>a. \A a, b, m, n \in Nat : a + b = m /\ m < n => a + (b + 1) <= n
            OBVIOUS
        <3>b. Len(job[c].numbers) \in Nat
            BY <3>1
        <3>3. stream[c].count + Len(Append(up, e)) <= Len(job[c].numbers)
            BY <1>1, <3>1, <3>2, <3>a, <3>b, Zenon
        <3>4. ASSUME NEW i \in 1 .. Len(Append(up, e))
              PROVE  Append(up, e)[i] = NumberSent(job[c].numbers[stream[c].count + i])
            <4>1. CASE i \in 1 .. Len(up)
                BY <1>1, <3>2, <4>1 DEF AverageOk, up
            <4>2. CASE i = Len(up) + 1
                <5>1. \A a, b, m \in Nat : a + b = m => a + (b + 1) = m + 1
                    OBVIOUS
                <5>2. stream[c].count + i = caller[c].sent + 1
                    BY <3>1, <3>2, <4>2, <5>1, Zenon
                <5> QED BY <3>2, <4>2, <5>2 DEF e
            <4> QED BY <3>2, <4>1, <4>2
        <3>5. /\ stream'[c].count + Len(stream'[c].up) <= Len(job[c].numbers)
              /\ \A i \in 1 .. Len(stream'[c].up) :
                   stream'[c].up[i] = NumberSent(job[c].numbers[stream'[c].count + i])
            BY <2>2, <3>3, <3>4 DEF up
        <3>6. (\A i \in 1 .. Len(stream[c].up) : stream[c].up[i] =
                   NumberSent(job[c].numbers[stream[c].count + i]))'
            BY <1>1, <3>5 DEF NumberSent, ToInt32
        <3> QED BY <1>1, <1>2, <1>3, <1>7, <2>2, <3>5, <3>6 DEF AverageOk, SumOfFirst, Running
    <2> QED BY <1>1, <1>3, <1>5, <2>1, <2>3, OneMoves
<1> QED BY <1>6, <1>7

LEMMA CloseAndRecvAnswersOk ==
    ASSUME StreamsIInv, AnswersOk, NEW c \in Callers, CloseAndRecv(c) PROVE AnswersOk'
<1>1. /\ caller[c].at = "sending" /\ UNCHANGED <<job, serving, kills>>
      /\ SetCaller(c, "reading") /\ stream' = [stream EXCEPT ![c].closed = TRUE]
      /\ FibonacciOk(c) /\ AverageOk(c)
    BY DEF CloseAndRecv, AnswersOk
<1>2. Kind(c)' = Kind(c) /\ Kind(c) \notin {"sync", "async"}
    BY <1>1 DEF Kind, FibonacciOk, Asked
<1>3. /\ \A d \in Callers \ {c} : caller'[d] = caller[d]
      /\ caller'[c].at = "reading"
    BY <1>1, CallerTurns
<1>4. /\ \A d \in Callers \ {c} : stream'[d] = stream[d]
      /\ stream'[c] = [stream[c] EXCEPT !.closed = TRUE]
    BY <1>1 DEF StreamsIInv, StreamsShape
<1>5. /\ stream'[c].at = stream[c].at /\ stream'[c].up = stream[c].up
      /\ stream'[c].down = stream[c].down /\ stream'[c].sum = stream[c].sum
      /\ stream'[c].count = stream[c].count
    BY <1>4 DEF StreamsIInv, StreamsShape, IsStream
<1>6. AverageOk(c)'
    BY <1>1, <1>2, <1>3, <1>5 DEF AverageOk, SumOfFirst, Average
<1>7. FibonacciOk(c)'
    BY <1>2 DEF FibonacciOk
<1> QED BY <1>1, <1>3, <1>4, <1>6, <1>7, OneMoves

LEMMA ReadAverageAnswersOk ==
    ASSUME StreamsIInv, AnswersOk, NEW c \in Callers, ReadAverage(c) PROVE AnswersOk'
<1>1. /\ stream[c].down # <<>> /\ Kind(c) = "average" /\ UNCHANGED <<job, stream>>
      /\ FibonacciOk(c) /\ AverageOk(c)
    BY DEF ReadAverage, Reads, AnswersOk
<1>2. /\ stream[c].count = Len(job[c].numbers) /\ stream[c].count > 0
      /\ stream[c].down = <<AverageSent(Average(c))>>
    BY <1>1 DEF AverageOk
<1>3. Decode(AverageResponse, Head(stream[c].down)).average = Average(c)
    <2>1. Head(stream[c].down) = AverageSent(Average(c))
        BY <1>2
    <2> QED BY <2>1, NumbersArrive DEF AverageSent
<1> DEFINE printed == <<Average(c)>>
<1>4. caller' = [caller EXCEPT ![c].at = "done", ![c].printed = printed]
    BY <1>3 DEF ReadAverage
<1>5. printed = <<ToInt32(Quotient(SumOfFirst(c, Len(job[c].numbers)), Len(job[c].numbers)))>>
    BY <1>1, <1>2 DEF AverageOk, Average
<1> HIDE DEF printed
<1>6. /\ \A d \in Callers \ {c} : caller'[d] = caller[d]
      /\ caller'[c] = [caller[c] EXCEPT !.at = "done", !.printed = printed]
    BY <1>4 DEF StreamsIInv, StreamsShape
<1>7. caller'[c].at = "done" /\ caller'[c].printed = printed
    BY <1>6 DEF StreamsIInv, StreamsShape, IsCaller
<1>8. Kind(c)' = Kind(c)
    BY <1>1 DEF Kind
<1>9. caller'[c].printed =
        <<ToInt32(Quotient(SumOfFirst(c, Len(job[c].numbers)), Len(job[c].numbers)))>>
    BY <1>5, <1>7
<1>10. AverageOk(c)'
    BY <1>1, <1>2, <1>7, <1>8, <1>9 DEF AverageOk, SumOfFirst, Average
<1>11. FibonacciOk(c)'
    BY <1>1, <1>8 DEF FibonacciOk
<1> QED BY <1>1, <1>6, <1>10, <1>11, OneMoves

\* What the handlers of the Fibonacci methods read.
LEMMA RequestedIsRequest ==
    ASSUME NEW c, Running(c), Kind(c) \in {"sync", "async"}, FibonacciOk(c)
    PROVE  Requested(c) = Request(c)
<1>1. Head(stream[c].up) = RequestSent(Request(c))
    BY DEF FibonacciOk, Asked
<1> QED BY <1>1, NumbersArrive DEF Requested, RequestSent

LEMMA SyncFibonacciAnswersOk ==
    ASSUME StreamsIInv, AnswersOk, NEW c \in Callers, SyncFibonacci(c) PROVE AnswersOk'
<1>1. Running(c) /\ Kind(c) = "sync" /\ FibonacciOk(c) /\ AverageOk(c)
    BY DEF SyncFibonacci, AnswersOk
<1>2. Requested(c) = Request(c) /\ Request(c) \in Int
    BY <1>1, RequestedIsRequest, JobNumbers DEF StreamsIInv
<1>3. CASE Requested(c) < 0
    BY <1>3, DiesAnswersOk DEF SyncFibonacci
<1>4. CASE ~(Requested(c) < 0)
    <2> DEFINE down == <<WholeSent(Request(c))>>
    <2>1. /\ stream' = [stream EXCEPT ![c].at = "ended", ![c].down = down]
          /\ UNCHANGED <<job, caller, serving, kills>>
        BY <1>2, <1>4 DEF SyncFibonacci, WholeSent
    <2>2. /\ \A d \in Callers \ {c} : stream'[d] = stream[d]
          /\ stream'[c].at = "ended" /\ stream'[c].up = stream[c].up
          /\ stream'[c].down = down /\ stream'[c].count = stream[c].count
        <3> HIDE DEF down
        <3>1. /\ \A d \in Callers \ {c} : stream'[d] = stream[d]
              /\ stream'[c] = [stream[c] EXCEPT !.at = "ended", !.down = down]
            BY <2>1 DEF StreamsIInv, StreamsShape
        <3> QED BY <3>1 DEF StreamsIInv, StreamsShape, IsStream
    <2>3. Kind(c)' = Kind(c) /\ Request(c)' = Request(c)
        BY <2>1 DEF Kind, Request, ToInt32
    <2>4. Asked(c)'
        BY <1>1, <2>1, <2>2, <2>3 DEF FibonacciOk, Asked, Running
    <2>5. Whole(c)'
        <3>1. Request(c) >= 0 /\ stream'[c].down = <<WholeSent(Request(c)')>>
            BY <1>2, <1>4, <2>2, <2>3
        <3>2. /\ caller'[c].at # "done" => caller'[c].printed = <<>>
              /\ caller'[c].at = "done" => /\ Request(c) > 0
                    /\ caller'[c].printed = [k \in 1 .. Request(c) |-> Item(k - 1)]
            BY <1>1, <2>1 DEF FibonacciOk, Whole
        <3>3. ~(stream'[c].at = "running")
            BY <2>2
        <3> QED BY <2>3, <3>1, <3>2, <3>3 DEF Whole, Running
    <2>6. FibonacciOk(c)' /\ AverageOk(c)'
        BY <1>1, <2>3, <2>4, <2>5 DEF FibonacciOk, AverageOk
    <2> QED BY <2>1, <2>2, <2>6, OneMoves
<1> QED BY <1>3, <1>4

LEMMA AsyncFibonacciAnswersOk ==
    ASSUME StreamsIInv, AnswersOk, NEW c \in Callers, AsyncFibonacci(c) PROVE AnswersOk'
<1>1. /\ Running(c) /\ Kind(c) = "async" /\ FibonacciOk(c) /\ AverageOk(c)
      /\ UNCHANGED <<job, caller, serving, kills>>
    BY DEF AsyncFibonacci, AnswersOk
<1>2. Requested(c) = Request(c) /\ Request(c) \in Int
    BY <1>1, RequestedIsRequest, JobNumbers DEF StreamsIInv
<1>3. Kind(c)' = Kind(c) /\ Request(c)' = Request(c)
    BY <1>1 DEF Kind, Request, ToInt32
<1>4. Asked(c) /\ OneByOne(c) /\ stream[c].count \in Nat
    BY <1>1 DEF FibonacciOk, OneByOne
<1>5. CASE stream[c].count < Requested(c)
    <2> DEFINE n == stream[c].count
               e == ItemSent(n)
               down == Append(stream[c].down, e)
    <2>1. stream' = [stream EXCEPT ![c].count = n + 1, ![c].down = down]
        BY <1>5 DEF AsyncFibonacci, ItemSent, Item
    <2>2. /\ \A d \in Callers \ {c} : stream'[d] = stream[d]
          /\ stream'[c].at = stream[c].at /\ stream'[c].up = stream[c].up
          /\ stream'[c].down = down /\ stream'[c].count = n + 1
        <3> HIDE DEF down, n
        <3>1. /\ \A d \in Callers \ {c} : stream'[d] = stream[d]
              /\ stream'[c] = [stream[c] EXCEPT !.count = n + 1, !.down = down]
            BY <2>1 DEF StreamsIInv, StreamsShape
        <3> QED BY <3>1 DEF StreamsIInv, StreamsShape, IsStream
    <2>3. Asked(c)'
        BY <1>1, <1>3, <1>4, <2>2 DEF Asked, Running
    <2> DEFINE p == Len(caller[c].printed)
               d0 == stream[c].down
    <2>4. /\ p \in Nat /\ d0 \in Seq({ItemSent(k) : k \in Nat}) /\ Len(d0) \in Nat
          /\ p + Len(d0) = n /\ \A k \in 1 .. Len(d0) : d0[k] = ItemSent(p + k - 1)
        <3>1. /\ caller[c].printed \in Seq({Item(k) : k \in Nat})
              /\ d0 \in Seq({ItemSent(k) : k \in Nat})
            BY <1>4 DEF OneByOne
        <3>2. p \in Nat /\ Len(d0) \in Nat
            BY <3>1
        <3> QED BY <1>4, <3>1, <3>2 DEF OneByOne
    <2>5. /\ down \in Seq({ItemSent(k) : k \in Nat}) /\ Len(down) = Len(d0) + 1
          /\ \A k \in 1 .. Len(d0) : down[k] = d0[k]
          /\ down[Len(d0) + 1] = e
        <3>1. e \in {ItemSent(k) : k \in Nat}
            BY <1>4
        <3> DEFINE S == {ItemSent(k) : k \in Nat}
        <3> HIDE DEF e, d0, S
        <3>2. d0 \in Seq(S) /\ e \in S /\ down = Append(d0, e)
            BY <2>4, <3>1 DEF S, d0
        <3>3. /\ Append(d0, e) \in Seq(S) /\ Len(Append(d0, e)) = Len(d0) + 1
              /\ \A k \in 1 .. Len(d0) : Append(d0, e)[k] = d0[k]
              /\ Append(d0, e)[Len(d0) + 1] = e
            BY <3>2
        <3> QED BY <3>2, <3>3 DEF S
    <2>6. Len(d0) + 1 \in 1 .. Len(down) /\ p + Len(down) = n + 1
          /\ p + (Len(d0) + 1) - 1 = n
        <3> HIDE DEF p, d0, down, n
        <3> QED BY <2>4, <2>5
    <2>7. ASSUME NEW k \in 1 .. Len(down) PROVE down[k] = ItemSent(p + k - 1)
        <3>1. CASE k \in 1 .. Len(d0)
            BY <2>4, <2>5, <3>1
        <3>2. CASE k = Len(d0) + 1
            BY <2>5, <2>6, <3>2 DEF e
        <3>3. k \in 1 .. Len(d0) \/ k = Len(d0) + 1
            <4> HIDE DEF d0, down
            <4> QED BY <2>4, <2>5
        <3> QED BY <3>1, <3>2, <3>3
    <2>8. n + 1 \in Nat /\ n + 1 <= Request(c)
        BY <1>2, <1>4, <1>5
    <2> HIDE DEF n, down, e
    <2>9. OneByOne(c)'
        <3>1. caller'[c] = caller[c] /\ stream[c].at # "ended" /\ caller[c].at # "done"
            <4>1. ~(n >= Request(c))
                BY <1>2, <1>4, <1>5 DEF n
            <4> QED BY <1>1, <1>4, <4>1 DEF Running, OneByOne, n
        <3>2. /\ stream'[c].down \in Seq({ItemSent(k) : k \in Nat})
              /\ Len(caller'[c].printed) + Len(stream'[c].down) = stream'[c].count
              /\ \A k \in 1 .. Len(stream'[c].down) :
                   stream'[c].down[k] = ItemSent(Len(caller'[c].printed) + k - 1)
            BY <2>2, <2>5, <2>6, <2>7, <3>1
        <3> QED BY <1>3, <1>4, <2>2, <2>8, <3>1, <3>2 DEF OneByOne
    <2>10. FibonacciOk(c)' /\ AverageOk(c)'
        BY <1>1, <1>3, <2>3, <2>9 DEF FibonacciOk, AverageOk
    <2> QED BY <1>1, <2>2, <2>10, OneMoves
<1>6. CASE ~(stream[c].count < Requested(c))
    <2>1. /\ \A d \in Callers \ {c} : stream'[d] = stream[d]
          /\ stream'[c] = [stream[c] EXCEPT !.at = "ended"]
        BY <1>6 DEF AsyncFibonacci, StreamsIInv, StreamsShape
    <2>2. /\ stream'[c].at = "ended" /\ stream'[c].up = stream[c].up
          /\ stream'[c].down = stream[c].down /\ stream'[c].count = stream[c].count
        BY <2>1 DEF StreamsIInv, StreamsShape, IsStream
    <2>3. Asked(c)'
        BY <1>1, <1>3, <1>4, <2>2 DEF Asked, Running
    <2>4. stream[c].count >= Request(c)
        BY <1>2, <1>4, <1>6
    <2>5. OneByOne(c)'
        BY <1>1, <1>3, <1>4, <2>2, <2>4 DEF OneByOne
    <2>6. FibonacciOk(c)' /\ AverageOk(c)'
        BY <1>1, <1>3, <2>3, <2>5 DEF FibonacciOk, AverageOk
    <2> QED BY <1>1, <2>1, <2>6, OneMoves
<1> QED BY <1>5, <1>6

LEMMA ReadSyncAnswersOk ==
    ASSUME StreamsIInv, AnswersOk, NEW c \in Callers, ReadSync(c) PROVE AnswersOk'
<1>1. /\ caller[c].at = "reading" /\ stream[c].down # <<>> /\ Kind(c) = "sync"
      /\ stream[c].at = "ended" /\ UNCHANGED <<job, stream>> /\ FibonacciOk(c) /\ AverageOk(c)
    BY DEF ReadSync, Reads, AnswersOk
<1>2. /\ Request(c) \in Nat /\ stream[c].down = <<WholeSent(Request(c))>>
    BY <1>1, JobNumbers DEF FibonacciOk, Whole, StreamsIInv
<1> DEFINE f == Fibonacci(Request(c))
<1>3. Decode(SyncFibonacciResponse, Head(stream[c].down)).fibonacciNumbers = f
    <2>1. Head(stream[c].down) = WholeSent(Request(c))
        BY <1>2
    <2>2. \A a : Decode(SyncFibonacciResponse, Encode(SyncFibonacciResponse,
                      [timeTaken |-> a, fibonacciNumbers |-> f])).fibonacciNumbers = f
        BY NumbersArrive
    <2> QED BY <2>1, <2>2 DEF WholeSent
<1>4. /\ Len(f) = Request(c) /\ (f = <<>> <=> Request(c) = 0)
      /\ \A k \in 1 .. Request(c) : f[k] = ToInt32(fib[k - 1])
    <2> DEFINE S == {ToInt32(fib[k - 1]) : k \in 1 .. Request(c)}
    <2>1. f \in [1 .. Request(c) -> S]
        BY DEF Fibonacci
    <2>2. f \in Seq(S) /\ Len(f) = Request(c)
        BY <1>2, <2>1
    <2>3. f = <<>> <=> Len(f) = 0
        BY <2>2, EmptySeq
    <2> QED BY <2>2, <2>3 DEF Fibonacci
<1>5. CASE f = <<>>
    BY <1>1, <1>3, <1>5, CallerFails DEF ReadSync
<1>6. CASE f # <<>>
    <2> DEFINE printed == [k \in 1 .. Len(f) |->
                              [sequence |-> k - 1, fibonacciNumber |-> f[k]]]
    <2>1. caller' = [caller EXCEPT ![c].at = "done", ![c].printed = printed]
        BY <1>3, <1>6 DEF ReadSync
    <2>2. printed = [k \in 1 .. Request(c) |-> Item(k - 1)]
        <3>1. \A k \in 1 .. Request(c) :
                [sequence |-> k - 1, fibonacciNumber |-> f[k]] = Item(k - 1)
            BY <1>4 DEF Item
        <3>2. Len(f) = Request(c)
            BY <1>4
        <3> HIDE DEF f
        <3> QED BY <3>1, <3>2
    <2> HIDE DEF printed
    <2>3. /\ \A d \in Callers \ {c} : caller'[d] = caller[d]
          /\ caller'[c] = [caller[c] EXCEPT !.at = "done", !.printed = printed]
        BY <2>1 DEF StreamsIInv, StreamsShape
    <2>4. caller'[c].at = "done" /\ caller'[c].printed = printed
        BY <2>3 DEF StreamsIInv, StreamsShape, IsCaller
    <2>5. Kind(c)' = Kind(c) /\ Request(c)' = Request(c)
        BY <1>1 DEF Kind, Request, ToInt32
    <2>6. Asked(c)'
        BY <1>1, <2>4, <2>5 DEF FibonacciOk, Asked, Running
    <2>7. Request(c) > 0
        BY <1>2, <1>4, <1>6
    <2>8. Whole(c)'
        BY <1>1, <2>2, <2>4, <2>5, <2>7 DEF FibonacciOk, Whole, Running
    <2>9. FibonacciOk(c)' /\ AverageOk(c)'
        BY <1>1, <2>5, <2>6, <2>8 DEF FibonacciOk, AverageOk
    <2> QED BY <1>1, <2>3, <2>9, OneMoves
<1> QED BY <1>5, <1>6

LEMMA ReadAsyncAnswersOk ==
    ASSUME StreamsIInv, AnswersOk, NEW c \in Callers, ReadAsync(c) PROVE AnswersOk'
<1>1. /\ caller[c].at = "reading" /\ stream[c].down # <<>> /\ Kind(c) = "async"
      /\ UNCHANGED <<job, serving, kills>> /\ FibonacciOk(c) /\ AverageOk(c)
      /\ Asked(c) /\ OneByOne(c)
    BY DEF ReadAsync, Reads, AnswersOk, FibonacciOk
<1> DEFINE p == caller[c].printed
           down == stream[c].down
           S == {ItemSent(k) : k \in Nat}
           I == {Item(k) : k \in Nat}
           e == Item(Len(p))
<1>2. /\ p \in Seq(I) /\ down \in Seq(S) /\ Len(p) + Len(down) = stream[c].count
      /\ \A k \in 1 .. Len(p) : p[k] = Item(k - 1)
      /\ \A k \in 1 .. Len(down) : down[k] = ItemSent(Len(p) + k - 1)
    BY <1>1 DEF OneByOne
<1>3. /\ Len(down) \in Nat /\ Len(down) > 0 /\ Len(p) \in Nat /\ down[1] = ItemSent(Len(p))
      /\ e \in I
    <2>1. Len(down) \in Nat /\ Len(p) \in Nat
        BY <1>2
    <2>2. Len(down) > 0
        BY <1>1, <1>2, <2>1, EmptySeq
    <2>3. 1 \in 1 .. Len(down) /\ Len(p) + 1 - 1 = Len(p)
        BY <2>1, <2>2
    <2> QED BY <1>2, <2>1, <2>2, <2>3
<1>4. Decode(AsyncFibonacciResponse, Head(down)) = e
    <2>1. Head(down) = ItemSent(Len(p))
        BY <1>2, <1>3
    <2> QED BY <2>1, NumbersArrive DEF ItemSent, Item
<1>5. /\ caller' = [caller EXCEPT ![c].printed = Append(p, e)]
      /\ stream' = [stream EXCEPT ![c].down = Tail(down)]
    BY <1>4 DEF ReadAsync
<1> HIDE DEF p, down, S, I, e
<1>6. /\ \A d \in Callers \ {c} : caller'[d] = caller[d] /\ stream'[d] = stream[d]
      /\ caller'[c] = [caller[c] EXCEPT !.printed = Append(p, e)]
      /\ stream'[c] = [stream[c] EXCEPT !.down = Tail(down)]
    BY <1>5 DEF StreamsIInv, StreamsShape
<1>7. caller'[c].at = caller[c].at /\ caller'[c].printed = Append(p, e)
    BY <1>6 DEF StreamsIInv, StreamsShape, IsCaller
<1>8. /\ stream'[c].at = stream[c].at /\ stream'[c].up = stream[c].up
      /\ stream'[c].down = Tail(down) /\ stream'[c].count = stream[c].count
    BY <1>6 DEF StreamsIInv, StreamsShape, IsStream
<1>9. Kind(c)' = Kind(c) /\ Request(c)' = Request(c)
    BY <1>1 DEF Kind, Request, ToInt32
<1>10. Asked(c)'
    BY <1>1, <1>7, <1>8, <1>9 DEF Asked, Running
<1>11. /\ Append(p, e) \in Seq(I) /\ Len(Append(p, e)) = Len(p) + 1
       /\ \A k \in 1 .. Len(p) : Append(p, e)[k] = p[k]
       /\ Append(p, e)[Len(p) + 1] = e
    BY <1>2, <1>3
<1>12. /\ Tail(down) \in Seq(S) /\ Len(Tail(down)) = Len(down) - 1
       /\ \A k \in 1 .. Len(Tail(down)) : Tail(down)[k] = down[k + 1]
    <2>1. down # <<>>
        BY <1>1 DEF down
    <2> QED BY <1>2, <2>1
<1>13. Len(Append(p, e)) + Len(Tail(down)) = stream[c].count
    <2>1. \A a, b \in Nat : (a + 1) + (b - 1) = a + b
        OBVIOUS
    <2> QED BY <1>2, <1>3, <1>11, <1>12, <2>1, Zenon
<1>14. ASSUME NEW k \in 1 .. Len(Append(p, e)) PROVE Append(p, e)[k] = Item(k - 1)
    <2>1. k \in 1 .. Len(p) \/ (k = Len(p) + 1 /\ k - 1 = Len(p))
        BY <1>3, <1>11
    <2> QED BY <1>2, <1>11, <2>1 DEF e
<1>15. ASSUME NEW k \in 1 .. Len(Tail(down))
       PROVE  Tail(down)[k] = ItemSent(Len(Append(p, e)) + k - 1)
    <2>1. k + 1 \in 1 .. Len(down) /\ Len(p) + (k + 1) - 1 = (Len(p) + 1) + k - 1
        BY <1>3, <1>12
    <2> QED BY <1>2, <1>11, <1>12, <2>1
<1>16. OneByOne(c)'
    <2>1. caller'[c].printed \in Seq({Item(k) : k \in Nat})
        BY <1>7, <1>11 DEF I
    <2>2. stream'[c].down \in Seq({ItemSent(k) : k \in Nat})
        BY <1>8, <1>12 DEF S
    <2> QED BY <1>1, <1>7, <1>8, <1>9, <1>13, <1>14, <1>15, <2>1, <2>2 DEF OneByOne
<1>17. FibonacciOk(c)' /\ AverageOk(c)'
    BY <1>1, <1>9, <1>10, <1>16 DEF FibonacciOk, AverageOk
<1> QED BY <1>1, <1>6, <1>17, OneMoves

LEMMA ReadEOFAnswersOk ==
    ASSUME StreamsIInv, AnswersOk, NEW c \in Callers, ReadEOF(c) PROVE AnswersOk'
<1>1. /\ caller[c].at = "reading" /\ Kind(c) = "async" /\ stream[c].at = "ended"
      /\ stream[c].down = <<>> /\ SetCaller(c, "done") /\ UNCHANGED <<job, stream>>
      /\ Asked(c) /\ OneByOne(c) /\ AverageOk(c)
    BY DEF ReadEOF, AnswersOk, FibonacciOk
<1>2. /\ \A d \in Callers \ {c} : caller'[d] = caller[d]
      /\ caller'[c].at = "done" /\ caller'[c].printed = caller[c].printed
    BY <1>1, CallerTurns
<1>3. Kind(c)' = Kind(c) /\ Request(c)' = Request(c)
    BY <1>1 DEF Kind, Request, ToInt32
<1>4. Asked(c)'
    BY <1>1, <1>2, <1>3 DEF Asked, Running
<1>5. OneByOne(c)'
    BY <1>1, <1>2, <1>3 DEF OneByOne
<1>6. FibonacciOk(c)' /\ AverageOk(c)'
    BY <1>1, <1>3, <1>4, <1>5 DEF FibonacciOk, AverageOk
<1> QED BY <1>1, <1>2, <1>6, OneMoves

LEMMA StreamsNext_AnswersOk ==
    StreamsIInv /\ AnswersOk /\ [StreamsNext]_streamVars => AnswersOk'
<1> SUFFICES ASSUME StreamsIInv, AnswersOk, [StreamsNext]_streamVars PROVE AnswersOk'
    OBVIOUS
<1>1. ASSUME NEW c \in Callers, CallerStep(c) PROVE AnswersOk'
    <2>1. CASE Open(c)
        BY <2>1, OpenAnswersOk
    <2>2. CASE SendNumber(c)
        BY <2>2, SendNumberAnswersOk
    <2>3. CASE CloseAndRecv(c)
        BY <2>3, CloseAndRecvAnswersOk
    <2>4. CASE ReadAverage(c)
        BY <2>4, ReadAverageAnswersOk
    <2>5. CASE ReadSync(c)
        BY <2>5, ReadSyncAnswersOk
    <2>6. CASE ReadAsync(c)
        BY <2>6, ReadAsyncAnswersOk
    <2>7. CASE ReadEOF(c)
        BY <2>7, ReadEOFAnswersOk
    <2>8. CASE ReadError(c)
        BY <2>8, CallerFails DEF ReadError
    <2> QED BY <1>1, <2>1, <2>2, <2>3, <2>4, <2>5, <2>6, <2>7, <2>8 DEF CallerStep
<1>2. ASSUME NEW c \in Callers, HandlerStep(c) PROVE AnswersOk'
    <2>1. CASE Recv(c)
        BY <2>1, RecvAnswersOk
    <2>2. CASE RecvEOF(c)
        BY <2>2, RecvEOFAnswersOk
    <2>3. CASE RecvError(c)
        BY <2>3, DiesAnswersOk DEF RecvError
    <2>4. CASE SyncFibonacci(c)
        BY <2>4, SyncFibonacciAnswersOk
    <2>5. CASE AsyncFibonacci(c)
        BY <2>5, AsyncFibonacciAnswersOk
    <2> QED BY <1>2, <2>1, <2>2, <2>3, <2>4, <2>5 DEF HandlerStep
<1>3. ASSUME NEW c \in Callers, KillCaller(c) PROVE AnswersOk'
    BY <1>3, CallerFails DEF KillCaller
<1>4. CASE UNCHANGED streamVars
    BY <1>4, OthersOk DEF streamVars, AnswersOk
<1> QED BY <1>1, <1>2, <1>3, <1>4 DEF StreamsNext

-------------------------------------------------------------------------------

\* A client of the average server that is answered has the average of all its numbers.
THEOREM AveragesAreOfAllNumbers == StreamsSpec => []AverageOfAllNumbers
<1>1. StreamsIInv /\ AnswersOk => AverageOfAllNumbers
    <2> SUFFICES ASSUME StreamsIInv, AnswersOk, NEW c \in Callers,
                        Kind(c) = "average", caller[c].at = "done"
                 PROVE  /\ job[c].numbers # <<>>
                        /\ caller[c].printed = <<Quotient(
                               Sums(job[c].numbers)[Len(job[c].numbers)], Len(job[c].numbers))>>
        BY DEF AverageOfAllNumbers
    <2> DEFINE s == job[c].numbers
    <2>1. s \in Seq(Int)
        BY JobNumbers DEF StreamsIInv
    <2>2. Len(s) > 0 /\ caller[c].printed = <<ToInt32(Quotient(Sums(s)[Len(s)], Len(s)))>>
        BY DEF AnswersOk, AverageOk, SumOfFirst
    <2>3. Len(s) \in Nat \ {0} /\ s # <<>>
        BY <2>1, <2>2
    <2>4. ToInt32(Quotient(Sums(s)[Len(s)], Len(s))) = Quotient(Sums(s)[Len(s)], Len(s))
        BY <2>1, <2>3, SumsBounds, QuotientFits
    <2> QED BY <2>2, <2>3, <2>4
<1> QED BY StreamsInit_IInv, StreamsNext_IInv, StreamsInit_AnswersOk, StreamsNext_AnswersOk,
           <1>1, PTL DEF StreamsSpec

\* What a Fibonacci client prints begins the sequence, and is all of it at its end.
THEOREM FibonacciNumbersInOrder == StreamsSpec => []PrintedInOrder
<1>1. StreamsIInv /\ AnswersOk => PrintedInOrder
    <2> SUFFICES ASSUME StreamsIInv, AnswersOk, NEW c \in Callers, Kind(c) \in {"sync", "async"}
                 PROVE  /\ \A k \in DOMAIN caller[c].printed : caller[c].printed[k] = Item(k - 1)
                        /\ caller[c].at = "done" =>
                             DOMAIN caller[c].printed = 1 .. Request(c)
        BY DEF PrintedInOrder, Item, Request
    <2>1. Request(c) \in Int /\ FibonacciOk(c)
        BY JobNumbers DEF StreamsIInv, AnswersOk
    <2>2. CASE Kind(c) = "sync"
        BY <2>1, <2>2 DEF FibonacciOk, Whole
    <2>3. CASE Kind(c) = "async"
        <3>1. OneByOne(c)
            BY <2>1, <2>3 DEF FibonacciOk
        <3>2. /\ DOMAIN caller[c].printed = 1 .. Len(caller[c].printed)
              /\ Len(caller[c].printed) \in Nat
            BY <3>1 DEF OneByOne
        <3>3. caller[c].at = "done" => Len(caller[c].printed) = stream[c].count
            <4>1. Len(<<>>) = 0
                OBVIOUS
            <4>2. /\ Len(caller[c].printed) + Len(stream[c].down) = stream[c].count
                  /\ caller[c].at = "done" => stream[c].down = <<>>
                BY <3>1 DEF OneByOne
            <4>3. \A n \in Nat : n + 0 = n
                OBVIOUS
            <4> QED BY <3>2, <4>1, <4>2, <4>3, Zenon
        <3> QED BY <2>1, <3>1, <3>2, <3>3 DEF OneByOne
    <2> QED BY <2>2, <2>3
<1> QED BY StreamsInit_IInv, StreamsNext_IInv, StreamsInit_AnswersOk, StreamsNext_AnswersOk,
           <1>1, PTL DEF StreamsSpec

-------------------------------------------------------------------------------
(* NumberStreams: types. *)

\* A step that is not the end of a process: only calls that are opened start to run.
CallsMove ==
    \A d \in Callers :
        /\ caller'[d].at \in {caller[d].at, "sending", "reading", "done", "dead"}
        /\ \/ stream'[d].at = stream[d].at
           \/ stream'[d].at = "ended"
           \/ stream'[d].at = "running" /\ ServerFor(d) \in serving

LEMMA OneCallMoves ==
    ASSUME StreamsIInv, NEW c \in Callers, CallerStep(c) \/ HandlerStep(c) \/ KillCaller(c)
    PROVE  /\ job' = job
           /\ kills' \in {kills, kills + 1} /\ (kills' # kills => kills < MaxKills)
           /\ (\E s : Dies(s)) \/ (CallsMove /\ serving' = serving)
<1>1. CASE Open(c)
    BY <1>1 DEF Open, SetCaller, CallsMove, StreamsIInv, StreamsShape, IsCaller, IsStream,
       ServerFor, Kind
<1>2. CASE SendNumber(c)
    BY <1>2 DEF SendNumber, CallsMove, StreamsIInv, StreamsShape, IsCaller, IsStream
<1>3. CASE CloseAndRecv(c)
    BY <1>3 DEF CloseAndRecv, SetCaller, CallsMove, StreamsIInv, StreamsShape, IsCaller, IsStream
<1>4. CASE ReadAverage(c)
    BY <1>4 DEF ReadAverage, CallsMove, StreamsIInv, StreamsShape, IsCaller
<1>5. CASE ReadSync(c)
    BY <1>5 DEF ReadSync, SetCaller, CallsMove, StreamsIInv, StreamsShape, IsCaller
<1>6. CASE ReadAsync(c)
    BY <1>6 DEF ReadAsync, CallsMove, StreamsIInv, StreamsShape, IsCaller, IsStream
<1>7. CASE ReadEOF(c) \/ ReadError(c) \/ KillCaller(c)
    BY <1>7 DEF ReadEOF, ReadError, KillCaller, SetCaller, CallsMove, StreamsIInv, StreamsShape,
       IsCaller
<1>8. CASE Recv(c)
    BY <1>8 DEF Recv, CallsMove, StreamsIInv, StreamsShape, IsStream
<1>9. CASE RecvEOF(c)
    <2>1. CASE stream[c].count = 0
        <3>1. \E s : Dies(s)
            BY <1>9, <2>1 DEF RecvEOF
        <3>2. UNCHANGED <<job, kills>>
            BY <3>1 DEF Dies
        <3> QED BY <3>1, <3>2
    <2>2. CASE ~(stream[c].count = 0)
        <3>1. /\ UNCHANGED <<job, caller, serving, kills>>
              /\ \E down : stream' = [stream EXCEPT ![c].at = "ended", ![c].down = down]
            BY <1>9, <2>2 DEF RecvEOF
        <3> QED BY <3>1 DEF CallsMove, StreamsIInv, StreamsShape, IsStream
    <2> QED BY <2>1, <2>2
<1>10. CASE RecvError(c)
    BY <1>10 DEF RecvError, Dies
<1>11. CASE SyncFibonacci(c)
    <2>1. CASE Requested(c) < 0
        <3>1. \E s : Dies(s)
            BY <1>11, <2>1 DEF SyncFibonacci
        <3>2. UNCHANGED <<job, kills>>
            BY <3>1 DEF Dies
        <3> QED BY <3>1, <3>2
    <2>2. CASE ~(Requested(c) < 0)
        <3>1. /\ UNCHANGED <<job, caller, serving, kills>>
              /\ \E down : stream' = [stream EXCEPT ![c].at = "ended", ![c].down = down]
            BY <1>11, <2>2 DEF SyncFibonacci
        <3> QED BY <3>1 DEF CallsMove, StreamsIInv, StreamsShape, IsStream
    <2> QED BY <2>1, <2>2
<1>12. CASE AsyncFibonacci(c)
    BY <1>12 DEF AsyncFibonacci, CallsMove, StreamsIInv, StreamsShape, IsStream
<1> QED BY <1>1, <1>2, <1>3, <1>4, <1>5, <1>6, <1>7, <1>8, <1>9, <1>10, <1>11, <1>12
       DEF CallerStep, HandlerStep

LEMMA StreamsNext_TypeOK ==
    StreamsIInv /\ StreamsTypeOK /\ [StreamsNext]_streamVars => StreamsTypeOK'
<1> SUFFICES ASSUME StreamsIInv, StreamsTypeOK, [StreamsNext]_streamVars PROVE StreamsTypeOK'
    OBVIOUS
<1>1. ASSUME NEW s, Dies(s), kills' = kills PROVE StreamsTypeOK'
    <2>1. ASSUME NEW c \in Callers
          PROVE  /\ stream'[c] = stream[c] \/ stream'[c].at = "broken"
                 /\ stream'[c].at = "running" => ServerFor(c) # s
        BY <1>1 DEF Dies, StreamsIInv, StreamsShape, IsStream
    <2> QED BY <1>1, <2>1 DEF Dies, StreamsTypeOK, ServerFor, Kind
<1>2. ASSUME CallsMove, UNCHANGED <<job, serving>>, kills' \in 0 .. MaxKills
      PROVE  StreamsTypeOK'
    BY <1>2 DEF CallsMove, StreamsTypeOK, ServerFor, Kind
<1>3. CASE UNCHANGED streamVars
    BY <1>3 DEF streamVars, StreamsTypeOK, ServerFor, Kind
<1>4. CASE StreamsNext
    <2>1. PICK c \in Callers : CallerStep(c) \/ HandlerStep(c) \/ KillCaller(c)
        BY <1>4 DEF StreamsNext
    <2>2. /\ job' = job
          /\ kills' \in {kills, kills + 1} /\ (kills' # kills => kills < MaxKills)
          /\ (\E s : Dies(s)) \/ (CallsMove /\ serving' = serving)
        BY <2>1, OneCallMoves
    <2>3. kills' \in 0 .. MaxKills
        BY <2>2, StreamsAssumption DEF StreamsTypeOK
    <2>4. CASE \E s : Dies(s)
        BY <1>1, <2>4 DEF Dies
    <2> QED BY <1>2, <2>2, <2>3, <2>4
<1> QED BY <1>3, <1>4

\* The average and Fibonacci services keep their types, and no call runs in a process
\* that has ended.
THEOREM StreamsTypes == StreamsSpec => []StreamsTypeOK
<1>1. StreamsInit => StreamsTypeOK
    BY StreamsAssumption DEF StreamsInit, StreamsTypeOK, ServerFor
<1> QED BY StreamsInit_IInv, StreamsNext_IInv, <1>1, StreamsNext_TypeOK, PTL DEF StreamsSpec

-------------------------------------------------------------------------------
(***************************************************************************)
(* Gateway: it ends at most once for each pod that stops.                  *)
(***************************************************************************)

GatewaySpec == GatewayInit /\ [][GatewayNext]_gatewayVars

GatewayShape ==
    /\ pod \subseteq Pods
    /\ gateway \in {"undeployed", "down", "dialing", "up"}
    /\ conn \in [Pods -> {"none", "connecting", "ready", "failing"}]
    /\ DOMAIN request = Requests
    /\ stops \in Nat /\ deaths \in Nat

\* A ready connection leads to a pod that runs.
ReadyRuns == Ready \subseteq pod

\* Requests are those of a gateway that is up.
OnlyUp == \A r \in Requests : request[r].at # "none" => gateway = "up"

\* When every stop has had its death, no request has failed, and none can: the balancer
\* waits for a pod that it is connected to, or connects to.
Paid ==
    deaths = stops /\ gateway = "up" =>
        /\ \E p \in pod : conn[p] \in {"connecting", "ready"}
        /\ \A r \in Requests : request[r].at # "failed"

GatewayIInv == GatewayShape /\ ReadyRuns /\ OnlyUp /\ deaths <= stops /\ Paid

-------------------------------------------------------------------------------

LEMMA GatewayInit_IInv == GatewayInit => GatewayIInv
    BY DEF GatewayInit, GatewayIInv, GatewayShape, ReadyRuns, Ready, OnlyUp, Paid, Nowhere

LEMMA GatewayNext_IInv == GatewayIInv /\ [GatewayNext]_gatewayVars => GatewayIInv'
<1> SUFFICES ASSUME GatewayIInv, [GatewayNext]_gatewayVars PROVE GatewayIInv'
    OBVIOUS
<1> USE DEF GatewayIInv, GatewayShape, ReadyRuns, Ready, OnlyUp, Paid
<1>1. ASSUME NEW p \in Pods, PodStarts(p) PROVE GatewayIInv'
    BY <1>1 DEF PodStarts
<1>2. ASSUME NEW p \in Pods, PodStops(p) PROVE GatewayIInv'
    <2>1. stops' = stops + 1 /\ deaths' = deaths /\ gateway' = gateway
        BY <1>2 DEF PodStops
    <2>2. deaths' <= stops' /\ deaths' # stops'
        BY <2>1
    <2>3. GatewayShape'
        BY <1>2, <2>1 DEF PodStops
    <2>4. ReadyRuns'
        BY <1>2 DEF PodStops
    <2>5. OnlyUp'
        BY <1>2, <2>1 DEF PodStops, At
    <2> QED BY <2>2, <2>3, <2>4, <2>5
<1>3. ASSUME NEW p \in Pods, Connect(p) PROVE GatewayIInv'
    <2>1. CASE p \in pod
        BY <1>3, <2>1 DEF Connect, SetConn
    <2>2. CASE p \notin pod
        BY <1>3, <2>2 DEF Connect, SetConn
    <2> QED BY <2>1, <2>2
<1>4. ASSUME NEW p \in Pods, MaxConnectionAge(p) PROVE GatewayIInv'
    BY <1>4 DEF MaxConnectionAge, SetConn
<1>5. CASE GatewayStarts
    BY <1>5 DEF GatewayStarts
<1>6. CASE Dialed
    BY <1>6 DEF Dialed
<1>7. CASE Resolve
    BY <1>7 DEF Resolve
<1>8. ASSUME NEW r \in Requests, Arrive(r) PROVE GatewayIInv'
    BY <1>8 DEF Arrive, SetRequest, Nowhere
<1>9. ASSUME NEW r \in Requests, Pick(r) PROVE GatewayIInv'
    <2>1. CASE \E p \in Ready :
                 SetRequest(r, [at |-> "pod", pod |-> p, body |-> request[r].body])
        BY <1>9, <2>1 DEF Pick, SetRequest
    <2>2. CASE /\ \A p \in Pods : conn[p] \in {"none", "failing"}
               /\ SetRequest(r, [at |-> "failed"])
        <3>1. gateway = "up" /\ UNCHANGED <<pod, gateway, conn, stops, deaths>>
            BY <1>9 DEF Pick
        <3>2. deaths # stops
            BY <2>2, <3>1
        <3> QED BY <2>2, <3>1, <3>2 DEF SetRequest
    <2> QED BY <1>9, <2>1, <2>2 DEF Pick
<1>10. ASSUME NEW r \in Requests, Greet(r) PROVE GatewayIInv'
    BY <1>10 DEF Greet, SetRequest
<1>11. ASSUME NEW r \in Requests, Respond(r) PROVE GatewayIInv'
    BY <1>11 DEF Respond, SetRequest, Nowhere
<1>12. ASSUME NEW r \in Requests, Fail(r) PROVE GatewayIInv'
    <2>1. gateway = "up" /\ deaths # stops
        BY <1>12 DEF Fail
    <2>2. deaths + 1 <= stops
        BY <2>1
    <2> QED BY <1>12, <2>2 DEF Fail, Nowhere
<1>13. CASE UNCHANGED gatewayVars
    BY <1>13 DEF gatewayVars
<1> QED
    BY <1>1, <1>2, <1>3, <1>4, <1>5, <1>6, <1>7, <1>8, <1>9, <1>10, <1>11, <1>12, <1>13
    DEF GatewayNext

\* One failed call ends the gateway, but each pod that stops ends it at most once, and
\* nothing else ends it.
THEOREM EachStopKillsOnce == GatewaySpec => []OneDeathPerStop
<1>1. GatewayIInv => OneDeathPerStop
    BY DEF GatewayIInv, OneDeathPerStop
<1> QED BY GatewayInit_IInv, GatewayNext_IInv, <1>1, PTL DEF GatewaySpec

-------------------------------------------------------------------------------
(* Gateway: types, and whose answer a request has.                             *)

Name(r) == [first_name |-> r, last_name |-> ""]

NameSent(r) == Encode(GreetingRequest, [greeting |-> Name(r)])

Greets(body, r) == Head(Decode(GreetingResponse, body).Result) = r

\* Where a request is, and that it still is about its name.
RequestOk(r) ==
    /\ request[r].at \in {"none", "gateway", "pod", "answered", "failed"}
    /\ request[r].at \in {"gateway", "pod"} => request[r].body = NameSent(r)
    /\ request[r].at = "pod" => request[r].pod \in pod
    /\ request[r].at = "answered" => Greets(request[r].body, r)

RequestsOk == stops <= MaxStops /\ \A r \in Requests : RequestOk(r)

LEMMA GreetingsArrive ==
    ASSUME NEW r \in Requests, NEW p
    PROVE  /\ LET g == Decode(GreetingRequest, NameSent(r)).greeting IN
              Get(Greeting, g, "first_name") = r
           /\ \A x : Greets(Encode(GreetingResponse, [Result |-> <<r, x, p>>]), r)
<1>1. WellFormed(GreetingRequest, [greeting |-> Name(r)])
    <2>1. Distinct(Greeting) /\ Of(Greeting, Name(r))
        <3>1. /\ DOMAIN Greeting = {"first_name", "last_name"}
              /\ Greeting["first_name"].number = 1 /\ Greeting["last_name"].number = 2
            BY DEF Greeting, String, Field
        <3>2. /\ DOMAIN Name(r) = {"first_name", "last_name"}
              /\ Name(r) = [f \in {"first_name", "last_name"} |-> Name(r)[f]]
            BY DEF Name
        <3> QED BY <3>1, <3>2 DEF Distinct, Of
    <2>2. Distinct(GreetingRequest) /\ Of(GreetingRequest, [greeting |-> Name(r)])
        BY DEF Distinct, Of, GreetingRequest, Message, Field
    <2>3. /\ DOMAIN GreetingRequest = {"greeting"}
          /\ GreetingRequest["greeting"].kind = "message"
          /\ GreetingRequest["greeting"].of = Greeting
        BY DEF GreetingRequest, Message, Field
    <2> HIDE DEF Name
    <2> QED BY <2>1, <2>2, <2>3 DEF WellFormed, Fits
<1>2. \A v : WellFormed(GreetingResponse, [Result |-> v])
    BY DEF WellFormed, Distinct, Of, Fits, GreetingResponse, String, Field
<1>3. Decode(GreetingRequest, NameSent(r)).greeting = Name(r)
    BY <1>1, RoundTrip DEF NameSent
<1>4. Get(Greeting, Name(r), "first_name") = r
    <2>1. Name(r) # Nil
        BY GatewayAssumption DEF GatewayAssumption, GatewayAssumption, Name
    <2> QED BY <2>1 DEF Get, Name
<1>5. ASSUME NEW x PROVE Greets(Encode(GreetingResponse, [Result |-> <<r, x, p>>]), r)
    <2> DEFINE v == <<r, x, p>>
    <2>1. Head(v) = r
        OBVIOUS
    <2> HIDE DEF v
    <2>2. Decode(GreetingResponse, Encode(GreetingResponse, [Result |-> v])).Result = v
        BY <1>2, RoundTrip
    <2> QED BY <2>1, <2>2 DEF Greets, v
<1> QED BY <1>3, <1>4, <1>5

LEMMA MaxStopsType == MaxStops \in Nat
BY GatewayAssumption DEF GatewayAssumption

LEMMA GatewayNext_RequestsOk ==
    GatewayIInv /\ RequestsOk /\ [GatewayNext]_gatewayVars => RequestsOk'
<1> SUFFICES ASSUME GatewayIInv, RequestsOk, [GatewayNext]_gatewayVars PROVE RequestsOk'
    OBVIOUS
<1>1. ASSUME request' = request, pod \subseteq pod', stops' = stops PROVE RequestsOk'
    BY <1>1 DEF RequestsOk, RequestOk, NameSent, Name, Greets
<1>2. ASSUME NEW p \in Pods, PodStarts(p) \/ Connect(p) \/ MaxConnectionAge(p)
      PROVE  RequestsOk'
    BY <1>1, <1>2 DEF PodStarts, Connect, MaxConnectionAge
<1>3. CASE GatewayStarts \/ Dialed \/ Resolve
    BY <1>1, <1>3 DEF GatewayStarts, Dialed, Resolve
<1>4. ASSUME NEW p \in Pods, PodStops(p) PROVE RequestsOk'
    <2>1. stops' <= MaxStops /\ pod' = pod \ {p}
        <3>1. /\ stops < MaxStops /\ stops' = stops + 1 /\ pod' = pod \ {p}
              /\ stops \in Nat
            BY <1>4 DEF PodStops, GatewayIInv, GatewayShape
        <3> QED BY <3>1, MaxStopsType
    <2>2. ASSUME NEW r \in Requests PROVE RequestOk(r)'
        <3>1. CASE r \in At(p)
            <4>1. request'[r] = [at |-> "failed"]
                BY <1>4, <3>1 DEF PodStops
            <4> QED BY <4>1 DEF RequestOk
        <3>2. CASE r \notin At(p)
            <4>1. request'[r] = request[r]
                BY <1>4, <3>2 DEF PodStops
            <4>2. request[r].at = "pod" => request[r].pod # p
                BY <3>2 DEF At
            <4> QED BY <2>1, <4>1, <4>2 DEF RequestsOk, RequestOk, NameSent, Name, Greets
        <3> QED BY <3>1, <3>2
    <2> QED BY <2>1, <2>2 DEF RequestsOk
<1>5. ASSUME NEW r \in Requests, NEW q, SetRequest(r, q), UNCHANGED <<pod, stops>>,
             RequestOk(r)'
      PROVE  RequestsOk'
    <2>1. \A d \in Requests \ {r} : request'[d] = request[d]
        BY <1>5 DEF SetRequest, GatewayIInv, GatewayShape
    <2>2. \A d \in Requests \ {r} : RequestOk(d)'
        BY <1>5, <2>1 DEF RequestsOk, RequestOk, NameSent, Name, Greets
    <2> QED BY <1>5, <2>2 DEF RequestsOk
<1>6. ASSUME NEW r \in Requests, NEW q, SetRequest(r, q) PROVE request'[r] = q
    BY <1>6 DEF SetRequest, GatewayIInv, GatewayShape
<1>7. ASSUME NEW r \in Requests, Arrive(r) PROVE RequestsOk'
    <2> DEFINE q == [at |-> "gateway", body |-> NameSent(r)]
    <2>1. SetRequest(r, q) /\ UNCHANGED <<pod, stops>>
        BY <1>7 DEF Arrive, NameSent, Name
    <2>2. request'[r] = q
        BY <1>6, <2>1
    <2>3. request'[r].at = "gateway" /\ request'[r].body = NameSent(r)
        BY <2>2
    <2>4. RequestOk(r)'
        BY <2>3 DEF RequestOk, NameSent, Name
    <2> QED BY <1>5, <2>1, <2>4
<1>8. ASSUME NEW r \in Requests, Pick(r) PROVE RequestsOk'
    <2>1. RequestOk(r) /\ request[r].at = "gateway" /\ UNCHANGED <<pod, stops>>
        BY <1>8 DEF Pick, RequestsOk
    <2>2. CASE \E p \in Ready :
                 SetRequest(r, [at |-> "pod", pod |-> p, body |-> request[r].body])
        <3>1. PICK p \in Ready :
                SetRequest(r, [at |-> "pod", pod |-> p, body |-> request[r].body])
            BY <2>2
        <3>2. request'[r] = [at |-> "pod", pod |-> p, body |-> NameSent(r)]
            BY <1>6, <2>1, <3>1 DEF RequestOk
        <3>3. p \in pod
            BY DEF GatewayIInv, ReadyRuns
        <3>4. /\ request'[r].at = "pod" /\ request'[r].pod \in pod'
              /\ request'[r].body = NameSent(r)
            BY <2>1, <3>2, <3>3
        <3>5. RequestOk(r)'
            BY <3>4 DEF RequestOk, NameSent, Name
        <3> QED BY <1>5, <2>1, <3>1, <3>5
    <2>3. CASE SetRequest(r, [at |-> "failed"])
        <3>1. request'[r] = [at |-> "failed"]
            BY <1>6, <2>3
        <3> QED BY <1>5, <2>1, <2>3, <3>1 DEF RequestOk
    <2> QED BY <1>8, <2>2, <2>3 DEF Pick
<1>9. ASSUME NEW r \in Requests, Greet(r) PROVE RequestsOk'
    <2>1. RequestOk(r) /\ request[r].at = "pod" /\ UNCHANGED <<pod, stops>>
        BY <1>9 DEF Greet, RequestsOk
    <2> DEFINE g == Decode(GreetingRequest, request[r].body).greeting
               body == Encode(GreetingResponse,
                          [Result |-> <<Get(Greeting, g, "first_name"),
                                        Get(Greeting, g, "last_name"), request[r].pod>>])
    <2>2. SetRequest(r, [at |-> "answered", body |-> body])
        BY <1>9 DEF Greet
    <2>3. g = Decode(GreetingRequest, NameSent(r)).greeting
        BY <2>1 DEF RequestOk
    <2>4. Get(Greeting, g, "first_name") = r
        BY <2>3, GreetingsArrive
    <2>5. Greets(body, r)
        BY <2>4, GreetingsArrive
    <2> HIDE DEF body
    <2>6. request'[r] = [at |-> "answered", body |-> body]
        BY <1>6, <2>2
    <2>7. RequestOk(r)'
        BY <2>5, <2>6 DEF RequestOk, Greets
    <2> QED BY <1>5, <2>1, <2>2, <2>7
<1>10. ASSUME NEW r \in Requests, Respond(r) PROVE RequestsOk'
    <2>1. SetRequest(r, Nowhere) /\ UNCHANGED <<pod, stops>>
        BY <1>10 DEF Respond
    <2>2. request'[r] = Nowhere
        BY <1>6, <2>1
    <2> QED BY <1>5, <2>1, <2>2 DEF RequestOk, Nowhere
<1>11. ASSUME NEW r \in Requests, Fail(r) PROVE RequestsOk'
    BY <1>11 DEF Fail, RequestsOk, RequestOk, Nowhere
<1>12. CASE UNCHANGED gatewayVars
    BY <1>1, <1>12 DEF gatewayVars
<1> QED
    BY <1>2, <1>3, <1>4, <1>7, <1>8, <1>9, <1>10, <1>11, <1>12 DEF GatewayNext

\* The gateway keeps its types: no request is at a pod that has ended, a request has its
\* own answer, and none outlives the gateway.
THEOREM GatewayTypes == GatewaySpec => []GatewayTypeOK
<1>1. GatewayInit => RequestsOk
    BY MaxStopsType DEF GatewayInit, RequestsOk, RequestOk, Nowhere
<1>2. GatewayIInv /\ RequestsOk => GatewayTypeOK
    BY MaxStopsType DEF GatewayIInv, GatewayShape, ReadyRuns, OnlyUp, RequestsOk, RequestOk,
       GatewayTypeOK, Greets
<1> QED BY GatewayInit_IInv, GatewayNext_IInv, GatewayNext_RequestsOk, <1>1, <1>2, PTL
        DEF GatewaySpec

-------------------------------------------------------------------------------
(***************************************************************************)
(* CsBooks: the row of 12348 belongs to one run at a time.                 *)
(***************************************************************************)

CsBooksSpec == CsBooksInit /\ [][CsBooksNext]_csBooksVars

\* A run, its call and the row of 12348 as the run may find it.
IsRun(r) ==
    r = [kind |-> r.kind, at |-> r.at, status |-> r.status,
         listed |-> r.listed, shown |-> r.shown, missed |-> r.missed]

IsRpc(r) ==
    \/ r = Quiet \/ r = [stage |-> "sent"] \/ r = [stage |-> "half"]
    \/ r = Reply(r.code, r.row)

BooksShape ==
    /\ books \in [{12346, 12347, 12348} -> {NoRow, Volume1, Volume2, Volume3}]
    /\ hostUp \in SUBSET {"books", "reviews"} /\ "reviews" \in hostUp
    /\ mishaps \in 0 .. MaxMishaps
    /\ "books" \notin hostUp => mishaps > 0
    /\ run = [c \in Runs |-> run[c]] /\ rpc = [c \in Runs |-> rpc[c]]
    /\ \A c \in Runs : IsRun(run[c]) /\ IsRpc(rpc[c])
    /\ HasRow <=> owner \in Runs
    /\ owner \in Runs \union {NoRow}

\* Where a run may be, and when it may have a call in flight.
InPlace(c) ==
    /\ run[c].kind \in {"books", "reviews", "none"}
    /\ run[c].status \in {"off", "running", "dead"}
    /\ run[c].status = "off" => run[c].at = 1 /\ rpc[c] = Quiet
    /\ run[c].kind = "none" => run[c].status = "off"
    /\ run[c].kind = "books" => run[c].at \in 1 .. 7
    /\ run[c].kind = "reviews" => run[c].at \in 1 .. 4
    /\ rpc[c] # Quiet => run[c].at < (IF IsBooksRun(c) THEN 7 ELSE 4)
    /\ rpc[c].stage = "half" => IsBooksRun(c) /\ run[c].at = 4

Answered(c, k) == run[c].at = k /\ rpc[c].stage = "answered" /\ rpc[c].code = "OK"

Waiting(c) == rpc[c].stage = "sent" \/ (rpc[c] = Quiet /\ run[c].status # "dead")

\* The run has made no statement of its UpdateBook.
NotUpdated(c) == run[c].at < 4 \/ (run[c].at = 4 /\ Waiting(c))

\* The row after its UpdateBook.
Updated(c) == IF "name" \in run[c].missed THEN Volume1 ELSE Volume2

\* Between the run's AddBook and its RemoveBook the row of 12348 is the run's.
Owns(c) ==
    /\ run[c].at \in 3 .. 6 /\ <<c, c>> \notin removals => owner = c
    /\ Answered(c, 2) => owner = c
    /\ <<c, c>> \in removals => run[c].at > 5 /\ ~(run[c].at = 6 /\ Waiting(c))

\* What the row holds, and what the run learns of it.
Sees(c) ==
    /\ NotUpdated(c) => run[c].missed = {}
    /\ owner = c /\ NotUpdated(c) => books[12348] = Volume1
    /\ owner = c /\ (rpc[c].stage = "half" \/ Answered(c, 4) \/ run[c].at = 5) =>
         books[12348] = Updated(c)
    /\ Answered(c, 3) => rpc[c].row = Volume1
    /\ Answered(c, 5) => rpc[c].row = Updated(c)
    /\ run[c].at > 3 => run[c].listed = Volume1
    /\ run[c].at > 5 => run[c].shown = Updated(c)

\* Beyond its AddBook nothing but a mishap ends it.
EndsByMishap(c) ==
    run[c].at > 2 =>
        /\ run[c].status = "dead" => mishaps > 0
        /\ rpc[c].stage = "answered" /\ rpc[c].code # "OK" => mishaps > 0

RunOk(c) == InPlace(c) /\ (IsBooksRun(c) => Owns(c) /\ Sees(c) /\ EndsByMishap(c))

CsBooksIInv ==
    BooksShape /\ (\A r \in removals : r[1] = r[2]) /\ (\A c \in Runs : RunOk(c))

-------------------------------------------------------------------------------

LEMMA RowsDiffer ==
    /\ Volume1 # Volume2 /\ Volume1 # NoRow /\ Volume2 # NoRow
<1>1. Volume1.name # Volume2.name
    BY DEF Volume1, Volume2, Volume
<1> QED BY <1>1, CsBooksAssumption DEF CsBooksAssumption

LEMMA RpcStages ==
    ASSUME NEW r, IsRpc(r)
    PROVE  /\ r.stage \in {"idle", "sent", "half", "answered"}
           /\ r.stage = "idle" <=> r = Quiet
           /\ r.stage = "answered" <=> r = Reply(r.code, r.row)
BY DEF IsRpc, Quiet, Reply

\* Which call of which client a handler has in hand.
LEMMA CallsInOrder ==
    ASSUME BooksShape, NEW c \in Runs, InPlace(c), rpc[c] # Quiet
    PROVE  /\ IsBooksRun(c) => run[c].at \in 1 .. 6
           /\ Doing(c) = "AddInvalid" <=> IsBooksRun(c) /\ run[c].at = 1
           /\ Doing(c) = "AddBook" <=> IsBooksRun(c) /\ run[c].at = 2
           /\ Doing(c) = "ListBooks" <=> IsBooksRun(c) /\ run[c].at = 3
           /\ Doing(c) = "UpdateBook" <=> IsBooksRun(c) /\ run[c].at = 4
           /\ Doing(c) = "GetBook" <=> IsBooksRun(c) /\ run[c].at = 5
           /\ Doing(c) = "RemoveBook" <=> IsBooksRun(c) /\ run[c].at = 6
<1>1. run[c].kind = "books" \/ run[c].kind = "reviews"
    BY DEF InPlace
<1>2. CASE run[c].kind = "books"
    <2>1. run[c].at \in 1 .. 6
        BY <1>2 DEF InPlace, IsBooksRun
    <2>2. Doing(c) = BooksProgram[run[c].at]
        BY <1>2 DEF Doing, Calls
    <2> QED BY <1>2, <2>1, <2>2 DEF BooksProgram, IsBooksRun
<1>3. CASE run[c].kind = "reviews"
    <2>1. run[c].at \in 1 .. 3
        BY <1>3 DEF InPlace, IsBooksRun
    <2>2. Doing(c) = ReviewProgram[run[c].at]
        BY <1>3 DEF Doing, Calls
    <2> QED BY <1>3, <2>1, <2>2 DEF ReviewProgram, IsBooksRun
<1> QED BY <1>1, <1>2, <1>3

\* A step that leaves a run, its call and its row alone.
LEMMA RunOkStays ==
    ASSUME NEW d \in Runs, RunOk(d), run'[d] = run[d], rpc'[d] = rpc[d],
           owner' = d => owner = d, owner = d => owner' = d \/ ~IsBooksRun(d),
           owner = d => books'[12348] = books[12348],
           <<d, d>> \in removals' <=> <<d, d>> \in removals,
           mishaps > 0 => mishaps' > 0
    PROVE  RunOk(d)'
<1>1. InPlace(d)'
    BY DEF RunOk, InPlace, IsBooksRun
<1>2. IsBooksRun(d) => Owns(d)'
    BY DEF RunOk, Owns, Answered, Waiting, IsBooksRun
<1>3. IsBooksRun(d) => Sees(d)'
    BY DEF RunOk, Sees, Answered, Waiting, IsBooksRun, NotUpdated, Updated
<1>4. IsBooksRun(d) => EndsByMishap(d)'
    BY DEF RunOk, EndsByMishap, IsBooksRun
<1> QED BY <1>1, <1>2, <1>3, <1>4 DEF RunOk, IsBooksRun

LEMMA CsBooksInit_IInv == CsBooksInit => CsBooksIInv
<1> SUFFICES ASSUME CsBooksInit PROVE CsBooksIInv
    OBVIOUS
<1>1. PICK kind \in RunKinds :
         run = [c \in Runs |-> [kind |-> kind[c], at |-> 1, status |-> "off",
                                listed |-> NoRow, shown |-> NoRow, missed |-> {}]]
    BY Zenon DEF CsBooksInit
<1>2. kind \in [Runs -> {"books", "reviews", "none"}]
    BY CsBooksAssumption DEF CsBooksAssumption, Calls
<1>3. books[12348] = NoRow /\ owner \notin Runs /\ removals = {}
    BY CsBooksAssumption DEF CsBooksInit, CsBooksAssumption, StoredBooks
<1>4. BooksShape
    <2>1. books \in [{12346, 12347, 12348} -> {NoRow, Volume1, Volume2, Volume3}]
        BY DEF CsBooksInit, StoredBooks
    <2>2. mishaps \in 0 .. MaxMishaps
        BY CsBooksAssumption DEF CsBooksAssumption, CsBooksInit
    <2>3. run = [c \in Runs |-> run[c]] /\ \A c \in Runs : IsRun(run[c])
        BY <1>1 DEF IsRun
    <2>4. rpc = [c \in Runs |-> rpc[c]] /\ \A c \in Runs : IsRpc(rpc[c])
        BY DEF CsBooksInit, IsRpc
    <2>5. hostUp = {"books", "reviews"} /\ owner = NoRow
        BY DEF CsBooksInit
    <2> QED BY <1>3, <2>1, <2>2, <2>3, <2>4, <2>5 DEF BooksShape, HasRow
<1>5. ASSUME NEW c \in Runs PROVE RunOk(c)
    <2>1. /\ run[c].kind \in {"books", "reviews", "none"} /\ run[c].at = 1
          /\ run[c].status = "off" /\ run[c].missed = {} /\ rpc[c] = Quiet
          /\ rpc[c].stage = "idle"
        BY <1>1, <1>2 DEF CsBooksInit, Quiet
    <2>2. owner # c
        BY <1>3
    <2> QED BY <1>3, <2>1, <2>2 DEF RunOk, InPlace, Owns, Sees, EndsByMishap, Answered,
                                    IsBooksRun, NotUpdated
<1> QED BY <1>3, <1>4, <1>5 DEF CsBooksIInv

-------------------------------------------------------------------------------
(* Steps of one run. *)

\* Nothing of another run changes.
Alone(c) ==
    \A d \in Runs \ {c} :
        /\ run'[d] = run[d] /\ rpc'[d] = rpc[d]
        /\ owner' = d <=> owner = d
        /\ owner = d => books'[12348] = books[12348]
        /\ <<d, d>> \in removals' <=> <<d, d>> \in removals

LEMMA OneRunMoves ==
    ASSUME CsBooksIInv, NEW c \in Runs, Alone(c), BooksShape', RunOk(c)',
           \A r \in removals' : r[1] = r[2], mishaps > 0 => mishaps' > 0
    PROVE  CsBooksIInv'
<1>1. ASSUME NEW d \in Runs \ {c} PROVE RunOk(d)'
    <2>1. d \in Runs /\ RunOk(d)
        BY DEF CsBooksIInv
    <2>2. /\ run'[d] = run[d] /\ rpc'[d] = rpc[d]
          /\ owner' = d => owner = d
          /\ owner = d => owner' = d \/ ~IsBooksRun(d)
          /\ owner = d => books'[12348] = books[12348]
          /\ <<d, d>> \in removals' <=> <<d, d>> \in removals
        BY DEF Alone
    <2> QED BY <2>1, <2>2, RunOkStays
<1> QED BY <1>1 DEF CsBooksIInv

OneRunChanges(c) ==
    /\ run' = [d \in Runs |-> run'[d]] /\ \A d \in Runs \ {c} : run'[d] = run[d]
    /\ rpc' = [d \in Runs |-> rpc'[d]] /\ \A d \in Runs \ {c} : rpc'[d] = rpc[d]

LEMMA NoRowChanges ==
    ASSUME CsBooksIInv, NEW c \in Runs, OneRunChanges(c), IsRun(run'[c]), IsRpc(rpc'[c]),
           UNCHANGED <<books, hostUp, owner, removals>>, Mishap \/ UNCHANGED mishaps, RunOk(c)'
    PROVE  CsBooksIInv'
<1>1. mishaps \in 0 .. MaxMishaps /\ mishaps' \in 0 .. MaxMishaps /\ mishaps <= mishaps'
    BY CsBooksAssumption DEF CsBooksIInv, BooksShape, Mishap, CsBooksAssumption
<1>2. BooksShape'
    BY <1>1 DEF CsBooksIInv, BooksShape, OneRunChanges, HasRow
<1>3. Alone(c)
    BY DEF Alone, OneRunChanges
<1> QED BY <1>1, <1>2, <1>3, OneRunMoves DEF CsBooksIInv

LEMMA StartRunStep ==
    ASSUME CsBooksIInv, NEW c \in Runs, StartRun(c) PROVE CsBooksIInv'
<1>1. BooksShape /\ RunOk(c) /\ run[c].status = "off" /\ run[c].kind # "none"
    BY DEF CsBooksIInv, StartRun
<1>2. /\ OneRunChanges(c) /\ rpc'[c] = rpc[c]
      /\ run'[c] = [run[c] EXCEPT !.status = "running"]
    BY <1>1 DEF StartRun, BooksShape, OneRunChanges
<1>3. run'[c] = [kind |-> run[c].kind, at |-> run[c].at, status |-> "running",
               listed |-> run[c].listed, shown |-> run[c].shown,
               missed |-> run[c].missed]
    BY <1>1, <1>2 DEF BooksShape, IsRun
<1>4. run[c].at = 1 /\ rpc[c] = Quiet /\ rpc[c].stage = "idle"
    BY <1>1 DEF RunOk, InPlace, Quiet
<1>5. RunOk(c)'
    BY <1>1, <1>2, <1>3, <1>4 DEF StartRun, RunOk, InPlace, Owns, Sees, EndsByMishap, Answered,
                        Waiting, NotUpdated, Updated, IsBooksRun
<1>6. IsRun(run'[c]) /\ IsRpc(rpc'[c])
    BY <1>2, <1>3, <1>4 DEF IsRun, IsRpc
<1> QED BY <1>2, <1>5, <1>6, NoRowChanges DEF StartRun

LEMMA MakeCallStep ==
    ASSUME CsBooksIInv, NEW c \in Runs, MakeCall(c) PROVE CsBooksIInv'
<1>1. /\ BooksShape /\ RunOk(c) /\ Active(c) /\ ~Over(c) /\ rpc[c] = Quiet
      /\ rpc[c].stage = "idle"
    BY DEF CsBooksIInv, MakeCall, Quiet
<1>2. /\ OneRunChanges(c) /\ run' = run
      /\ rpc'[c] = IF run[c].kind \in hostUp THEN [stage |-> "sent"] ELSE Reply("Unavailable", NoRow)
    BY <1>1 DEF MakeCall, SetRpc, BooksShape, OneRunChanges
<1>3. run[c].kind \in {"books", "reviews"}
    BY <1>1 DEF RunOk, InPlace, Active
<1>4. run[c].at < (IF IsBooksRun(c) THEN 7 ELSE 4)
    <2>1. Len(BooksProgram) = 6 /\ Len(ReviewProgram) = 3
        BY DEF BooksProgram, ReviewProgram
    <2>2. Len(Calls[run[c].kind]) = IF IsBooksRun(c) THEN 6 ELSE 3
        <3>1. CASE run[c].kind = "books"
            BY <3>1, <2>1 DEF Calls, IsBooksRun
        <3>2. CASE run[c].kind = "reviews"
            BY <3>2, <2>1 DEF Calls, IsBooksRun
        <3> QED BY <1>3, <3>1, <3>2
    <2>3. run[c].at \in Nat
        BY <1>1, <1>3 DEF RunOk, InPlace
    <2> QED BY <1>1, <2>2, <2>3 DEF Over
<1>5. CASE run[c].kind \in hostUp
    <2>1. rpc'[c].stage = "sent"
        BY <1>2, <1>5
    <2> QED BY <1>1, <1>2, <1>3, <1>4, <2>1, <1>5, NoRowChanges
            DEF MakeCall, RunOk, InPlace, Owns, Sees, EndsByMishap, Answered, Waiting,
                NotUpdated, Updated, IsBooksRun, Active, IsRpc, BooksShape
<1>6. CASE run[c].kind \notin hostUp
    <2>1. /\ rpc'[c] = Reply("Unavailable", NoRow) /\ rpc'[c].stage = "answered"
          /\ rpc'[c].code = "Unavailable" /\ rpc'[c].row = NoRow /\ rpc'[c] # Quiet
        BY <1>2, <1>6 DEF Reply, Quiet
    <2>2. IsBooksRun(c) /\ mishaps > 0
        BY <1>1, <1>3, <1>6 DEF BooksShape, IsBooksRun
    <2> QED BY <1>1, <1>2, <1>3, <1>4, <2>1, <2>2, NoRowChanges
            DEF MakeCall, RunOk, InPlace, Owns, Sees, EndsByMishap, Answered, Waiting,
                NotUpdated, Updated, IsBooksRun, Active, IsRpc, BooksShape
<1> QED BY <1>5, <1>6

LEMMA TakeReplyStep ==
    ASSUME CsBooksIInv, NEW c \in Runs, TakeReply(c) PROVE CsBooksIInv'
<1>1. /\ BooksShape /\ RunOk(c) /\ InPlace(c) /\ Active(c) /\ rpc[c].stage = "answered"
      /\ UNCHANGED <<books, hostUp, mishaps, owner, removals>>
    BY DEF CsBooksIInv, TakeReply, RunOk
<1>2. rpc[c] # Quiet
    BY <1>1 DEF Quiet
<1> DEFINE listed == IF Doing(c) = "ListBooks" THEN rpc[c].row ELSE run[c].listed
           shown == IF Doing(c) = "GetBook" THEN rpc[c].row ELSE run[c].shown
<1>r. run' = [run EXCEPT ![c] = AfterReply(c)] /\ rpc' = [rpc EXCEPT ![c] = Quiet]
    BY DEF TakeReply, SetRpc
<1>s. run' = [d \in Runs |-> run'[d]] /\ run'[c] = AfterReply(c)
      /\ \A d \in Runs \ {c} : run'[d] = run[d]
    BY <1>1, <1>r DEF BooksShape
<1>t. rpc' = [d \in Runs |-> rpc'[d]] /\ rpc'[c] = Quiet
      /\ \A d \in Runs \ {c} : rpc'[d] = rpc[d]
    BY <1>1, <1>r DEF BooksShape
<1>3. OneRunChanges(c) /\ rpc'[c] = Quiet /\ run'[c] = AfterReply(c)
    BY <1>s, <1>t DEF OneRunChanges
<1>u. AfterReply(c) = IF Unexpected(c) THEN [run[c] EXCEPT !.status = "dead"]
         ELSE [run[c] EXCEPT !.at = @ + 1, !.listed = listed, !.shown = shown]
    BY DEF AfterReply
<1>v. IsBooksRun(c) =>
        /\ run[c].at \in 1 .. 6
        /\ listed = IF run[c].at = 3 THEN rpc[c].row ELSE run[c].listed
        /\ shown = IF run[c].at = 5 THEN rpc[c].row ELSE run[c].shown
    BY <1>1, <1>2, CallsInOrder
<1> HIDE DEF listed, shown
<1>4. rpc'[c].stage = "idle"
    BY <1>3 DEF Quiet
<1>5. CASE Unexpected(c)
    <2>1. run'[c] = [kind |-> run[c].kind, at |-> run[c].at, status |-> "dead",
               listed |-> run[c].listed, shown |-> run[c].shown,
               missed |-> run[c].missed]
        BY <1>1, <1>3, <1>5, <1>u DEF BooksShape, IsRun
    <2>2. rpc[c].code # "OK" /\ ~(IsBooksRun(c) /\ run[c].at = 1)
        BY <1>1, <1>2, <1>5, CallsInOrder DEF Unexpected
    <2>3. IsBooksRun(c) => Owns(c)' /\ Sees(c)' /\ EndsByMishap(c)'
        BY <1>1, <1>2, <1>3, <1>4, <2>1, <2>2
        DEF RunOk, InPlace, Owns, Sees, EndsByMishap, Answered, Waiting,
                NotUpdated, Updated, IsBooksRun, Active
    <2>4. InPlace(c)'
        BY <1>1, <1>2, <1>3, <1>4, <2>1 DEF InPlace, IsBooksRun, Active
    <2>5. IsRun(run'[c]) /\ IsRpc(rpc'[c])
        BY <1>3, <2>1 DEF IsRun, IsRpc
    <2>6. RunOk(c)'
        BY <2>1, <2>3, <2>4 DEF RunOk, IsBooksRun
    <2> QED BY <1>1, <1>3, <2>5, <2>6, NoRowChanges
<1>6. CASE ~Unexpected(c)
    <2>1. run'[c] = [kind |-> run[c].kind, at |-> run[c].at + 1, status |-> run[c].status,
               listed |-> listed, shown |-> shown, missed |-> run[c].missed]
        <3>1. AfterReply(c) = [run[c] EXCEPT !.at = @ + 1, !.listed = listed, !.shown = shown]
            BY <1>6, <1>u
        <3>2. IsRun(run[c])
            BY <1>1 DEF BooksShape
        <3>3. run'[c] = [run[c] EXCEPT !.at = @ + 1, !.listed = listed, !.shown = shown]
            BY <1>3, <3>1
        <3>4. /\ DOMAIN run[c] = {"kind", "at", "status", "listed", "shown", "missed"}
              /\ run[c] = [k \in DOMAIN run[c] |-> run[c][k]]
            BY <3>2 DEF IsRun
        <3> QED BY <3>3, <3>4
    <2>2. IsBooksRun(c) => rpc[c].code = "OK" \/ run[c].at = 1
        BY <1>1, <1>2, <1>6, CallsInOrder DEF Unexpected
    <2>4. ASSUME IsBooksRun(c) PROVE Owns(c)'
        BY <1>1, <1>2, <1>3, <1>4, <2>1, <2>2, <1>v, <2>4
        DEF RunOk, InPlace, Owns, Answered, Waiting, IsBooksRun, Active
    <2>5. ASSUME IsBooksRun(c) PROVE Sees(c)'
        <3>1. /\ run[c].at \in 1 .. 6 /\ run'[c].at = run[c].at + 1
              /\ run'[c].missed = run[c].missed /\ Updated(c)' = Updated(c)
              /\ run'[c].shown = shown /\ run'[c].listed = listed
            BY <1>1, <2>1, <1>v, <2>5 DEF Updated
        <3>2. NotUpdated(c)' => NotUpdated(c) /\ run[c].at < 4
            BY <1>1, <1>3, <1>4, <3>1 DEF NotUpdated, Waiting
        <3>3. CASE run[c].at \in 1 .. 2
            BY <1>1, <1>2, <1>3, <1>4, <2>2, <1>v, <2>5, <3>1, <3>2, <3>3
            DEF RunOk, Sees, Answered
        <3>4. CASE run[c].at = 3
            BY <1>1, <1>2, <1>3, <1>4, <2>2, <1>v, <2>5, <3>1, <3>2, <3>4
            DEF RunOk, Sees, Answered
        <3>5. CASE run[c].at = 4
            BY <1>1, <1>2, <1>3, <1>4, <2>2, <1>v, <2>5, <3>1, <3>2, <3>5
            DEF RunOk, Sees, Answered
        <3>6. CASE run[c].at = 5
            BY <1>1, <1>2, <1>3, <1>4, <2>2, <1>v, <2>5, <3>1, <3>2, <3>6
            DEF RunOk, Sees, Answered
        <3>7. CASE run[c].at = 6
            BY <1>1, <1>2, <1>3, <1>4, <2>2, <1>v, <2>5, <3>1, <3>2, <3>7
            DEF RunOk, Sees, Answered
        <3> QED BY <3>1, <3>3, <3>4, <3>5, <3>6, <3>7
    <2>6. ASSUME IsBooksRun(c) PROVE EndsByMishap(c)'
        BY <1>1, <1>2, <1>3, <1>4, <2>1, <2>2, <1>v, <2>6
        DEF RunOk, EndsByMishap, IsBooksRun, Active
    <2>7. InPlace(c)'
        BY <1>1, <1>2, <1>3, <1>4, <2>1 DEF InPlace, IsBooksRun, Active
    <2>8. IsRun(run'[c]) /\ IsRpc(rpc'[c])
        BY <1>3, <2>1 DEF IsRun, IsRpc
    <2>9. RunOk(c)'
        BY <2>1, <2>4, <2>5, <2>6, <2>7 DEF RunOk, IsBooksRun
    <2> QED BY <1>1, <1>3, <2>8, <2>9, NoRowChanges
<1> QED BY <1>5, <1>6

LEMMA KillRunStep ==
    ASSUME CsBooksIInv, NEW c \in Runs, KillRun(c) PROVE CsBooksIInv'
<1>1. /\ BooksShape /\ RunOk(c) /\ InPlace(c) /\ Active(c) /\ Mishap
      /\ UNCHANGED <<books, hostUp, owner, removals>>
    BY DEF CsBooksIInv, KillRun, RunOk
<1>2. /\ OneRunChanges(c) /\ (rpc'[c] = rpc[c] \/ rpc'[c] = Quiet)
      /\ run'[c] = [run[c] EXCEPT !.status = "dead"]
    BY <1>1 DEF KillRun, SetRpc, BooksShape, OneRunChanges
<1>3. run'[c] = [kind |-> run[c].kind, at |-> run[c].at, status |-> "dead",
               listed |-> run[c].listed, shown |-> run[c].shown,
               missed |-> run[c].missed]
    BY <1>1, <1>2 DEF BooksShape, IsRun
<1>4. mishaps' > 0
    BY <1>1 DEF Mishap, BooksShape
<1>5. /\ rpc'[c].stage = rpc[c].stage \/ rpc'[c].stage = "idle"
      /\ rpc'[c].stage # "idle" => rpc'[c] = rpc[c]
      /\ rpc'[c] = Quiet => rpc'[c].stage = "idle"
    BY <1>2 DEF Quiet
<1>6. IsBooksRun(c) => Owns(c)' /\ EndsByMishap(c)'
    BY <1>1, <1>2, <1>3, <1>4, <1>5
    DEF RunOk, Owns, EndsByMishap, Answered, Waiting, IsBooksRun, Active
<1>7. IsBooksRun(c) => Sees(c)'
    BY <1>1, <1>2, <1>3, <1>5
    DEF RunOk, Sees, Answered, Waiting, NotUpdated, Updated, IsBooksRun, Active
<1>8. InPlace(c)'
    BY <1>1, <1>2, <1>3, <1>5 DEF InPlace, IsBooksRun, Active
<1>9. IsRun(run'[c]) /\ IsRpc(rpc'[c])
    BY <1>1, <1>2, <1>3 DEF IsRun, IsRpc, BooksShape
<1>10. RunOk(c)'
    BY <1>3, <1>6, <1>7, <1>8 DEF RunOk, IsBooksRun
<1> QED BY <1>1, <1>2, <1>9, <1>10, NoRowChanges

-------------------------------------------------------------------------------
(* Handlers. *)

\* A call that a handler has in hand.
LEMMA InHandFacts ==
    ASSUME CsBooksIInv, NEW c \in Runs, rpc[c].stage = "sent" \/ rpc[c].stage = "half"
    PROVE  /\ BooksShape /\ RunOk(c) /\ InPlace(c) /\ rpc[c] # Quiet
           /\ rpc[c].stage = "sent" => Waiting(c)
           /\ IsBooksRun(c) => /\ Owns(c) /\ Sees(c) /\ run[c].at \in 1 .. 6
                               /\ run[c].at \in 3 .. 6 => owner = c /\ HasRow
<1>1. BooksShape /\ RunOk(c) /\ InPlace(c) /\ rpc[c] # Quiet
    BY DEF CsBooksIInv, RunOk, Quiet
<1>2. IsBooksRun(c) => Owns(c) /\ Sees(c) /\ run[c].at \in 1 .. 6
    BY <1>1, CallsInOrder DEF RunOk
<1>3. rpc[c].stage = "half" => run[c].at = 4
    BY <1>1 DEF InPlace
<1>4. IsBooksRun(c) /\ run[c].at \in 3 .. 6 => owner = c
    BY <1>2, <1>3 DEF Owns, Waiting
<1> QED BY <1>1, <1>2, <1>4 DEF BooksShape, Waiting

\* A handler that leaves the row and the run as they are.
LEMMA AnswerStep ==
    ASSUME CsBooksIInv, NEW c \in Runs, rpc[c].stage = "sent", NEW code, NEW row,
           SetRpc(c, Reply(code, row)), UNCHANGED <<books, hostUp, run, owner, removals>>,
           Mishap \/ UNCHANGED mishaps,
           IsBooksRun(c) =>
               /\ code # "OK" /\ run[c].at > 2 => mishaps' > 0
               /\ code = "OK" => run[c].at \notin {2, 4}
               /\ code = "OK" /\ run[c].at = 3 => row = Volume1
               /\ code = "OK" /\ run[c].at = 5 => row = Updated(c)
    PROVE  CsBooksIInv'
<1>1. BooksShape /\ RunOk(c) /\ InPlace(c) /\ rpc[c] # Quiet /\ Waiting(c)
      /\ (IsBooksRun(c) => Owns(c) /\ Sees(c) /\ EndsByMishap(c) /\ run[c].at \in 1 .. 6)
    BY InHandFacts DEF RunOk
<1>2. OneRunChanges(c) /\ rpc'[c] = Reply(code, row)
    BY <1>1 DEF SetRpc, BooksShape, OneRunChanges
<1>3. /\ rpc'[c].stage = "answered" /\ rpc'[c].code = code /\ rpc'[c].row = row
      /\ rpc'[c] # Quiet
    BY <1>2 DEF Reply, Quiet
<1>4. IsBooksRun(c) => Owns(c)'
    BY <1>1, <1>3 DEF Owns, Answered, Waiting
<1>5. IsBooksRun(c) => Sees(c)'
    BY <1>1, <1>3 DEF Sees, Answered, Waiting, NotUpdated, Updated
<1>6. IsBooksRun(c) => EndsByMishap(c)'
    BY <1>1, <1>3, CsBooksAssumption DEF EndsByMishap, Mishap, BooksShape
<1>7. InPlace(c)'
    BY <1>1, <1>3 DEF InPlace, IsBooksRun
<1>8. RunOk(c)'
    BY <1>4, <1>5, <1>6, <1>7 DEF RunOk, IsBooksRun
<1>9. IsRun(run'[c]) /\ IsRpc(rpc'[c])
    BY <1>1, <1>2, <1>3 DEF IsRun, IsRpc, BooksShape
<1> QED BY <1>2, <1>8, <1>9, NoRowChanges

LEMMA ThrowsStep ==
    ASSUME CsBooksIInv, NEW c \in Runs, rpc[c].stage = "sent", Throws(c),
           UNCHANGED <<books, hostUp, run, owner, removals>>,
           Mishap \/ UNCHANGED mishaps,
           IsBooksRun(c) /\ run[c].at > 2 => mishaps' > 0
    PROVE  CsBooksIInv'
<1> DEFINE code == IF IsBooksRun(c) THEN "Aborted" ELSE "Unknown"
<1>1. SetRpc(c, Reply(code, NoRow)) /\ code # "OK"
    BY DEF Throws
<1> HIDE DEF code
<1> QED BY <1>1, AnswerStep

LEMMA QuietHandlerStep ==
    ASSUME CsBooksIInv, NEW c \in Runs,
           \/ RefuseBook(c) \/ QueryBooks(c) \/ NoSuchBook(c) \/ StatementThrows(c)
           \/ SubmitReviewsCs(c) \/ GetBookReviewsCs(c)
    PROVE  CsBooksIInv'
<1>0. rpc[c].stage = "sent"
    BY DEF RefuseBook, QueryBooks, NoSuchBook, StatementThrows, SubmitReviewsCs,
           GetBookReviewsCs, InHand
<1>1. BooksShape /\ InPlace(c) /\ rpc[c] # Quiet /\ Waiting(c)
      /\ (IsBooksRun(c) => Owns(c) /\ Sees(c) /\ run[c].at \in 1 .. 6
                           /\ (run[c].at \in 3 .. 6 => owner = c /\ HasRow))
    BY <1>0, InHandFacts
<1>2. CASE RefuseBook(c)
    <2>1. IsBooksRun(c) /\ run[c].at = 1
        BY <1>1, <1>2, CallsInOrder DEF RefuseBook, InHand
    <2> QED BY <1>0, <1>2, <2>1, ThrowsStep DEF RefuseBook
<1>3. CASE QueryBooks(c)
    <2>1. IsBooksRun(c) /\ (run[c].at = 3 \/ run[c].at = 5)
        BY <1>1, <1>3, CallsInOrder DEF QueryBooks, InHand
    <2>2. /\ run[c].at = 3 => books[12348] = Volume1
          /\ run[c].at = 5 => books[12348] = Updated(c)
        BY <1>1, <2>1 DEF Sees, NotUpdated
    <2>3. SetRpc(c, Reply("OK", books[12348]))
        BY <1>3 DEF QueryBooks, Answers
    <2> QED BY <1>0, <1>3, <2>1, <2>2, <2>3, AnswerStep DEF QueryBooks
<1>4. CASE NoSuchBook(c)
    <2>1. IsBooksRun(c) /\ (run[c].at = 5 \/ run[c].at = 6) /\ ~HasRow
        BY <1>1, <1>4, CallsInOrder DEF NoSuchBook, InHand
    <2> QED BY <1>1, <2>1
<1>5. CASE StatementThrows(c)
    <2>1. mishaps' > 0
        BY <1>1, <1>5 DEF StatementThrows, Mishap, BooksShape
    <2> QED BY <1>0, <1>5, <2>1, ThrowsStep DEF StatementThrows
<1>6. CASE SubmitReviewsCs(c) \/ GetBookReviewsCs(c)
    <2>1. ~IsBooksRun(c)
        <3>1. Doing(c) = "SubmitReviews" \/ Doing(c) = "GetBookReviews"
            BY <1>6 DEF SubmitReviewsCs, GetBookReviewsCs, InHand
        <3> QED BY <1>1, <3>1, CallsInOrder
    <2>2. PICK row : SetRpc(c, Reply("OK", row))
        BY <1>6 DEF SubmitReviewsCs, GetBookReviewsCs, Answers
    <2>3. UNCHANGED <<books, hostUp, run, owner, removals, mishaps>>
        BY <1>6 DEF SubmitReviewsCs, GetBookReviewsCs
    <2> QED BY <1>0, <2>1, <2>2, <2>3, AnswerStep
<1> QED BY <1>2, <1>3, <1>4, <1>5, <1>6

LEMMA InsertBookStep ==
    ASSUME CsBooksIInv, NEW c \in Runs, InsertBook(c) PROVE CsBooksIInv'
<1>0. rpc[c].stage = "sent"
    BY DEF InsertBook, InHand
<1>1. BooksShape /\ InPlace(c) /\ rpc[c] # Quiet /\ Waiting(c)
    BY <1>0, InHandFacts
<1>2. IsBooksRun(c) /\ run[c].at = 2 /\ UNCHANGED <<hostUp, run, mishaps, removals>>
    BY <1>1, CallsInOrder DEF InsertBook, InHand
<1>3. CASE HasRow
    BY <1>0, <1>2, <1>3, ThrowsStep DEF InsertBook
<1>4. CASE ~HasRow
    <2>1. /\ books' = [books EXCEPT ![12348] = Volume1] /\ owner' = c
          /\ SetRpc(c, Reply("OK", NoRow)) /\ owner \notin Runs
        BY <1>1, <1>4 DEF InsertBook, Answers, BooksShape
    <2>2. OneRunChanges(c) /\ rpc'[c] = Reply("OK", NoRow) /\ books'[12348] = Volume1
        BY <1>1, <1>2, <2>1 DEF SetRpc, BooksShape, OneRunChanges
    <2>3. /\ rpc'[c].stage = "answered" /\ rpc'[c].code = "OK" /\ rpc'[c] # Quiet
          /\ rpc'[c].row = NoRow
        BY <2>2 DEF Reply, Quiet
    <2>4. BooksShape'
        <3>1. books' \in [{12346, 12347, 12348} -> {NoRow, Volume1, Volume2, Volume3}]
            BY <1>1, <2>1 DEF BooksShape
        <3>2. IsRpc(rpc'[c])
            BY <2>2, <2>3 DEF IsRpc
        <3>3. HasRow' /\ owner' \in Runs
            BY <2>1, <2>2, RowsDiffer DEF HasRow
        <3> QED BY <1>1, <1>2, <2>2, <3>1, <3>2, <3>3 DEF BooksShape, OneRunChanges
    <2>5. Owns(c) /\ Sees(c)
        BY <1>0, <1>2, InHandFacts
    <2>6. Owns(c)' /\ Sees(c)' /\ EndsByMishap(c)'
        BY <1>0, <1>2, <2>1, <2>2, <2>3, <2>5
        DEF Owns, Sees, EndsByMishap, Answered, Waiting, NotUpdated, Updated
    <2>7. InPlace(c)'
        BY <1>1, <1>2, <2>3 DEF InPlace, IsBooksRun
    <2>8. Alone(c)
        BY <1>2, <2>1, <2>2 DEF Alone, OneRunChanges
    <2>9. RunOk(c)'
        BY <2>6, <2>7 DEF RunOk
    <2> QED BY <1>2, <2>4, <2>8, <2>9, OneRunMoves DEF CsBooksIInv
<1> QED BY <1>3, <1>4

LEMMA DeleteBookStep ==
    ASSUME CsBooksIInv, NEW c \in Runs, DeleteBook(c) PROVE CsBooksIInv'
<1>0. rpc[c].stage = "sent"
    BY DEF DeleteBook, InHand
<1>1. BooksShape /\ InPlace(c) /\ rpc[c] # Quiet /\ Waiting(c)
    BY <1>0, InHandFacts
<1>2. IsBooksRun(c) /\ run[c].at = 6 /\ UNCHANGED <<hostUp, run, mishaps>>
    BY <1>1, CallsInOrder DEF DeleteBook, InHand
<1>3. Owns(c) /\ Sees(c) /\ EndsByMishap(c) /\ owner = c
    BY <1>0, <1>2, InHandFacts DEF RunOk
<1>4. /\ books' = [books EXCEPT ![12348] = NoRow] /\ owner' = NoRow
      /\ removals' = removals \union {<<c, c>>} /\ SetRpc(c, Reply("OK", NoRow))
    BY <1>3 DEF DeleteBook, Answers
<1>5. OneRunChanges(c) /\ rpc'[c] = Reply("OK", NoRow) /\ books'[12348] = NoRow
    BY <1>1, <1>2, <1>4 DEF SetRpc, BooksShape, OneRunChanges
<1>6. /\ rpc'[c].stage = "answered" /\ rpc'[c].code = "OK" /\ rpc'[c] # Quiet
      /\ rpc'[c].row = NoRow
    BY <1>5 DEF Reply, Quiet
<1>7. owner' \notin Runs
    BY <1>4, CsBooksAssumption DEF CsBooksAssumption
<1>8. BooksShape'
    <2>1. books' \in [{12346, 12347, 12348} -> {NoRow, Volume1, Volume2, Volume3}]
        BY <1>1, <1>4 DEF BooksShape
    <2>2. IsRpc(rpc'[c])
        BY <1>5, <1>6 DEF IsRpc
    <2>3. ~HasRow' /\ owner' = NoRow
        BY <1>4, <1>5 DEF HasRow
    <2> QED BY <1>1, <1>2, <1>5, <1>7, <2>1, <2>2, <2>3 DEF BooksShape, OneRunChanges
<1>9. Owns(c)' /\ Sees(c)' /\ EndsByMishap(c)'
    BY <1>2, <1>3, <1>4, <1>6, <1>7
    DEF Owns, Sees, EndsByMishap, Answered, Waiting, NotUpdated, Updated
<1>10. InPlace(c)'
    BY <1>1, <1>2, <1>6 DEF InPlace, IsBooksRun
<1>11. Alone(c)
    BY <1>2, <1>3, <1>4, <1>5, <1>7 DEF Alone, OneRunChanges
<1>12. RunOk(c)'
    BY <1>9, <1>10 DEF RunOk
<1>13. \A r \in removals' : r[1] = r[2]
    BY <1>4 DEF CsBooksIInv
<1> QED BY <1>2, <1>8, <1>11, <1>12, <1>13, OneRunMoves

LEMMA RowUpdate ==
    ASSUME NEW n, NEW p, NEW v, v = [name |-> n, publisher |-> p], NEW x
    PROVE  /\ [v EXCEPT !["name"] = x] = [name |-> x, publisher |-> p]
           /\ [v EXCEPT !["publisher"] = x] = [name |-> n, publisher |-> x]
<1>1. /\ [v EXCEPT !["name"] = x] = [v EXCEPT !.name = x]
      /\ [v EXCEPT !["publisher"] = x] = [v EXCEPT !.publisher = x]
    OBVIOUS
<1>2. [v EXCEPT !.name = x] = [name |-> x, publisher |-> p]
    OBVIOUS
<1>3. [v EXCEPT !.publisher = x] = [name |-> n, publisher |-> x]
    OBVIOUS
<1> QED BY <1>1, <1>2, <1>3

\* What a statement of UpdateBook makes of a row: all volumes have one publisher.
LEMMA UpdatedRows ==
    ASSUME NEW v \in {Volume1, Volume2, Volume3}
    PROVE  /\ [v EXCEPT !["name"] = Volume2["name"]] = Volume2
           /\ [v EXCEPT !["publisher"] = Volume2["publisher"]] = v
<1> DEFINE random == "random house business books"
           atomic == "atomic habits vol-2"
<1>1. PICK n : v = [name |-> n, publisher |-> random]
    BY DEF Volume1, Volume2, Volume3, Volume
<1>2. Volume2 = [name |-> atomic, publisher |-> random]
    BY DEF Volume2, Volume
<1> HIDE DEF random, atomic
<1>3. Volume2["name"] = atomic /\ Volume2["publisher"] = random
    BY <1>2
<1>4. [v EXCEPT !["name"] = atomic] = [name |-> atomic, publisher |-> random]
    BY <1>1, RowUpdate
<1>5. [v EXCEPT !["publisher"] = random] = [name |-> n, publisher |-> random]
    BY <1>1, RowUpdate
<1>6. [v EXCEPT !["name"] = Volume2["name"]] = [v EXCEPT !["name"] = atomic]
      /\ [v EXCEPT !["publisher"] = Volume2["publisher"]] = [v EXCEPT !["publisher"] = random]
    BY <1>3, Zenon
<1> QED BY <1>1, <1>2, <1>4, <1>5, <1>6

LEMMA SetEveryRowFacts ==
    ASSUME BooksShape, NEW field \in {"name", "publisher"}, SetEveryRow(field), HasRow
    PROVE  /\ books' \in [{12346, 12347, 12348} -> {NoRow, Volume1, Volume2, Volume3}]
           /\ books'[12348] = IF field = "name" THEN Volume2 ELSE books[12348]
           /\ books'[12348] # NoRow
<1> DEFINE New(v) == [v EXCEPT ![field] = Volume2[field]]
<1>1. \A v \in {Volume1, Volume2, Volume3} : New(v) = IF field = "name" THEN Volume2 ELSE v
    BY UpdatedRows
<1>2. books' = [i \in DOMAIN books |-> IF books[i] = NoRow THEN NoRow ELSE New(books[i])]
    BY DEF SetEveryRow
<1> HIDE DEF New
<1>3. books \in [{12346, 12347, 12348} -> {NoRow, Volume1, Volume2, Volume3}]
    BY DEF BooksShape
<1>4. \A i \in {12346, 12347, 12348} :
        books[i] \in {NoRow, Volume1, Volume2, Volume3}
        /\ books'[i] = IF books[i] = NoRow THEN NoRow
                       ELSE IF field = "name" THEN Volume2 ELSE books[i]
    BY <1>1, <1>2, <1>3
<1>5. books' = [i \in {12346, 12347, 12348} |-> books'[i]]
    BY <1>2, <1>3
<1> QED BY <1>4, <1>5, RowsDiffer DEF HasRow

\* One statement of UpdateBook, which may fail.
AfterStatement(c, field) ==
    /\ books' \in [{12346, 12347, 12348} -> {NoRow, Volume1, Volume2, Volume3}]
    /\ mishaps' \in 0 .. MaxMishaps /\ mishaps <= mishaps'
    /\ run' = [d \in Runs |-> run'[d]]
    /\ \A d \in Runs \ {c} : run'[d] = run[d]
    /\ \/ /\ books'[12348] = IF field = "name" THEN Volume2 ELSE books[12348]
          /\ run'[c] = run[c]
       \/ /\ books'[12348] = books[12348]
          /\ run'[c] = [kind |-> run[c].kind, at |-> run[c].at,
                        status |-> run[c].status, listed |-> run[c].listed,
                        shown |-> run[c].shown,
                        missed |-> run[c].missed \union {field}]

LEMMA OrFailsFacts ==
    ASSUME BooksShape, NEW c \in Runs, NEW field \in {"name", "publisher"},
           OrFails(c, field), HasRow
    PROVE  AfterStatement(c, field)
<1>1. CASE SetEveryRow(field) /\ UNCHANGED <<run, mishaps>>
    BY <1>1, SetEveryRowFacts DEF BooksShape, AfterStatement
<1>2. CASE Mishap /\ run' = [run EXCEPT ![c].missed = @ \union {field}] /\ UNCHANGED books
    <2>1. mishaps' \in 0 .. MaxMishaps /\ mishaps <= mishaps'
        BY <1>2, CsBooksAssumption DEF BooksShape, Mishap, CsBooksAssumption
    <2>2. /\ run' = [d \in Runs |-> run'[d]] /\ \A d \in Runs \ {c} : run'[d] = run[d]
          /\ run'[c] = [run[c] EXCEPT !.missed = @ \union {field}]
        BY <1>2 DEF BooksShape
    <2> DEFINE missed == run[c].missed \union {field}
    <2>m. run'[c] = [run[c] EXCEPT !.missed = missed]
        BY <2>2
    <2> HIDE DEF missed
    <2>3. run'[c] = [kind |-> run[c].kind, at |-> run[c].at,
                     status |-> run[c].status, listed |-> run[c].listed,
                     shown |-> run[c].shown, missed |-> missed]
        BY <2>m DEF BooksShape, IsRun
    <2> QED BY <1>2, <2>1, <2>2, <2>3 DEF BooksShape, AfterStatement, missed
<1> QED BY <1>1, <1>2 DEF OrFails

LEMMA UpdateStep ==
    ASSUME CsBooksIInv, NEW c \in Runs, UpdateNames(c) \/ UpdatePublishers(c)
    PROVE  CsBooksIInv'
<1>0. rpc[c].stage = "sent" \/ rpc[c].stage = "half"
    BY DEF UpdateNames, UpdatePublishers, InHand
<1>1. BooksShape /\ InPlace(c) /\ rpc[c] # Quiet /\ RunOk(c)
    BY <1>0, InHandFacts
<1>2. /\ IsBooksRun(c) /\ run[c].at = 4
      /\ UNCHANGED <<hostUp, owner, removals>>
    BY <1>1, CallsInOrder DEF UpdateNames, UpdatePublishers, InHand, InPlace
<1>3. Owns(c) /\ Sees(c) /\ EndsByMishap(c) /\ owner = c /\ HasRow
    BY <1>0, <1>2, InHandFacts DEF RunOk
<1>4. PICK field \in {"name", "publisher"} :
        /\ OrFails(c, field)
        /\ \/ rpc[c].stage = "sent" /\ field = "name" /\ SetRpc(c, [stage |-> "half"])
           \/ rpc[c].stage = "half" /\ field = "publisher" /\ SetRpc(c, Reply("OK", NoRow))
    BY DEF UpdateNames, UpdatePublishers, InHand, Answers
<1>o. AfterStatement(c, field)
    BY <1>1, <1>3, <1>4, OrFailsFacts
<1>5. /\ books' \in [{12346, 12347, 12348} -> {NoRow, Volume1, Volume2, Volume3}]
      /\ mishaps' \in 0 .. MaxMishaps /\ mishaps <= mishaps'
      /\ run' = [d \in Runs |-> run'[d]]
      /\ \A d \in Runs \ {c} : run'[d] = run[d]
      /\ \/ /\ books'[12348] = IF field = "name" THEN Volume2 ELSE books[12348]
            /\ run'[c] = run[c]
         \/ /\ books'[12348] = books[12348]
            /\ run'[c] = [kind |-> run[c].kind, at |-> run[c].at,
                          status |-> run[c].status, listed |-> run[c].listed,
                          shown |-> run[c].shown,
                          missed |-> run[c].missed \union {field}]
    BY <1>o DEF AfterStatement
<1>6. /\ rpc' = [d \in Runs |-> rpc'[d]] /\ \A d \in Runs \ {c} : rpc'[d] = rpc[d]
      /\ \/ rpc[c].stage = "sent" /\ field = "name" /\ rpc'[c] = [stage |-> "half"]
         \/ rpc[c].stage = "half" /\ field = "publisher" /\ rpc'[c] = Reply("OK", NoRow)
    BY <1>1, <1>4 DEF BooksShape, SetRpc
<1>7. /\ \/ rpc[c].stage = "sent" /\ field = "name" /\ rpc'[c].stage = "half"
         \/ /\ rpc[c].stage = "half" /\ field = "publisher" /\ rpc'[c].stage = "answered"
            /\ rpc'[c].code = "OK" /\ rpc'[c].row = NoRow
      /\ rpc'[c] # Quiet /\ IsRpc(rpc'[c])
    BY <1>6 DEF Reply, Quiet, IsRpc
<1>8. /\ run'[c].kind = run[c].kind /\ run'[c].at = run[c].at
      /\ run'[c].status = run[c].status /\ run'[c].listed = run[c].listed
      /\ run'[c].shown = run[c].shown /\ IsRun(run'[c])
    BY <1>1, <1>5 DEF IsRun, BooksShape
<1>9. books'[12348] = Updated(c)'
    <2>1. CASE rpc[c].stage = "sent"
        <3>1. field = "name" /\ run[c].missed = {} /\ books[12348] = Volume1
            BY <1>2, <1>3, <1>6, <2>1 DEF Sees, NotUpdated, Waiting
        <3>2. run'[c].missed = {} \/ run'[c].missed = {"name"}
            BY <1>5, <3>1
        <3> QED BY <1>5, <3>1, <3>2 DEF Updated
    <2>2. CASE rpc[c].stage = "half"
        <3>1. field = "publisher" /\ books[12348] = Updated(c)
            BY <1>2, <1>3, <1>6, <2>2 DEF Sees
        <3>2. "name" \in run'[c].missed <=> "name" \in run[c].missed
            BY <1>5, <3>1
        <3> QED BY <1>5, <3>1, <3>2 DEF Updated
    <2> QED BY <1>0, <2>1, <2>2
<1>10. BooksShape'
    <2>1. books'[12348] # NoRow
        BY <1>9, RowsDiffer DEF Updated
    <2> QED BY <1>1, <1>2, <1>3, <1>5, <1>6, <1>7, <1>8, <2>1 DEF BooksShape, HasRow
<1>11. Owns(c)' /\ EndsByMishap(c)'
    <2>1. mishaps > 0 => mishaps' > 0
        BY <1>1, <1>5 DEF BooksShape
    <2> QED BY <1>2, <1>3, <1>7, <1>8, <2>1
            DEF Owns, EndsByMishap, Answered, Waiting
<1>12. Sees(c)'
    BY <1>2, <1>3, <1>7, <1>8, <1>9 DEF Sees, Answered, Waiting, NotUpdated
<1>13. InPlace(c)'
    BY <1>1, <1>2, <1>7, <1>8 DEF InPlace, IsBooksRun
<1>14. Alone(c)
    BY <1>2, <1>3, <1>5, <1>6 DEF Alone
<1>15. RunOk(c)'
    BY <1>11, <1>12, <1>13 DEF RunOk
<1>16. mishaps > 0 => mishaps' > 0
    BY <1>1, <1>5 DEF BooksShape
<1> QED BY <1>2, <1>10, <1>14, <1>15, <1>16, OneRunMoves DEF CsBooksIInv

-------------------------------------------------------------------------------
(* The books server ends and starts. *)

LEMMA HostStep ==
    ASSUME CsBooksIInv, HostExits \/ HostStarts PROVE CsBooksIInv'
<1>1. BooksShape
    BY DEF CsBooksIInv
<1>2. CASE HostStarts
    <2>1. BooksShape'
        BY <1>1, <1>2 DEF HostStarts, BooksShape, HasRow
    <2>2. ASSUME NEW d \in Runs PROVE RunOk(d)'
        <3>1. RunOk(d)
            BY DEF CsBooksIInv
        <3> QED BY <1>2, <3>1, RunOkStays DEF HostStarts
    <2> QED BY <1>2, <2>1, <2>2 DEF HostStarts, CsBooksIInv
<1>3. CASE HostExits
    <2>1. PICK left \in SUBSET {c \in Runs : rpc[c].stage = "answered"} :
         rpc' = [c \in Runs |-> IF IsBooksRun(c) /\ rpc[c] # Quiet /\ c \notin left
                                THEN Reply("Unavailable", NoRow) ELSE rpc[c]]
        BY <1>3 DEF HostExits
    <2>2. UNCHANGED <<books, run, owner, removals>> /\ Mishap /\ hostUp' = hostUp \ {"books"}
        BY <1>3 DEF HostExits
    <2>3. mishaps' \in 0 .. MaxMishaps /\ mishaps' > 0
        BY <1>1, <2>2, CsBooksAssumption DEF BooksShape, Mishap, CsBooksAssumption
    <2>4. BooksShape'
        <3>1. rpc' = [d \in Runs |-> rpc'[d]] /\ \A d \in Runs : IsRpc(rpc'[d])
            <4>1. IsRpc(Reply("Unavailable", NoRow))
                BY DEF IsRpc, Reply
            <4> QED BY <1>1, <2>1, <4>1 DEF BooksShape
        <3> QED BY <1>1, <2>2, <2>3, <3>1 DEF BooksShape, HasRow
    <2>5. ASSUME NEW d \in Runs PROVE RunOk(d)'
        <3>1. RunOk(d)
            BY DEF CsBooksIInv
        <3>2. CASE rpc'[d] = rpc[d]
            BY <2>2, <2>3, <3>1, <3>2, RunOkStays
        <3>3. CASE rpc'[d] # rpc[d]
            <4>1. IsBooksRun(d) /\ rpc[d] # Quiet /\ rpc'[d] = Reply("Unavailable", NoRow)
                BY <2>1, <3>3
            <4>2. /\ rpc'[d].stage = "answered" /\ rpc'[d].code = "Unavailable"
                  /\ rpc'[d].row = NoRow /\ rpc'[d] # Quiet
                BY <4>1 DEF Reply, Quiet
            <4>3. InPlace(d) /\ Owns(d) /\ Sees(d) /\ EndsByMishap(d)
                BY <3>1, <4>1 DEF RunOk
            <4>4. Owns(d)' /\ Sees(d)' /\ EndsByMishap(d)'
                BY <2>2, <2>3, <4>2, <4>3
                DEF Owns, Sees, EndsByMishap, Answered, Waiting, NotUpdated, Updated
            <4>5. InPlace(d)'
                BY <2>2, <4>1, <4>2, <4>3 DEF InPlace, IsBooksRun
            <4> QED BY <4>4, <4>5 DEF RunOk
        <3> QED BY <3>2, <3>3
    <2> QED BY <2>2, <2>4, <2>5 DEF CsBooksIInv
<1> QED BY <1>2, <1>3

LEMMA CsBooksNext_IInv == CsBooksIInv /\ [CsBooksNext]_csBooksVars => CsBooksIInv'
<1> SUFFICES ASSUME CsBooksIInv, [CsBooksNext]_csBooksVars PROVE CsBooksIInv'
    OBVIOUS
<1>1. ASSUME NEW c \in Runs,
             \/ StartRun(c) \/ MakeCall(c) \/ TakeReply(c) \/ KillRun(c)
             \/ RefuseBook(c) \/ InsertBook(c) \/ QueryBooks(c) \/ NoSuchBook(c)
             \/ DeleteBook(c) \/ UpdateNames(c) \/ UpdatePublishers(c) \/ StatementThrows(c)
             \/ SubmitReviewsCs(c) \/ GetBookReviewsCs(c)
      PROVE  CsBooksIInv'
    BY <1>1, StartRunStep, MakeCallStep, TakeReplyStep, KillRunStep, QuietHandlerStep,
       InsertBookStep, DeleteBookStep, UpdateStep
<1>2. CASE UNCHANGED csBooksVars
    <2>1. BooksShape'
        BY <1>2 DEF csBooksVars, CsBooksIInv, BooksShape, HasRow
    <2>2. ASSUME NEW d \in Runs PROVE RunOk(d)'
        BY <1>2, RunOkStays DEF csBooksVars, CsBooksIInv
    <2> QED BY <1>2, <2>1, <2>2 DEF csBooksVars, CsBooksIInv
<1> QED BY <1>1, <1>2, HostStep DEF CsBooksNext

-------------------------------------------------------------------------------

\* What the invariant leaves out.
Counts == reviewCount \in Nat /\ removals \subseteq Runs \X Runs

LEMMA CountsStep == CsBooksIInv /\ Counts /\ [CsBooksNext]_csBooksVars => Counts'
<1> SUFFICES ASSUME CsBooksIInv, Counts, [CsBooksNext]_csBooksVars PROVE Counts'
    OBVIOUS
<1>1. ASSUME NEW c \in Runs, DeleteBook(c) PROVE Counts'
    <2>1. owner \in Runs
        BY <1>1 DEF DeleteBook, CsBooksIInv, BooksShape
    <2> QED BY <1>1, <2>1 DEF DeleteBook, Counts
<1>2. ASSUME NEW c \in Runs, SubmitReviewsCs(c) PROVE Counts'
    BY <1>2 DEF SubmitReviewsCs, Counts
<1>3. ASSUME NEW c \in Runs,
             \/ StartRun(c) \/ MakeCall(c) \/ TakeReply(c) \/ KillRun(c)
             \/ RefuseBook(c) \/ InsertBook(c) \/ QueryBooks(c) \/ NoSuchBook(c)
             \/ UpdateNames(c) \/ UpdatePublishers(c) \/ StatementThrows(c)
             \/ GetBookReviewsCs(c)
      PROVE  UNCHANGED <<reviewCount, removals>>
    BY <1>3 DEF StartRun, MakeCall, TakeReply, KillRun, RefuseBook, InsertBook, QueryBooks,
       NoSuchBook, UpdateNames, UpdatePublishers, StatementThrows, GetBookReviewsCs
<1>4. CASE UNCHANGED csBooksVars \/ HostExits \/ HostStarts
    BY <1>4 DEF csBooksVars, HostExits, HostStarts, Counts
<1> QED BY <1>1, <1>2, <1>3, <1>4 DEF CsBooksNext, Counts

\* Rows, owners, servers, runs and counts have the types the code gives them, and the row
\* of 12348 is there exactly while somebody has inserted it and nobody has removed it.
THEOREM CsBooksTypes == CsBooksSpec => []CsBooksTypeOK
<1>1. CsBooksIInv /\ Counts => CsBooksTypeOK
    <2> SUFFICES ASSUME CsBooksIInv, Counts PROVE CsBooksTypeOK
        OBVIOUS
    <2>1. BooksShape /\ \A c \in Runs : InPlace(c)
        BY DEF CsBooksIInv, RunOk
    <2>2. ASSUME NEW c \in Runs
          PROVE  /\ run[c].kind \in {"books", "reviews", "none"}
                 /\ run[c].status \in {"off", "running", "dead"}
                 /\ run[c].kind # "none" => run[c].at \in 1 .. Len(Calls[run[c].kind]) + 1
                 /\ run[c].kind = "none" => rpc[c] = Quiet
        <3>1. Len(BooksProgram) = 6 /\ Len(ReviewProgram) = 3
            BY DEF BooksProgram, ReviewProgram
        <3>2. InPlace(c)
            BY <2>1
        <3>3. CASE run[c].kind = "books"
            <4>1. Calls[run[c].kind] = BooksProgram
                BY <3>3 DEF Calls
            <4>2. Len(Calls[run[c].kind]) + 1 = 7
                <5>1. Len(Calls[run[c].kind]) = 6
                    BY <3>1, <4>1, Zenon
                <5> QED BY <5>1
            <4>3. run[c].at \in 1 .. 7
                BY <3>2, <3>3 DEF InPlace
            <4> QED BY <3>2, <3>3, <4>2, <4>3 DEF InPlace
        <3>4. CASE run[c].kind = "reviews"
            <4>1. Calls[run[c].kind] = ReviewProgram
                BY <3>4 DEF Calls
            <4>2. Len(Calls[run[c].kind]) + 1 = 4
                <5>1. Len(Calls[run[c].kind]) = 3
                    BY <3>1, <4>1, Zenon
                <5> QED BY <5>1
            <4>3. run[c].at \in 1 .. 4
                BY <3>2, <3>4 DEF InPlace
            <4> QED BY <3>2, <3>4, <4>2, <4>3 DEF InPlace
        <3>5. CASE run[c].kind = "none"
            BY <3>2, <3>5 DEF InPlace
        <3> QED BY <3>2, <3>3, <3>4, <3>5 DEF InPlace
    <2> QED BY <2>1, <2>2 DEF BooksShape, Counts, CsBooksTypeOK
<1>2. CsBooksInit => Counts
    BY DEF CsBooksInit, Counts
<1> QED BY CsBooksInit_IInv, CsBooksNext_IInv, CountsStep, <1>1, <1>2, PTL DEF CsBooksSpec

\* The primary key keeps the runs of the C# client apart: from AddBook to RemoveBook the
\* row is that of one run, which lists, updates, is shown and removes its own book, and
\* which nothing but a mishap ends on its way, for any number of runs and mishaps.
THEOREM RunsKeepApart == CsBooksSpec => []RowBelongsToItsRun
<1>1. CsBooksIInv => RowBelongsToItsRun
    <2> SUFFICES ASSUME CsBooksIInv, NEW c \in Runs, IsBooksRun(c)
                 PROVE  /\ run[c].at \in 3 .. 6 /\ <<c, c>> \notin removals => owner = c
                        /\ run[c].at > 3 => run[c].listed = Volume1
                        /\ run[c].at > 5 =>
                             run[c].shown = IF "name" \in run[c].missed THEN Volume1 ELSE Volume2
                        /\ run[c].at > 2 /\ run[c].status = "dead" => mishaps > 0
        BY DEF RowBelongsToItsRun, CsBooksIInv
    <2>1. Owns(c) /\ Sees(c) /\ EndsByMishap(c)
        BY DEF CsBooksIInv, RunOk
    <2> QED BY <2>1 DEF Owns, Sees, EndsByMishap, Updated
<1> QED BY CsBooksInit_IInv, CsBooksNext_IInv, <1>1, PTL DEF CsBooksSpec

-------------------------------------------------------------------------------
(* CsStreams: sums that wrap, the numbers that arrive, and sequences.            *)

\* The right-hand side of the equation that defines Arrivals.
ArrivalsStep(s, lost, g, k) ==
    IF k = 0 THEN <<>> ELSE IF k \in lost THEN g[k - 1] ELSE Append(g[k - 1], s[k])

\* The equation has a solution.
LEMMA ArrivalsEquation ==
    ASSUME NEW s \in Seq(Int), NEW lost
    PROVE  Arrivals(s, lost) =
             [k \in 0 .. Len(s) |-> ArrivalsStep(s, lost, Arrivals(s, lost), k)]
<1> DEFINE Solves(g, n) == g = [k \in 0 .. n |-> ArrivalsStep(s, lost, g, k)]
           T == {n \in Nat : \E g : Solves(g, n)}
<1>1. 0 \in T
    <2> DEFINE g == [k \in 0 .. 0 |-> <<>>]
    <2>1. \A k \in 0 .. 0 : ArrivalsStep(s, lost, g, k) = <<>>
        BY DEF ArrivalsStep
    <2>2. Solves(g, 0)
        BY <2>1
    <2> QED BY <2>2
<1>2. ASSUME NEW n \in T PROVE n + 1 \in T
    <2>1. PICK g : Solves(g, n)
        BY <1>2
    <2> DEFINE h == [k \in 0 .. n + 1 |-> IF k <= n THEN g[k]
                        ELSE IF k \in lost THEN g[n] ELSE Append(g[n], s[k])]
    <2>2. ASSUME NEW k \in 0 .. n + 1 PROVE h[k] = ArrivalsStep(s, lost, h, k)
        <3>1. CASE k <= n
            <4>1. g[k] = ArrivalsStep(s, lost, g, k)
                <5>1. k \in 0 .. n
                    BY <1>2, <3>1
                <5> QED BY <2>1, <5>1
            <4>2. k # 0 => h[k - 1] = g[k - 1]
                BY <3>1
            <4>3. h[k] = g[k]
                BY <3>1
            <4> HIDE DEF h
            <4> QED BY <4>1, <4>2, <4>3 DEF ArrivalsStep
        <3>2. CASE k = n + 1
            <4>1. h[k - 1] = g[n] /\ k # 0
                BY <1>2, <3>2
            <4>2. h[k] = IF k \in lost THEN g[n] ELSE Append(g[n], s[k])
                BY <1>2, <3>2
            <4> HIDE DEF h
            <4> QED BY <4>1, <4>2 DEF ArrivalsStep
        <3> QED BY <3>1, <3>2
    <2>3. h = [k \in 0 .. n + 1 |-> h[k]]
        OBVIOUS
    <2> HIDE DEF h
    <2>4. Solves(h, n + 1)
        BY <2>2, <2>3
    <2> QED BY <1>2, <2>4
<1>3. Len(s) \in T
    <2> HIDE DEF T
    <2>1. T = Nat
        BY <1>1, <1>2, SetInduction DEF T
    <2> QED BY <2>1
<1>4. PICK g : Solves(g, Len(s))
    BY <1>3
<1> QED BY <1>4 DEF Arrivals, ArrivalsStep

LEMMA ArrivalsValues ==
    ASSUME NEW s \in Seq(Int), NEW lost
    PROVE  /\ Arrivals(s, lost)[0] = <<>>
           /\ \A k \in 1 .. Len(s) :
                Arrivals(s, lost)[k] = IF k \in lost THEN Arrivals(s, lost)[k - 1]
                                       ELSE Append(Arrivals(s, lost)[k - 1], s[k])
<1>1. ASSUME NEW k \in 0 .. Len(s)
      PROVE  Arrivals(s, lost)[k] = ArrivalsStep(s, lost, Arrivals(s, lost), k)
    BY ArrivalsEquation
<1> QED BY <1>1 DEF ArrivalsStep

LEMMA ArrivalsTypes ==
    ASSUME NEW s \in Seq(Int), NEW lost, NEW n \in 0 .. Len(s)
    PROVE  Arrivals(s, lost)[n] \in Seq(Int)
<1> DEFINE T == {k \in Nat : k <= Len(s) => Arrivals(s, lost)[k] \in Seq(Int)}
<1>1. 0 \in T
    <2>1. <<>> \in Seq(Int)
        OBVIOUS
    <2>2. Arrivals(s, lost)[0] \in Seq(Int)
        BY <2>1, ArrivalsValues
    <2> QED BY <2>2
<1>2. ASSUME NEW k \in T PROVE k + 1 \in T
    <2> SUFFICES ASSUME k + 1 <= Len(s) PROVE Arrivals(s, lost)[k + 1] \in Seq(Int)
        OBVIOUS
    <2>1. k + 1 \in 1 .. Len(s) /\ Arrivals(s, lost)[k] \in Seq(Int) /\ s[k + 1] \in Int
          /\ k + 1 - 1 = k
        BY <1>2
    <2>2. Arrivals(s, lost)[k + 1] = IF k + 1 \in lost THEN Arrivals(s, lost)[k]
                                     ELSE Append(Arrivals(s, lost)[k], s[k + 1])
        BY <2>1, ArrivalsValues
    <2> QED BY <2>1, <2>2
<1>3. T = Nat
    <2> HIDE DEF T
    <2> QED BY <1>1, <1>2, SetInduction DEF T
<1> QED BY <1>3

\* What is lost later was not there before.
LEMMA ArrivalsBefore ==
    ASSUME NEW s \in Seq(Int), NEW lost, NEW more, NEW n \in 0 .. Len(s),
           \A i \in 1 .. n : i \in lost <=> i \in more
    PROVE  Arrivals(s, lost)[n] = Arrivals(s, more)[n]
<1> DEFINE T == {k \in Nat : k <= n => Arrivals(s, lost)[k] = Arrivals(s, more)[k]}
<1>1. 0 \in T
    BY ArrivalsValues
<1>2. ASSUME NEW k \in T PROVE k + 1 \in T
    <2> SUFFICES ASSUME k + 1 <= n PROVE Arrivals(s, lost)[k + 1] = Arrivals(s, more)[k + 1]
        OBVIOUS
    <2>1. k + 1 \in 1 .. Len(s) /\ k + 1 \in 1 .. n /\ k + 1 - 1 = k
          /\ Arrivals(s, lost)[k] = Arrivals(s, more)[k]
        BY <1>2
    <2>2. \A x \in {lost, more} :
            Arrivals(s, x)[k + 1] = IF k + 1 \in x THEN Arrivals(s, x)[k]
                                    ELSE Append(Arrivals(s, x)[k], s[k + 1])
        BY <2>1, ArrivalsValues
    <2> QED BY <2>1, <2>2
<1>3. T = Nat
    <2> HIDE DEF T
    <2> QED BY <1>1, <1>2, SetInduction DEF T
<1> QED BY <1>3

\* When nothing is lost all arrives.
LEMMA ArrivalsOfAll ==
    ASSUME NEW s \in Seq(Int), NEW n \in 0 .. Len(s), NEW lost,
           \A i \in 1 .. Len(s) : i \notin lost
    PROVE  /\ Len(Arrivals(s, lost)[n]) = n
           /\ \A i \in 1 .. n : Arrivals(s, lost)[n][i] = s[i]
<1>0. \A j \in 1 .. Len(s) :
         Arrivals(s, lost)[j] = Append(Arrivals(s, lost)[j - 1], s[j])
    <2> SUFFICES ASSUME NEW j \in 1 .. Len(s)
                 PROVE  Arrivals(s, lost)[j] = Append(Arrivals(s, lost)[j - 1], s[j])
        OBVIOUS
    <2>1. \A k \in 1 .. Len(s) :
            Arrivals(s, lost)[k] = IF k \in lost THEN Arrivals(s, lost)[k - 1]
                                   ELSE Append(Arrivals(s, lost)[k - 1], s[k])
        BY ArrivalsValues, Zenon
    <2> QED BY <2>1, Zenon
<1> DEFINE A(k) == Arrivals(s, lost)[k]
           T == {k \in Nat : k <= Len(s) =>
                    Len(A(k)) = k /\ \A i \in 1 .. k : A(k)[i] = s[i]}
<1>1. 0 \in T
    <2>1. A(0) = <<>>
        BY ArrivalsValues
    <2> QED BY <2>1
<1>2. ASSUME NEW k \in T PROVE k + 1 \in T
    <2> SUFFICES ASSUME k + 1 <= Len(s)
                 PROVE  Len(A(k + 1)) = k + 1 /\ \A i \in 1 .. k + 1 : A(k + 1)[i] = s[i]
        OBVIOUS
    <2>1. /\ k \in Nat /\ k + 1 \in 1 .. Len(s) /\ k \in 0 .. Len(s) /\ k + 1 - 1 = k
          /\ s[k + 1] \in Int
        BY <1>2
    <2>2. A(k) \in Seq(Int) /\ Len(A(k)) = k /\ \A i \in 1 .. k : A(k)[i] = s[i]
        BY <1>2, <2>1, ArrivalsTypes
    <2>3. A(k + 1) = Append(A(k), s[k + 1])
        <3>1. A(k + 1) = Append(A((k + 1) - 1), s[k + 1])
            BY <1>0, <2>1, Zenon
        <3> HIDE DEF A
        <3> QED BY <2>1, <3>1
    <2> HIDE DEF A
    <2>4. /\ Len(Append(A(k), s[k + 1])) = k + 1
          /\ \A i \in 1 .. k : Append(A(k), s[k + 1])[i] = A(k)[i]
          /\ Append(A(k), s[k + 1])[k + 1] = s[k + 1]
        BY <2>1, <2>2
    <2>5. ASSUME NEW i \in 1 .. k + 1 PROVE A(k + 1)[i] = s[i]
        <3>1. i \in 1 .. k \/ i = k + 1
            BY <2>1
        <3> QED BY <2>2, <2>3, <2>4, <3>1
    <2> QED BY <2>3, <2>4, <2>5
<1>3. T = Nat
    <2> HIDE DEF T
    <2> QED BY <1>1, <1>2, SetInduction DEF T
<1> QED BY <1>3

LEMMA RemainderIsUnique ==
    ASSUME NEW M \in Nat \ {0}, NEW a \in Int, NEW c \in Int, NEW u \in 0 .. M - 1,
           a = M * c + u
    PROVE  a % M = u
<1> DEFINE d == a \div M  v == a % M
<1>1. d \in Int /\ v \in 0 .. M - 1 /\ a = M * d + v
    OBVIOUS
<1> HIDE DEF d, v
<1>2. \A x, y \in Int : x < y => M * x + M <= M * y
    <2>1. ASSUME NEW x \in Int, NEW y \in Int, x < y PROVE M * x + M <= M * y
        <3>1. y = x + (y - x) /\ y - x >= 1
            BY <2>1
        <3>2. M * y = M * x + M * (y - x)
            OBVIOUS
        <3>3. M * (y - x) >= M
            BY <3>1
        <3> QED BY <3>2, <3>3
    <2> QED BY <2>1
<1>3. ~(c < d) /\ ~(d < c)
    <2> DEFINE e == M * c  f == M * d
    <2>1. e \in Int /\ f \in Int /\ e + u = f + v
        BY <1>1
    <2>2. (c < d => e + M <= f) /\ (d < c => f + M <= e)
        BY <1>1, <1>2
    <2> HIDE DEF e, f
    <2> QED BY <1>1, <2>1, <2>2
<1>4. c = d
    BY <1>1, <1>3
<1>5. u = v
    BY <1>1, <1>4
<1> QED BY <1>5 DEF v

\* A sum that wraps at every number is the sum, wrapped once.
LEMMA SumsWrap ==
    ASSUME NEW a \in Int, NEW n \in Int
    PROVE  ToInt32(ToInt32(a) + n) = ToInt32(a + n)
<1> DEFINE M == 2 * Int32Bound
           x == a + Int32Bound
           r == x % M
           q == x \div M
<1>1. M \in Nat /\ M > 0 /\ x \in Int
    BY Int32Assumption
<1> HIDE DEF M, x
<1>2. q \in Int /\ r \in Int /\ x = M * q + r
    BY <1>1
<1> HIDE DEF q, r
<1>3. (r + n) % M = (x + n) % M
    <2>1. x + n = (r + n) + M * q
        BY <1>1, <1>2
    <2> DEFINE y == r + n  u == y % M  c == y \div M
    <2>2. y \in Int /\ c \in Int /\ u \in 0 .. M - 1 /\ y = M * c + u
        BY <1>1, <1>2
    <2> HIDE DEF y, u, c
    <2>3. M * (c + q) = M * c + M * q /\ M * c \in Int /\ M * q \in Int
        BY <1>1, <1>2, <2>2
    <2>4. x + n = M * (c + q) + u /\ x + n \in Int /\ c + q \in Int
        BY <1>1, <1>2, <2>1, <2>2, <2>3 DEF y
    <2>5. (x + n) % M = u
        <3>1. M \in Nat \ {0}
            BY <1>1
        <3> QED BY <2>2, <2>4, <3>1, RemainderIsUnique
    <2> QED BY <2>5 DEF u, y
<1> QED BY <1>1, <1>2, <1>3, Int32Assumption DEF ToInt32, M, x, r

\* Sequences that lose their head to another one, or get a new last element.
LEMMA HeadMoves ==
    ASSUME NEW S, NEW p \in Seq(S), NEW q \in Seq(S), q # <<>>
    PROVE  Append(p, Head(q)) \o Tail(q) = p \o q
<1>1. /\ Head(q) = q[1] /\ q[1] \in S /\ Tail(q) \in Seq(S) /\ Len(Tail(q)) = Len(q) - 1
      /\ \A i \in 1 .. Len(q) - 1 : Tail(q)[i] = q[i + 1]
      /\ Len(p) \in Nat /\ Len(q) \in Nat /\ Len(q) > 0
    OBVIOUS
<1> DEFINE a == Append(p, Head(q))  t == Tail(q)
<1>2. /\ a \in Seq(S) /\ Len(a) = Len(p) + 1 /\ a[Len(p) + 1] = q[1]
      /\ \A i \in 1 .. Len(p) : a[i] = p[i]
    BY <1>1
<1> HIDE DEF a, t
<1>3. Len(a \o t) = Len(p \o q)
    BY <1>1, <1>2 DEF t
<1>4. ASSUME NEW i \in 1 .. Len(a \o t) PROVE (a \o t)[i] = (p \o q)[i]
    <2>1. CASE i <= Len(p)
        BY <1>1, <1>2, <1>3, <2>1 DEF t
    <2>2. CASE i = Len(p) + 1
        BY <1>1, <1>2, <1>3, <2>2 DEF t
    <2>3. CASE i > Len(p) + 1
        <3> DEFINE j == i - Len(p) - 1
        <3>1. j \in 1 .. Len(q) - 1 /\ i = Len(a) + j /\ i = Len(p) + (j + 1)
            BY <1>1, <1>2, <1>3, <2>3
        <3> HIDE DEF j
        <3>2. (a \o t)[i] = t[j]
            BY <1>1, <1>2, <3>1 DEF t
        <3>3. (p \o q)[i] = q[j + 1]
            BY <1>1, <3>1
        <3> QED BY <1>1, <3>1, <3>2, <3>3 DEF t
    <2>4. i <= Len(p) \/ i = Len(p) + 1 \/ i > Len(p) + 1
        <3>1. i \in Int /\ Len(p) \in Int
            BY <1>1
        <3> QED BY <3>1
    <2> QED BY <2>1, <2>2, <2>3, <2>4
<1>5. a \o t \in Seq(S) /\ p \o q \in Seq(S)
    BY <1>1, <1>2 DEF t
<1>6. a \o t = p \o q
    BY <1>3, <1>4, <1>5
<1> QED BY <1>6 DEF a, t

LEMMA HeadStays ==
    ASSUME NEW S, NEW q \in Seq(S), q # <<>>
    PROVE  <<Head(q)>> \o Tail(q) = q
<1>1. Append(<<>>, Head(q)) \o Tail(q) = <<>> \o q
    <2>1. <<>> \in Seq(S)
        OBVIOUS
    <2> QED BY <2>1, HeadMoves
<1>2. Append(<<>>, Head(q)) = <<Head(q)>>
    OBVIOUS
<1>3. <<>> \o q = q
    OBVIOUS
<1> QED BY <1>1, <1>2, <1>3

LEMMA AppendToEnd ==
    ASSUME NEW S, NEW p \in Seq(S), NEW q \in Seq(S), NEW e \in S
    PROVE  p \o Append(q, e) = Append(p \o q, e)
<1> DEFINE a == Append(q, e)  b == p \o q
<1>1. /\ a \in Seq(S) /\ Len(a) = Len(q) + 1 /\ a[Len(q) + 1] = e
      /\ \A i \in 1 .. Len(q) : a[i] = q[i]
      /\ b \in Seq(S) /\ Len(b) = Len(p) + Len(q)
      /\ \A i \in 1 .. Len(b) : b[i] = IF i <= Len(p) THEN p[i] ELSE q[i - Len(p)]
      /\ Len(p) \in Nat /\ Len(q) \in Nat
    OBVIOUS
<1> HIDE DEF a, b
<1>2. /\ p \o a \in Seq(S) /\ Append(b, e) \in Seq(S)
      /\ Len(p \o a) = Len(p) + Len(q) + 1 /\ Len(Append(b, e)) = Len(p) + Len(q) + 1
      /\ Append(b, e)[Len(b) + 1] = e
    BY <1>1
<1>3. ASSUME NEW i \in 1 .. Len(p) + Len(q) + 1 PROVE (p \o a)[i] = Append(b, e)[i]
    <2>1. CASE i <= Len(p)
        BY <1>1, <2>1
    <2>2. CASE i > Len(p) /\ i <= Len(p) + Len(q)
        <3>1. (p \o a)[i] = a[i - Len(p)] /\ i - Len(p) \in 1 .. Len(q)
            BY <1>1, <2>2
        <3>2. Append(b, e)[i] = b[i] /\ b[i] = q[i - Len(p)]
            BY <1>1, <2>2
        <3> QED BY <1>1, <3>1, <3>2
    <2>3. CASE i = Len(p) + Len(q) + 1
        <3>1. (p \o a)[i] = a[i - Len(p)] /\ i - Len(p) = Len(q) + 1
            BY <1>1, <2>3
        <3>2. i = Len(b) + 1
            BY <1>1, <2>3
        <3>3. Append(b, e)[i] = e
            BY <1>2, <3>2
        <3> QED BY <1>1, <3>1, <3>3
    <2>4. i \in Nat /\ i <= Len(p) + Len(q) + 1
        BY <1>1
    <2> QED BY <1>1, <2>1, <2>2, <2>3, <2>4
<1>4. p \o a = Append(b, e)
    <2> DEFINE x == p \o a  y == Append(b, e)
    <2>1. x \in Seq(S) /\ y \in Seq(S) /\ Len(x) = Len(y) /\ \A i \in 1 .. Len(x) : x[i] = y[i]
        BY <1>2, <1>3
    <2> HIDE DEF x, y
    <2>2. x = y
        BY <2>1
    <2> QED BY <2>2 DEF x, y
<1> QED BY <1>4 DEF a, b

\* Where the elements of a concatenation are.
LEMMA InConcat ==
    ASSUME NEW S, NEW p \in Seq(S), NEW q \in Seq(S)
    PROVE  /\ p \o q \in Seq(S) /\ Len(p \o q) = Len(p) + Len(q)
           /\ DOMAIN (p \o q) = 1 .. Len(p) + Len(q)
           /\ \A i \in 1 .. Len(p) : (p \o q)[i] = p[i]
           /\ \A i \in 1 .. Len(q) : Len(p) + i \in DOMAIN (p \o q) /\ (p \o q)[Len(p) + i] = q[i]
<1>1. Len(p) \in Nat /\ Len(q) \in Nat
    OBVIOUS
<1>2. p \o q \in Seq(S) /\ Len(p \o q) = Len(p) + Len(q)
    OBVIOUS
<1>3. DOMAIN (p \o q) = 1 .. Len(p) + Len(q)
    BY <1>1, <1>2
<1>4. ASSUME NEW i \in 1 .. Len(q)
      PROVE  Len(p) + i \in DOMAIN (p \o q) /\ (p \o q)[Len(p) + i] = q[i]
    BY <1>1, <1>3
<1> QED BY <1>1, <1>2, <1>3, <1>4

-------------------------------------------------------------------------------
(* CsStreams: the inductive invariant.                                           *)

CsStreamsSpec == CsStreamsInit /\ [][CsStreamsNext]_callVars

IsProgram(r) ==
    r = [at |-> r.at, written |-> r.written, lost |-> r.lost, completed |-> r.completed,
         printed |-> r.printed]

IsWay(r) == r = [queue |-> r.queue, writing |-> r.writing, closed |-> r.closed]

IsMethod(r) ==
    r = [at |-> r.at, count |-> r.count, sum |-> r.sum, max |-> r.max,
         isResponding |-> r.isResponding, refused |-> r.refused, asleep |-> r.asleep]

IsTask(r) == r = [at |-> r.at, value |-> r.value, refused |-> r.refused]

CsShape ==
    /\ args \in [Programs -> Args]
    /\ program = [p \in Programs |-> program[p]]
    /\ requestStream = [p \in Programs |-> requestStream[p]]
    /\ responseStream = [p \in Programs |-> responseStream[p]]
    /\ method = [p \in Programs |-> method[p]]
    /\ respondTask = [p \in Programs |-> respondTask[p]]
    /\ \A p \in Programs :
         /\ IsProgram(program[p]) /\ IsWay(requestStream[p]) /\ IsWay(responseStream[p])
         /\ IsMethod(method[p]) /\ IsTask(respondTask[p])

\* Where a call may be.
CallOk(p) ==
    /\ program[p].at \in {"off", "open", "done", "failed", "cancelled", "dead"}
    /\ method[p].at \in {"none", "running", "waiting", "OK", "error"}
    /\ respondTask[p].at \in {"none", "check", "sleep", "write", "ended", "faulted"}
    /\ program[p].at = "off" <=> method[p].at = "none"
    /\ program[p].at = "done" => method[p].at = "OK" /\ responseStream[p].queue = <<>>
    /\ method[p].at = "waiting" => KindOf(p) = "max"
    /\ KindOf(p) # "max" => respondTask[p].at = "none"
    /\ program[p].completed \in BOOLEAN /\ method[p].asleep \in BOOLEAN
    /\ KindOf(p) \notin {"average", "max"} => program[p].lost = {}
    /\ KindOf(p) # "async" => method[p].refused = {}

\* A call that has not begun.
Fresh(p) ==
    program[p].at = "off" =>
        /\ program[p].written = 0 /\ program[p].lost = {} /\ ~program[p].completed
        /\ program[p].printed = <<>>
        /\ requestStream[p] = Stream /\ responseStream[p] = Stream
        /\ method[p].count = 0 /\ method[p].sum = 0 /\ method[p].max = 0
        /\ method[p].refused = {} /\ respondTask[p].at = "none"

\* What a program has written, and what of it was refused.
Written(p) ==
    KindOf(p) \in {"average", "max"} =>
        /\ program[p].written \in 0 .. Len(args[p].numbers)
        /\ program[p].lost \subseteq 2 .. program[p].written
        /\ program[p].written = 0 => ~requestStream[p].writing
        /\ program[p].completed => program[p].written = Len(args[p].numbers)
        /\ requestStream[p].closed => program[p].completed
        /\ KindOf(p) = "average" => program[p].lost = {}

\* The numbers of the method and the numbers in its queue are those that arrive.
Read(p) ==
    KindOf(p) \in {"average", "max"} =>
        /\ method[p].count \in Nat
        /\ requestStream[p].queue \in Seq(Int)
        /\ method[p].count + Len(requestStream[p].queue) = Len(Delivered(p))
        /\ \A i \in 1 .. Len(requestStream[p].queue) :
             requestStream[p].queue[i] = Delivered(p)[method[p].count + i]

\* One response: printed, or on its way.
Once(p, v) ==
    /\ method[p].at \in {"none", "running", "error"} =>
         program[p].printed = <<>> /\ responseStream[p].queue = <<>>
    /\ method[p].at = "OK" =>
         \/ program[p].printed = <<>> /\ responseStream[p].queue = <<v>>
         \/ program[p].printed = <<v>> /\ responseStream[p].queue = <<>>

SumUpTo(p, n) == Sums(args[p].numbers)[n]

CsAverageOk(p) ==
    KindOf(p) = "average" =>
        /\ method[p].sum = ToInt32(SumUpTo(p, method[p].count))
        /\ method[p].at = "OK" => method[p].count = Len(args[p].numbers) /\ method[p].count > 0
        /\ Once(p, Quotient(method[p].sum, method[p].count))

FirstFibs(n) == [k \in 1 .. n |-> ToInt32(fib[k - 1])]

CsSyncOk(p) == KindOf(p) = "sync" => Once(p, FirstFibs(args[p].number))

AsyncResponses == {AsyncResponse(i) : i \in Nat}

\* What a program has printed, or will.
Shown(p) == program[p].printed \o responseStream[p].queue

CsAsyncOk(p) ==
    KindOf(p) = "async" =>
        /\ program[p].printed \in Seq(AsyncResponses)
        /\ responseStream[p].queue \in Seq(AsyncResponses)
        /\ method[p].count \in Nat
        /\ method[p].count > 0 => method[p].count <= args[p].number
        /\ method[p].refused \subseteq 1 .. method[p].count - 1
        /\ method[p].count = 0 => ~responseStream[p].writing
        /\ method[p].at = "OK" => method[p].count >= args[p].number
        /\ ~Cancelled(p) =>
             {Shown(p)[k].sequence : k \in DOMAIN Shown(p)}
               = (0 .. method[p].count - 1) \ method[p].refused
        /\ \A k \in DOMAIN Shown(p) :
             /\ Shown(p)[k] = AsyncResponse(Shown(p)[k].sequence)
             /\ Shown(p)[k].sequence \in 0 .. method[p].count - 1
             /\ \A j \in 1 .. k - 1 : Shown(p)[j].sequence < Shown(p)[k].sequence

\* A report of FindMax.
Report(p, m) == m \in Int /\ \E k \in 0 .. method[p].count : IsMaxOfFirst(p, m, k)

CsMaxOk(p) ==
    KindOf(p) = "max" =>
        /\ method[p].max \in Int /\ IsMaxOfFirst(p, method[p].max, method[p].count)
        /\ program[p].printed \in Seq(Int) /\ Len(program[p].printed) <= 1
        /\ responseStream[p].queue \in Seq(Int)
        /\ \A i \in DOMAIN Shown(p) :
             /\ Report(p, Shown(p)[i]) /\ Shown(p)[i] <= method[p].max
             /\ \A j \in 1 .. i : Shown(p)[j] <= Shown(p)[i]
        /\ respondTask[p].at = "write" =>
             /\ Report(p, respondTask[p].value) /\ respondTask[p].value <= method[p].max
             /\ \A i \in DOMAIN Shown(p) : Shown(p)[i] <= respondTask[p].value

\* The last report of FindMax.
LastOk(p) ==
    KindOf(p) = "max" =>
        /\ method[p].at \in {"none", "running"} => method[p].isResponding /\ ~method[p].asleep
        /\ method[p].at = "OK" => respondTask[p].at = "ended"
        /\ method[p].at \in {"waiting", "OK"} =>
             /\ ~method[p].isResponding /\ program[p].completed
             /\ method[p].count = Len(Delivered(p))
        /\ method[p].at \in {"waiting", "OK"} /\ method[p].asleep /\ ~Cancelled(p) =>
             /\ respondTask[p].at = "write" => respondTask[p].value = method[p].max
             /\ respondTask[p].at \in {"check", "ended"} /\ ~respondTask[p].refused =>
                  Shown(p) # <<>> /\ Shown(p)[Len(Shown(p))] = method[p].max

CsStreamOk(p) ==
    /\ CallOk(p) /\ Fresh(p) /\ Written(p) /\ Read(p)
    /\ CsAverageOk(p) /\ CsSyncOk(p) /\ CsAsyncOk(p) /\ CsMaxOk(p) /\ LastOk(p)

CsStreamsIInv == CsShape /\ \A p \in Programs : CsStreamOk(p)

\* The numbers of a program are int32.
LEMMA CsNumbers ==
    ASSUME CsShape, NEW p \in Programs
    PROVE  /\ KindOf(p) \in {"average", "sync", "async", "max", "none"}
           /\ KindOf(p) \in {"average", "max"} =>
                /\ args[p].numbers \in Seq(Int)
                /\ \A k \in 1 .. Len(args[p].numbers) : IsInt32(args[p].numbers[k])
           /\ KindOf(p) \in {"sync", "async"} => args[p].number \in Int
<1>1. args[p] \in Arg
    BY CsStreamsAssumption DEF CsShape, CsStreamsAssumption
<1> DEFINE N == {n \in Int : IsInt32(n)}
<1>2. ASSUME NEW s \in Seq(N)
      PROVE  s \in Seq(Int) /\ \A k \in 1 .. Len(s) : IsInt32(s[k])
    <2>1. \A k \in 1 .. Len(s) : s[k] \in N
        OBVIOUS
    <2> QED BY <2>1
<1>3. KindOf(p) \in {"average", "max"} => args[p].numbers \in Seq(N)
    BY <1>1 DEF Arg, KindOf
<1>4. /\ KindOf(p) \in {"average", "sync", "async", "max", "none"}
      /\ KindOf(p) \in {"sync", "async"} => args[p].number \in Int
    BY <1>1 DEF Arg, KindOf
<1> QED BY <1>2, <1>3, <1>4

LEMMA CsStreamsInit_IInv == CsStreamsInit => CsStreamsIInv
<1> SUFFICES ASSUME CsStreamsInit PROVE CsStreamsIInv
    OBVIOUS
<1>1. CsShape
    BY DEF CsStreamsInit, CsShape, IsProgram, IsWay, IsMethod, IsTask, Stream
<1>2. ASSUME NEW p \in Programs PROVE CsStreamOk(p)
    <2>1. /\ program[p].at = "off" /\ program[p].written = 0 /\ program[p].lost = {}
          /\ program[p].completed = FALSE /\ program[p].printed = <<>>
          /\ requestStream[p] = Stream /\ responseStream[p] = Stream
          /\ method[p].at = "none" /\ method[p].count = 0 /\ method[p].sum = 0
          /\ method[p].max = 0 /\ method[p].isResponding = TRUE
          /\ method[p].refused = {} /\ method[p].asleep = FALSE
          /\ respondTask[p].at = "none"
        BY DEF CsStreamsInit
    <2>2. Stream.queue = <<>> /\ Stream.writing = FALSE /\ Stream.closed = FALSE
        BY DEF Stream
    <2>3. CallOk(p)
        BY <2>1 DEF CallOk
    <2>4. Fresh(p)
        BY <2>1 DEF Fresh
    <2>5. KindOf(p) \in {"average", "max"} => args[p].numbers \in Seq(Int)
        BY CsNumbers, <1>1
    <2>6. Written(p)
        BY <2>1, <2>2, <2>5 DEF Written
    <2>7. KindOf(p) \in {"average", "max"} => Delivered(p) = <<>>
        BY <2>1, <2>5, ArrivalsValues DEF Delivered
    <2>8. Read(p)
        BY <2>1, <2>2, <2>7 DEF Read
    <2>9. CsAverageOk(p)
        <3>1. KindOf(p) = "average" => SumUpTo(p, 0) = 0
            BY <2>5, SumsValues DEF SumUpTo
        <3> QED BY <2>1, <2>2, <3>1, Int32Assumption DEF CsAverageOk, ToInt32, Once
    <2>10. CsSyncOk(p)
        BY <2>1, <2>2 DEF CsSyncOk, Once
    <2>11. CsAsyncOk(p)
        <3>1. Shown(p) = <<>> /\ <<>> \in Seq(AsyncResponses)
            BY <2>1, <2>2 DEF Shown
        <3> QED BY <2>1, <2>2, <3>1 DEF CsAsyncOk
    <2>12. CsMaxOk(p)
        <3>1. Shown(p) = <<>>
            BY <2>1, <2>2 DEF Shown
        <3>2. IsMaxOfFirst(p, 0, 0)
            BY DEF IsMaxOfFirst
        <3> QED BY <2>1, <2>2, <3>1, <3>2 DEF CsMaxOk
    <2>13. LastOk(p)
        BY <2>1 DEF LastOk
    <2> QED BY <2>3, <2>4, <2>6, <2>8, <2>9, <2>10, <2>11, <2>12, <2>13 DEF CsStreamOk
<1> QED BY <1>1, <1>2 DEF CsStreamsIInv

LEMMA DeliveredStays ==
    ASSUME NEW p, args'[p] = args[p], program'[p].written = program[p].written,
           program'[p].lost = program[p].lost
    PROVE  Delivered(p)' = Delivered(p)
BY DEF Delivered, Arrivals

LEMMA WrittenStays ==
    ASSUME NEW p, args' = args, Written(p),
           program'[p].written = program[p].written, program'[p].lost = program[p].lost,
           program'[p].completed = program[p].completed,
           requestStream'[p].writing => requestStream[p].writing,
           requestStream'[p].closed => requestStream[p].closed
    PROVE  Written(p)'
BY DEF Written, KindOf

LEMMA ReadStays ==
    ASSUME NEW p, args' = args, Read(p),
           program'[p].written = program[p].written, program'[p].lost = program[p].lost,
           method'[p].count = method[p].count,
           requestStream'[p].queue = requestStream[p].queue
    PROVE  Read(p)'
<1>1. Delivered(p)' = Delivered(p)
    BY DeliveredStays
<1> QED BY <1>1 DEF Read, KindOf

LEMMA AverageStays ==
    ASSUME NEW p, args' = args, CsAverageOk(p),
           KindOf(p) = "average" =>
             /\ method'[p].at = method[p].at /\ method'[p].count = method[p].count
             /\ method'[p].sum = method[p].sum
             /\ program'[p].printed = program[p].printed
             /\ responseStream'[p].queue = responseStream[p].queue
    PROVE  CsAverageOk(p)'
<1> SUFFICES ASSUME KindOf(p) = "average" PROVE CsAverageOk(p)'
    BY DEF CsAverageOk, KindOf
<1> QED BY DEF CsAverageOk, Once, SumUpTo, Sums, ToInt32, Quotient, KindOf

LEMMA SyncStays ==
    ASSUME NEW p, args' = args, CsSyncOk(p),
           KindOf(p) = "sync" =>
             /\ method'[p].at = method[p].at
             /\ program'[p].printed = program[p].printed
             /\ responseStream'[p].queue = responseStream[p].queue
    PROVE  CsSyncOk(p)'
<1> SUFFICES ASSUME KindOf(p) = "sync" PROVE CsSyncOk(p)'
    BY DEF CsSyncOk, KindOf
<1> QED BY DEF CsSyncOk, Once, FirstFibs, KindOf, ToInt32

LEMMA AsyncStays ==
    ASSUME NEW p, args' = args, CsAsyncOk(p),
           KindOf(p) = "async" =>
             /\ method'[p].at = "OK" => method[p].at = "OK"
             /\ method'[p].count = method[p].count
             /\ method'[p].refused = method[p].refused
             /\ responseStream'[p].writing => responseStream[p].writing
             /\ program'[p].printed \in Seq(AsyncResponses)
             /\ responseStream'[p].queue \in Seq(AsyncResponses)
             /\ program'[p].printed \o responseStream'[p].queue = Shown(p)
             /\ Cancelled(p) => Cancelled(p)'
    PROVE  CsAsyncOk(p)'
<1> SUFFICES ASSUME KindOf(p) = "async" PROVE CsAsyncOk(p)'
    BY DEF CsAsyncOk, KindOf
<1>1. Shown(p)' = Shown(p)
    BY DEF Shown
<1>2. AsyncResponses' = AsyncResponses /\ \A i : AsyncResponse(i)' = AsyncResponse(i)
    BY DEF AsyncResponses, AsyncResponse, ToInt32
<1> QED BY <1>1, <1>2 DEF CsAsyncOk, KindOf, Cancelled, AsyncResponse, AsyncResponses, ToInt32

LEMMA MaxOkStays ==
    ASSUME NEW p, args' = args, CsMaxOk(p),
           KindOf(p) = "max" =>
             /\ method'[p].max = method[p].max /\ method'[p].count = method[p].count
             /\ program'[p].written = program[p].written /\ program'[p].lost = program[p].lost
             /\ program'[p].printed = program[p].printed
             /\ responseStream'[p].queue = responseStream[p].queue
             /\ respondTask'[p].at = "write" =>
                  respondTask[p].at = "write" /\ respondTask'[p].value = respondTask[p].value
    PROVE  CsMaxOk(p)'
<1> SUFFICES ASSUME KindOf(p) = "max" PROVE CsMaxOk(p)'
    BY DEF CsMaxOk, KindOf
<1>1. Delivered(p)' = Delivered(p)
    BY DeliveredStays
<1>2. Shown(p)' = Shown(p)
    BY DEF Shown
<1>3. \A m : Report(p, m) => Report(p, m)'
    BY <1>1 DEF Report, IsMaxOfFirst
<1>4. IsMaxOfFirst(p, method[p].max, method[p].count)' <=>
        IsMaxOfFirst(p, method[p].max, method[p].count)
    BY <1>1 DEF IsMaxOfFirst
<1>5. IsMaxOfFirst(p, method[p].max, method[p].count)'
    BY <1>4 DEF CsMaxOk
<1>6. /\ method[p].max \in Int
      /\ program[p].printed \in Seq(Int) /\ Len(program[p].printed) <= 1
      /\ responseStream[p].queue \in Seq(Int)
    BY DEF CsMaxOk
<1>7. \A i \in DOMAIN Shown(p) :
             /\ Report(p, Shown(p)[i])' /\ Shown(p)[i] <= method[p].max
             /\ \A j \in 1 .. i : Shown(p)[j] <= Shown(p)[i]
    BY <1>2, <1>3 DEF CsMaxOk
<1> QED BY <1>2, <1>3, <1>5, <1>6, <1>7 DEF CsMaxOk, KindOf

LEMMA LastStays ==
    ASSUME NEW p, args' = args, LastOk(p),
           KindOf(p) = "max" =>
             /\ method'[p].at = method[p].at /\ method'[p].isResponding = method[p].isResponding
             /\ method'[p].asleep = method[p].asleep /\ method'[p].max = method[p].max
             /\ method'[p].count = method[p].count
             /\ program'[p].written = program[p].written /\ program'[p].lost = program[p].lost
             /\ program[p].completed => program'[p].completed
             /\ Cancelled(p) => Cancelled(p)'
             /\ respondTask'[p] = respondTask[p]
             /\ Shown(p)' = Shown(p)
    PROVE  LastOk(p)'
<1> SUFFICES ASSUME KindOf(p) = "max" PROVE LastOk(p)'
    BY DEF LastOk, KindOf
<1>1. Delivered(p)' = Delivered(p)
    BY DeliveredStays
<1> QED BY <1>1 DEF LastOk, KindOf, Cancelled

\* A program whose entries do not change.
LEMMA CsStays ==
    ASSUME NEW p, CsStreamOk(p), args' = args,
           UNCHANGED <<program[p], requestStream[p], responseStream[p], method[p],
                       respondTask[p]>>
    PROVE  CsStreamOk(p)'
<1>1. /\ CallOk(p) /\ Fresh(p) /\ Written(p) /\ Read(p)
      /\ CsAverageOk(p) /\ CsSyncOk(p) /\ CsAsyncOk(p) /\ CsMaxOk(p) /\ LastOk(p)
    BY DEF CsStreamOk
<1>2. CallOk(p)' /\ Fresh(p)'
    BY <1>1 DEF CallOk, Fresh, KindOf, Stream
<1>3. Written(p)' /\ Read(p)' /\ CsAverageOk(p)' /\ CsSyncOk(p)' /\ CsMaxOk(p)'
    BY <1>1, WrittenStays, ReadStays, AverageStays, SyncStays, MaxOkStays
<1>4. CsAsyncOk(p)'
    BY <1>1, AsyncStays DEF CsAsyncOk, Shown, Cancelled
<1>5. LastOk(p)'
    BY <1>1, LastStays DEF Shown, Cancelled
<1> QED BY <1>2, <1>3, <1>4, <1>5 DEF CsStreamOk

-------------------------------------------------------------------------------
(* CsStreams: one step of one program.                                            *)

\* A step changes the entries of one program at most.
OneCall(p) ==
    /\ args' = args
    /\ program' = [q \in Programs |-> program'[q]]
    /\ requestStream' = [q \in Programs |-> requestStream'[q]]
    /\ responseStream' = [q \in Programs |-> responseStream'[q]]
    /\ method' = [q \in Programs |-> method'[q]]
    /\ respondTask' = [q \in Programs |-> respondTask'[q]]
    /\ \A q \in Programs \ {p} :
         UNCHANGED <<program[q], requestStream[q], responseStream[q], method[q], respondTask[q]>>
    /\ IsProgram(program'[p]) /\ IsWay(requestStream'[p]) /\ IsWay(responseStream'[p])
    /\ IsMethod(method'[p]) /\ IsTask(respondTask'[p])

LEMMA OneCallIInv ==
    ASSUME CsStreamsIInv, NEW p \in Programs, OneCall(p), CsStreamOk(p)'
    PROVE  CsStreamsIInv'
<1>1. CsShape'
    BY DEF CsStreamsIInv, CsShape, OneCall
<1>2. ASSUME NEW q \in Programs PROVE CsStreamOk(q)'
    BY CsStays DEF CsStreamsIInv, OneCall
<1> QED BY <1>1, <1>2 DEF CsStreamsIInv

LEMMA CsParts ==
    ASSUME CsStreamsIInv, NEW p \in Programs
    PROVE  /\ CsShape /\ CallOk(p) /\ Fresh(p) /\ Written(p) /\ Read(p)
           /\ CsAverageOk(p) /\ CsSyncOk(p) /\ CsAsyncOk(p) /\ CsMaxOk(p) /\ LastOk(p)
BY DEF CsStreamsIInv, CsStreamOk

\* What an EXCEPT does to the entry of a program.
LEMMA ProgramMoves ==
    ASSUME CsShape, NEW p \in Programs, NEW at, SetProgram(p, at),
           UNCHANGED <<args, requestStream, responseStream, method, respondTask>>
    PROVE  /\ OneCall(p)
           /\ program'[p].at = at /\ program'[p].written = program[p].written
           /\ program'[p].lost = program[p].lost /\ program'[p].completed = program[p].completed
           /\ program'[p].printed = program[p].printed
<1>1. /\ program' = [q \in Programs |-> program'[q]]
      /\ \A q \in Programs \ {p} : program'[q] = program[q]
      /\ program'[p] = [program[p] EXCEPT !.at = at]
    BY DEF CsShape, SetProgram
<1>2. program'[p] =
         [at |-> at, written |-> program[p].written, lost |-> program[p].lost,
          completed |-> program[p].completed, printed |-> program[p].printed]
    BY <1>1 DEF CsShape, IsProgram
<1> QED BY <1>1, <1>2 DEF CsShape, OneCall, IsProgram

LEMMA MethodMoves ==
    ASSUME CsShape, NEW p \in Programs, NEW at, SetMethod(p, at)
    PROVE  /\ method' = [q \in Programs |-> method'[q]]
           /\ \A q \in Programs \ {p} : method'[q] = method[q]
           /\ IsMethod(method'[p])
           /\ method'[p].at = at /\ method'[p].count = method[p].count
           /\ method'[p].sum = method[p].sum /\ method'[p].max = method[p].max
           /\ method'[p].isResponding = method[p].isResponding
           /\ method'[p].refused = method[p].refused /\ method'[p].asleep = method[p].asleep
<1>1. /\ method' = [q \in Programs |-> method'[q]]
      /\ \A q \in Programs \ {p} : method'[q] = method[q]
      /\ method'[p] = [method[p] EXCEPT !.at = at]
    BY DEF CsShape, SetMethod
<1>2. method'[p] =
         [at |-> at, count |-> method[p].count, sum |-> method[p].sum, max |-> method[p].max,
          isResponding |-> method[p].isResponding, refused |-> method[p].refused,
          asleep |-> method[p].asleep]
    BY <1>1 DEF CsShape, IsMethod
<1> QED BY <1>1, <1>2 DEF IsMethod

\* A program ends, or turns to reading only.
LEMMA ProgramEnds ==
    ASSUME CsStreamsIInv, NEW p \in Programs, NEW at, SetProgram(p, at), Opened(p),
           UNCHANGED <<args, requestStream, responseStream, method, respondTask>>,
           at \in {"done", "failed", "cancelled", "dead"},
           at = "done" => method[p].at = "OK" /\ responseStream[p].queue = <<>>
    PROVE  CsStreamsIInv'
<1>1. /\ CsShape /\ CallOk(p) /\ Fresh(p) /\ Written(p) /\ Read(p)
      /\ CsAverageOk(p) /\ CsSyncOk(p) /\ CsAsyncOk(p) /\ CsMaxOk(p) /\ LastOk(p)
    BY CsParts
<1>2. /\ OneCall(p)
      /\ program'[p].at = at /\ program'[p].written = program[p].written
      /\ program'[p].lost = program[p].lost /\ program'[p].completed = program[p].completed
      /\ program'[p].printed = program[p].printed
    BY <1>1, ProgramMoves
<1>3. ~Cancelled(p)
    BY DEF Cancelled, Opened
<1>4. CallOk(p)' /\ Fresh(p)'
    BY <1>1, <1>2 DEF CallOk, Fresh, KindOf, Opened
<1>5. Written(p)' /\ Read(p)' /\ CsAverageOk(p)' /\ CsSyncOk(p)' /\ CsMaxOk(p)'
    BY <1>1, <1>2, WrittenStays, ReadStays, AverageStays, SyncStays, MaxOkStays
<1>6. CsAsyncOk(p)'
    BY <1>1, <1>2, <1>3, AsyncStays DEF CsAsyncOk, Shown
<1>7. LastOk(p)'
    BY <1>1, <1>2, <1>3, LastStays DEF Shown
<1> QED BY <1>2, <1>4, <1>5, <1>6, <1>7, OneCallIInv DEF CsStreamOk

LEMMA ProgramEndsIInv ==
    ASSUME CsStreamsIInv, NEW p \in Programs, ReadStatus(p) \/ CancelAsync(p) \/ KillProgram(p)
    PROVE  CsStreamsIInv'
<1>1. CASE ReadStatus(p)
    BY <1>1, ProgramEnds DEF ReadStatus
<1>2. CASE CancelAsync(p)
    BY <1>2, ProgramEnds DEF CancelAsync
<1>3. CASE KillProgram(p)
    BY <1>3, ProgramEnds DEF KillProgram
<1> QED BY <1>1, <1>2, <1>3

\* The end of a write.
LEMMA WriteEndsIInv ==
    ASSUME CsStreamsIInv, NEW p \in Programs, RequestWriteEnds(p) \/ ResponseWriteEnds(p)
    PROVE  CsStreamsIInv'
<1>1. /\ CsShape /\ CallOk(p) /\ Fresh(p) /\ Written(p) /\ Read(p)
      /\ CsAverageOk(p) /\ CsSyncOk(p) /\ CsAsyncOk(p) /\ CsMaxOk(p) /\ LastOk(p)
    BY CsParts
<1>2. /\ UNCHANGED <<args, program, method, respondTask>> /\ OneCall(p)
      /\ requestStream'[p].queue = requestStream[p].queue
      /\ requestStream'[p].closed = requestStream[p].closed
      /\ responseStream'[p].queue = responseStream[p].queue
      /\ requestStream'[p].writing => requestStream[p].writing
      /\ responseStream'[p].writing => responseStream[p].writing
      /\ program[p].at # "off"
    <2>0. program[p].at # "off"
        BY <1>1 DEF Fresh, Stream, RequestWriteEnds, ResponseWriteEnds
    <2>1. CASE RequestWriteEnds(p)
        <3>1. /\ UNCHANGED <<args, program, responseStream, method, respondTask>>
              /\ requestStream' = [q \in Programs |-> requestStream'[q]]
              /\ \A q \in Programs \ {p} : requestStream'[q] = requestStream[q]
              /\ requestStream'[p] = [requestStream[p] EXCEPT !.writing = FALSE]
            BY <1>1, <2>1 DEF RequestWriteEnds, CsShape
        <3>2. requestStream'[p] = [queue |-> requestStream[p].queue, writing |-> FALSE,
                                   closed |-> requestStream[p].closed]
            BY <1>1, <3>1 DEF CsShape, IsWay
        <3> QED BY <1>1, <2>0, <3>1, <3>2 DEF CsShape, OneCall, IsWay
    <2>2. CASE ResponseWriteEnds(p)
        <3>1. /\ UNCHANGED <<args, program, requestStream, method, respondTask>>
              /\ responseStream' = [q \in Programs |-> responseStream'[q]]
              /\ \A q \in Programs \ {p} : responseStream'[q] = responseStream[q]
              /\ responseStream'[p] = [responseStream[p] EXCEPT !.writing = FALSE]
            BY <1>1, <2>2 DEF ResponseWriteEnds, CsShape
        <3>2. responseStream'[p] = [queue |-> responseStream[p].queue, writing |-> FALSE,
                                    closed |-> responseStream[p].closed]
            BY <1>1, <3>1 DEF CsShape, IsWay
        <3> QED BY <1>1, <2>0, <3>1, <3>2 DEF CsShape, OneCall, IsWay
    <2> QED BY <2>1, <2>2
<1>4. CallOk(p)' /\ Fresh(p)'
    BY <1>1, <1>2 DEF CallOk, Fresh, KindOf
<1>5. Written(p)' /\ Read(p)' /\ CsAverageOk(p)' /\ CsSyncOk(p)' /\ CsMaxOk(p)'
    BY <1>1, <1>2, WrittenStays, ReadStays, AverageStays, SyncStays, MaxOkStays
<1>6. CsAsyncOk(p)'
    BY <1>1, <1>2, AsyncStays DEF CsAsyncOk, Shown, Cancelled
<1>7. LastOk(p)'
    BY <1>1, <1>2, LastStays DEF Shown, Cancelled
<1> QED BY <1>2, <1>4, <1>5, <1>6, <1>7, OneCallIInv DEF CsStreamOk

LEMMA CallMethodIInv ==
    ASSUME CsStreamsIInv, NEW p \in Programs, CallMethod(p) PROVE CsStreamsIInv'
<1>1. /\ CsShape /\ CallOk(p) /\ Fresh(p) /\ Written(p) /\ Read(p)
      /\ CsAverageOk(p) /\ CsSyncOk(p) /\ CsAsyncOk(p) /\ CsMaxOk(p) /\ LastOk(p)
    BY CsParts
<1>2. /\ UNCHANGED <<args, requestStream, responseStream>>
      /\ program[p].at = "off" /\ SetProgram(p, "open") /\ SetMethod(p, "running")
    BY DEF CallMethod
<1> DEFINE at == IF KindOf(p) = "max" THEN "check" ELSE "none"
<1>3. /\ program' = [q \in Programs |-> program'[q]]
      /\ \A q \in Programs \ {p} : program'[q] = program[q]
      /\ program'[p] =
           [at |-> "open", written |-> program[p].written, lost |-> program[p].lost,
            completed |-> program[p].completed, printed |-> program[p].printed]
    <2>1. /\ program' = [q \in Programs |-> program'[q]]
          /\ \A q \in Programs \ {p} : program'[q] = program[q]
          /\ program'[p] = [program[p] EXCEPT !.at = "open"]
        BY <1>1, <1>2 DEF CsShape, SetProgram
    <2> QED BY <1>1, <2>1 DEF CsShape, IsProgram
<1>4. /\ respondTask' = [q \in Programs |-> respondTask'[q]]
      /\ \A q \in Programs \ {p} : respondTask'[q] = respondTask[q]
      /\ respondTask'[p] = [at |-> at, value |-> respondTask[p].value,
                            refused |-> respondTask[p].refused]
    <2>1. respondTask' = [respondTask EXCEPT ![p].at = at]
        BY DEF CallMethod
    <2> HIDE DEF at
    <2>2. /\ respondTask' = [q \in Programs |-> respondTask'[q]]
          /\ \A q \in Programs \ {p} : respondTask'[q] = respondTask[q]
          /\ respondTask'[p] = [respondTask[p] EXCEPT !.at = at]
        BY <1>1, <2>1 DEF CsShape
    <2> QED BY <1>1, <2>2 DEF CsShape, IsTask
<1>5. /\ method' = [q \in Programs |-> method'[q]]
      /\ \A q \in Programs \ {p} : method'[q] = method[q]
      /\ IsMethod(method'[p])
      /\ method'[p].at = "running" /\ method'[p].count = method[p].count
      /\ method'[p].sum = method[p].sum /\ method'[p].max = method[p].max
      /\ method'[p].isResponding = method[p].isResponding
      /\ method'[p].refused = method[p].refused /\ method'[p].asleep = method[p].asleep
    BY <1>1, <1>2, MethodMoves
<1>6. OneCall(p)
    BY <1>1, <1>2, <1>3, <1>4, <1>5 DEF CsShape, OneCall, IsProgram, IsTask
<1>7. method[p].at = "none" /\ ~Cancelled(p)
    BY <1>1, <1>2 DEF CallOk, Cancelled
<1>8. CallOk(p)' /\ Fresh(p)'
    BY <1>1, <1>2, <1>3, <1>4, <1>5 DEF CallOk, Fresh, KindOf
<1>9. Written(p)' /\ Read(p)' /\ CsMaxOk(p)'
    BY <1>1, <1>2, <1>3, <1>4, <1>5, WrittenStays, ReadStays, MaxOkStays
<1>10. CsSyncOk(p)'
    BY <1>1, <1>2, <1>3, <1>5, <1>7 DEF CsSyncOk, KindOf, Once
<1>11. CsAverageOk(p)'
    <2>1. SumUpTo(p, method[p].count)' = SumUpTo(p, method[p].count)
        BY <1>2, <1>5 DEF SumUpTo, Sums, ToInt32
    <2> QED BY <1>1, <1>2, <1>3, <1>5, <1>7, <2>1 DEF CsAverageOk, KindOf, Once, ToInt32
<1>12. CsAsyncOk(p)'
    <2>1. program'[p].printed = program[p].printed /\ responseStream'[p] = responseStream[p]
        BY <1>2, <1>3
    <2>2. KindOf(p) = "async" =>
             /\ program[p].printed \in Seq(AsyncResponses)
             /\ responseStream[p].queue \in Seq(AsyncResponses)
        BY <1>1 DEF CsAsyncOk
    <2> QED BY <1>1, <1>2, <1>5, <1>7, <2>1, <2>2, AsyncStays DEF Shown
<1>13. LastOk(p)'
    BY <1>1, <1>2, <1>3, <1>4, <1>5, <1>7 DEF LastOk, KindOf
<1> QED BY <1>6, <1>8, <1>9, <1>10, <1>11, <1>12, <1>13, OneCallIInv DEF CsStreamOk

LEMMA CompleteAsyncIInv ==
    ASSUME CsStreamsIInv, NEW p \in Programs, CompleteAsync(p) PROVE CsStreamsIInv'
<1>1. /\ CsShape /\ CallOk(p) /\ Fresh(p) /\ Written(p) /\ Read(p)
      /\ CsAverageOk(p) /\ CsSyncOk(p) /\ CsAsyncOk(p) /\ CsMaxOk(p) /\ LastOk(p)
    BY CsParts
<1>2. /\ UNCHANGED <<args, responseStream, method, respondTask>>
      /\ program[p].at = "open" /\ program[p].written = Len(args[p].numbers)
    BY DEF CompleteAsync, SendsNumbers, Opened
<1>3. /\ program' = [q \in Programs |-> program'[q]]
      /\ \A q \in Programs \ {p} : program'[q] = program[q]
      /\ program'[p] =
           [at |-> "open", written |-> program[p].written, lost |-> program[p].lost,
            completed |-> TRUE, printed |-> program[p].printed]
    <2>1. /\ program' = [q \in Programs |-> program'[q]]
          /\ \A q \in Programs \ {p} : program'[q] = program[q]
          /\ program'[p] = [program[p] EXCEPT !.completed = TRUE]
        BY <1>1 DEF CsShape, CompleteAsync
    <2> QED BY <1>1, <1>2, <2>1 DEF CsShape, IsProgram
<1> DEFINE closed == ~requestStream[p].writing
<1>4. /\ requestStream' = [q \in Programs |-> requestStream'[q]]
      /\ \A q \in Programs \ {p} : requestStream'[q] = requestStream[q]
      /\ requestStream'[p] =
           [queue |-> requestStream[p].queue, writing |-> requestStream[p].writing,
            closed |-> closed]
    <2>1. requestStream' = [requestStream EXCEPT ![p].closed = closed]
        BY DEF CompleteAsync
    <2> HIDE DEF closed
    <2>2. /\ requestStream' = [q \in Programs |-> requestStream'[q]]
          /\ \A q \in Programs \ {p} : requestStream'[q] = requestStream[q]
          /\ requestStream'[p] = [requestStream[p] EXCEPT !.closed = closed]
        BY <1>1, <2>1 DEF CsShape
    <2> QED BY <1>1, <2>2 DEF CsShape, IsWay
<1> HIDE DEF closed
<1>5. OneCall(p)
    BY <1>1, <1>2, <1>3, <1>4 DEF CsShape, OneCall, IsProgram, IsWay
<1>6. ~Cancelled(p) /\ ~Cancelled(p)'
    BY <1>2, <1>3 DEF Cancelled
<1>7. CallOk(p)' /\ Fresh(p)'
    BY <1>1, <1>2, <1>3 DEF CallOk, Fresh, KindOf
<1>8. Written(p)'
    BY <1>1, <1>2, <1>3, <1>4 DEF Written, KindOf
<1>9. Read(p)' /\ CsMaxOk(p)' /\ CsAverageOk(p)' /\ CsSyncOk(p)'
    BY <1>1, <1>2, <1>3, <1>4, ReadStays, MaxOkStays, AverageStays, SyncStays
<1>10. /\ program'[p].printed = program[p].printed /\ program'[p].completed
      /\ program'[p].written = program[p].written /\ program'[p].lost = program[p].lost
    BY <1>3
<1>11. CsAsyncOk(p)'
    <2>1. KindOf(p) = "async" =>
             /\ program[p].printed \in Seq(AsyncResponses)
             /\ responseStream[p].queue \in Seq(AsyncResponses)
        BY <1>1 DEF CsAsyncOk
    <2> QED BY <1>1, <1>2, <1>6, <1>10, <2>1, AsyncStays DEF Shown
<1>12. LastOk(p)'
    <2>1. Shown(p)' = Shown(p)
        BY <1>2, <1>10 DEF Shown
    <2> QED BY <1>1, <1>2, <1>6, <1>10, <2>1, LastStays
<1> QED BY <1>5, <1>7, <1>8, <1>9, <1>11, <1>12, OneCallIInv DEF CsStreamOk

\* A step of the task of FindMax.
LEMMA TaskMoves ==
    ASSUME CsStreamsIInv, NEW p \in Programs,
           UNCHANGED <<args, program, requestStream, responseStream, method>>,
           respondTask[p].at # "none",
           respondTask' = [q \in Programs |-> respondTask'[q]],
           \A q \in Programs \ {p} : respondTask'[q] = respondTask[q],
           IsTask(respondTask'[p]), respondTask'[p].at \in {"sleep", "write", "ended", "faulted"},
           CsMaxOk(p)', LastOk(p)'
    PROVE  CsStreamsIInv'
<1>1. /\ CsShape /\ CallOk(p) /\ Fresh(p) /\ Written(p) /\ Read(p)
      /\ CsAverageOk(p) /\ CsSyncOk(p) /\ CsAsyncOk(p)
    BY CsParts
<1>2. OneCall(p)
    BY <1>1 DEF CsShape, OneCall
<1>3. KindOf(p) = "max" /\ program[p].at # "off"
    BY <1>1 DEF CallOk, Fresh
<1>4. CallOk(p)' /\ Fresh(p)'
    BY <1>1, <1>3 DEF CallOk, Fresh, KindOf
<1>5. Written(p)' /\ Read(p)' /\ CsAverageOk(p)' /\ CsSyncOk(p)'
    BY <1>1, WrittenStays, ReadStays, AverageStays, SyncStays
<1>6. CsAsyncOk(p)'
    BY <1>3 DEF CsAsyncOk, KindOf
<1> QED BY <1>2, <1>4, <1>5, <1>6, OneCallIInv DEF CsStreamOk

LEMMA RespondLoopIInv ==
    ASSUME CsStreamsIInv, NEW p \in Programs, RespondLoop(p) PROVE CsStreamsIInv'
<1>1. CsShape /\ CallOk(p) /\ CsMaxOk(p) /\ LastOk(p)
    BY CsParts
<1>2. /\ UNCHANGED <<args, program, requestStream, responseStream, method>>
      /\ respondTask[p].at = "check"
    BY DEF RespondLoop
<1> DEFINE at == IF method[p].isResponding THEN "sleep" ELSE "ended"
<1>3. /\ respondTask' = [q \in Programs |-> respondTask'[q]]
      /\ \A q \in Programs \ {p} : respondTask'[q] = respondTask[q]
      /\ respondTask'[p] = [at |-> at, value |-> respondTask[p].value,
                            refused |-> respondTask[p].refused]
    <2>1. respondTask' = [respondTask EXCEPT ![p].at = at]
        BY DEF RespondLoop
    <2> HIDE DEF at
    <2>2. /\ respondTask' = [q \in Programs |-> respondTask'[q]]
          /\ \A q \in Programs \ {p} : respondTask'[q] = respondTask[q]
          /\ respondTask'[p] = [respondTask[p] EXCEPT !.at = at]
        BY <1>1, <2>1 DEF CsShape
    <2> QED BY <1>1, <2>2 DEF CsShape, IsTask
<1>4. KindOf(p) = "max"
    BY <1>1, <1>2 DEF CallOk
<1>5. CsMaxOk(p)'
    BY <1>1, <1>2, <1>3, MaxOkStays
<1>6. LastOk(p)'
    <2>1. Shown(p)' = Shown(p) /\ Delivered(p)' = Delivered(p)
        BY <1>2, DeliveredStays DEF Shown
    <2> QED BY <1>1, <1>2, <1>3, <1>4, <2>1 DEF LastOk, KindOf, Cancelled
<1> QED BY <1>2, <1>3, <1>5, <1>6, TaskMoves DEF IsTask

LEMMA RespondWakesIInv ==
    ASSUME CsStreamsIInv, NEW p \in Programs, RespondWakes(p) PROVE CsStreamsIInv'
<1>1. CsShape /\ CallOk(p) /\ Read(p) /\ CsMaxOk(p) /\ LastOk(p)
    BY CsParts
<1>2. /\ UNCHANGED <<args, program, requestStream, responseStream, method>>
      /\ respondTask[p].at = "sleep"
    BY DEF RespondWakes
<1> DEFINE at == IF Cancelled(p) THEN "faulted" ELSE "write"
<1>3. /\ respondTask' = [q \in Programs |-> respondTask'[q]]
      /\ \A q \in Programs \ {p} : respondTask'[q] = respondTask[q]
      /\ respondTask'[p] = [at |-> at, value |-> method[p].max,
                            refused |-> respondTask[p].refused]
    <2>1. respondTask' = [respondTask EXCEPT ![p].at = at, ![p].value = method[p].max]
        BY DEF RespondWakes
    <2> HIDE DEF at
    <2>2. /\ respondTask' = [q \in Programs |-> respondTask'[q]]
          /\ \A q \in Programs \ {p} : respondTask'[q] = respondTask[q]
          /\ respondTask'[p] = [respondTask[p] EXCEPT !.at = at, !.value = method[p].max]
        BY <1>1, <2>1 DEF CsShape
    <2> QED BY <1>1, <2>2 DEF CsShape, IsTask
<1>4. KindOf(p) = "max" /\ at \in {"write", "faulted"}
    BY <1>1, <1>2 DEF CallOk
<1> HIDE DEF at
<1>5. Shown(p)' = Shown(p) /\ Delivered(p)' = Delivered(p)
    BY <1>2, DeliveredStays DEF Shown
<1>6. CsMaxOk(p)'
    <2>1. \A m : Report(p, m)' <=> Report(p, m)
        BY <1>2, <1>5 DEF Report, IsMaxOfFirst
    <2>2. /\ method[p].max \in Int /\ IsMaxOfFirst(p, method[p].max, method[p].count)
          /\ method[p].count \in Nat
        BY <1>1, <1>4 DEF CsMaxOk, Read
    <2>3. Report(p, method[p].max)
        BY <2>2 DEF Report
    <2>4. Report(p, respondTask[p].value)'
        BY <1>2, <1>3, <1>5, <2>3 DEF Report, IsMaxOfFirst
    <2>5. IsMaxOfFirst(p, method[p].max, method[p].count)'
        BY <1>2, <1>5, <2>2 DEF IsMaxOfFirst
    <2>6. /\ program[p].printed \in Seq(Int) /\ Len(program[p].printed) <= 1
          /\ responseStream[p].queue \in Seq(Int)
          /\ \A i \in DOMAIN Shown(p) :
               /\ Report(p, Shown(p)[i]) /\ Shown(p)[i] <= method[p].max
               /\ \A j \in 1 .. i : Shown(p)[j] <= Shown(p)[i]
        BY <1>1, <1>4 DEF CsMaxOk
    <2>7. \A i \in DOMAIN Shown(p) :
             /\ Report(p, Shown(p)[i])' /\ Shown(p)[i] <= method[p].max
             /\ \A j \in 1 .. i : Shown(p)[j] <= Shown(p)[i]
        BY <1>5, <2>1, <2>6
    <2>8. respondTask'[p].value = method[p].max
        BY <1>3
    <2>9. respondTask'[p].value <= method[p].max
          /\ \A i \in DOMAIN Shown(p) : Shown(p)[i] <= respondTask'[p].value
        BY <2>2, <2>6, <2>8
    <2> QED BY <1>2, <1>5, <2>2, <2>4, <2>5, <2>6, <2>7, <2>9 DEF CsMaxOk
<1>7. LastOk(p)'
    BY <1>1, <1>2, <1>3, <1>4, <1>5 DEF LastOk, KindOf, Cancelled
<1> QED BY <1>2, <1>3, <1>4, <1>6, <1>7, TaskMoves DEF IsTask

\* FindMax ends, or its caller goes.
LEMMA FindMaxMoves ==
    ASSUME CsStreamsIInv, NEW p \in Programs, KindOf(p) = "max", method[p].at # "none",
           UNCHANGED <<args, program, requestStream, responseStream, respondTask>>,
           method' = [q \in Programs |-> method'[q]],
           \A q \in Programs \ {p} : method'[q] = method[q], IsMethod(method'[p]),
           method'[p].max = method[p].max, method'[p].count = method[p].count,
           method'[p].refused = method[p].refused, method'[p].sum = method[p].sum,
           CallOk(p)', LastOk(p)'
    PROVE  CsStreamsIInv'
<1>1. /\ CsShape /\ CallOk(p) /\ Fresh(p) /\ Written(p) /\ Read(p) /\ CsMaxOk(p)
    BY CsParts
<1>2. OneCall(p)
    BY <1>1 DEF CsShape, OneCall
<1>3. program[p].at # "off"
    BY <1>1 DEF CallOk
<1>4. Fresh(p)' /\ CsAverageOk(p)' /\ CsSyncOk(p)' /\ CsAsyncOk(p)'
    BY <1>3 DEF Fresh, CsAverageOk, CsSyncOk, CsAsyncOk, KindOf
<1>5. Written(p)' /\ Read(p)' /\ CsMaxOk(p)'
    BY <1>1, WrittenStays, ReadStays, MaxOkStays
<1> QED BY <1>2, <1>4, <1>5, OneCallIInv DEF CsStreamOk

LEMMA FindMaxEndsIInv ==
    ASSUME CsStreamsIInv, NEW p \in Programs, FindMaxEnds(p) PROVE CsStreamsIInv'
<1>1. CsShape /\ CallOk(p) /\ Written(p) /\ Read(p) /\ LastOk(p)
    BY CsParts
<1>2. /\ UNCHANGED <<args, program, requestStream, responseStream, respondTask>>
      /\ KindOf(p) = "max" /\ method[p].at = "running" /\ AtEnd(p)
    BY DEF FindMaxEnds, Serves
<1> DEFINE asleep == respondTask[p].at = "sleep"
<1>3. /\ method' = [q \in Programs |-> method'[q]]
      /\ \A q \in Programs \ {p} : method'[q] = method[q]
      /\ method'[p] =
           [at |-> "waiting", count |-> method[p].count, sum |-> method[p].sum,
            max |-> method[p].max, isResponding |-> FALSE, refused |-> method[p].refused,
            asleep |-> asleep]
    <2>1. method' = [method EXCEPT ![p].at = "waiting", ![p].isResponding = FALSE,
                                   ![p].asleep = asleep]
        BY DEF FindMaxEnds
    <2> HIDE DEF asleep
    <2>2. /\ method' = [q \in Programs |-> method'[q]]
          /\ \A q \in Programs \ {p} : method'[q] = method[q]
          /\ method'[p] = [method[p] EXCEPT !.at = "waiting", !.isResponding = FALSE,
                                            !.asleep = asleep]
        BY <1>1, <2>1 DEF CsShape
    <2> QED BY <1>1, <2>2 DEF CsShape, IsMethod
<1> HIDE DEF asleep
<1>4. /\ method'[p].at = "waiting" /\ method'[p].count = method[p].count
      /\ method'[p].sum = method[p].sum /\ method'[p].max = method[p].max
      /\ method'[p].refused = method[p].refused /\ ~method'[p].isResponding
      /\ method'[p].asleep = asleep /\ IsMethod(method'[p])
    BY <1>3 DEF IsMethod
<1>5. method'[p].asleep \in BOOLEAN /\ (method'[p].asleep => respondTask[p].at = "sleep")
    <2>1. asleep \in BOOLEAN /\ (asleep => respondTask[p].at = "sleep")
        BY DEF asleep
    <2> QED BY <1>4, <2>1, Zenon
<1>6. Delivered(p)' = Delivered(p)
    BY <1>2, DeliveredStays
<1>7. program[p].completed /\ method[p].count = Len(Delivered(p))
    <2>1. requestStream[p].queue = <<>> /\ requestStream[p].closed
        BY <1>2 DEF AtEnd
    <2>2. /\ method[p].count \in Nat
          /\ method[p].count + Len(requestStream[p].queue) = Len(Delivered(p))
        BY <1>1, <1>2 DEF Read
    <2>3. program[p].completed
        BY <1>1, <1>2, <2>1 DEF Written
    <2> QED BY <2>1, <2>2, <2>3
<1>8. CallOk(p)'
    BY <1>1, <1>2, <1>4, <1>5 DEF CallOk, KindOf
<1>9. LastOk(p)'
    BY <1>2, <1>4, <1>6, <1>7, <1>5 DEF LastOk
<1> QED BY <1>2, <1>3, <1>4, <1>8, <1>9, FindMaxMoves

LEMMA FindMaxReturnsIInv ==
    ASSUME CsStreamsIInv, NEW p \in Programs, FindMaxReturns(p) PROVE CsStreamsIInv'
<1>1. CsShape /\ CallOk(p) /\ LastOk(p)
    BY CsParts
<1> DEFINE at == IF respondTask[p].at = "ended" THEN "OK" ELSE "error"
<1>2. /\ UNCHANGED <<args, program, requestStream, responseStream, respondTask>>
      /\ KindOf(p) = "max" /\ method[p].at = "waiting" /\ SetMethod(p, at)
    BY <1>1 DEF FindMaxReturns, CallOk
<1> HIDE DEF at
<1>3. /\ method' = [q \in Programs |-> method'[q]]
      /\ \A q \in Programs \ {p} : method'[q] = method[q]
      /\ IsMethod(method'[p])
      /\ method'[p].at = at /\ method'[p].count = method[p].count
      /\ method'[p].sum = method[p].sum /\ method'[p].max = method[p].max
      /\ method'[p].isResponding = method[p].isResponding
      /\ method'[p].refused = method[p].refused /\ method'[p].asleep = method[p].asleep
    BY <1>1, <1>2, MethodMoves
<1>4. CallOk(p)'
    BY <1>1, <1>2, <1>3 DEF CallOk, KindOf, at
<1>5. LastOk(p)'
    <2>1. Shown(p)' = Shown(p) /\ Delivered(p)' = Delivered(p)
        BY <1>2, DeliveredStays DEF Shown
    <2> QED BY <1>1, <1>2, <1>3, <2>1 DEF LastOk, KindOf, Cancelled, at
<1> QED BY <1>2, <1>3, <1>4, <1>5, FindMaxMoves

LEMMA MoveNextThrowsIInv ==
    ASSUME CsStreamsIInv, NEW p \in Programs, MoveNextThrows(p) PROVE CsStreamsIInv'
<1>1. /\ CsShape /\ CallOk(p) /\ Fresh(p) /\ Written(p) /\ Read(p)
      /\ CsAverageOk(p) /\ CsSyncOk(p) /\ CsAsyncOk(p) /\ CsMaxOk(p) /\ LastOk(p)
    BY CsParts
<1>2. /\ UNCHANGED <<args, program, requestStream, responseStream, respondTask>>
      /\ KindOf(p) \in {"average", "max"} /\ method[p].at = "running"
      /\ Cancelled(p) /\ SetMethod(p, "error")
    BY DEF MoveNextThrows, Serves
<1>3. /\ method' = [q \in Programs |-> method'[q]]
      /\ \A q \in Programs \ {p} : method'[q] = method[q]
      /\ IsMethod(method'[p])
      /\ method'[p].at = "error" /\ method'[p].count = method[p].count
      /\ method'[p].sum = method[p].sum /\ method'[p].max = method[p].max
      /\ method'[p].isResponding = method[p].isResponding
      /\ method'[p].refused = method[p].refused /\ method'[p].asleep = method[p].asleep
    BY <1>1, <1>2, MethodMoves
<1>4. CallOk(p)'
    BY <1>1, <1>2, <1>3 DEF CallOk, KindOf, Cancelled
<1>5. LastOk(p)'
    BY <1>2, <1>3 DEF LastOk
<1>6. CASE KindOf(p) = "max"
    BY <1>2, <1>3, <1>4, <1>5, <1>6, FindMaxMoves
<1>7. CASE KindOf(p) = "average"
    <2>1. OneCall(p)
        BY <1>1, <1>2, <1>3 DEF CsShape, OneCall
    <2>2. Fresh(p)' /\ CsSyncOk(p)' /\ CsAsyncOk(p)' /\ CsMaxOk(p)'
        BY <1>2, <1>7 DEF Fresh, CsSyncOk, CsAsyncOk, CsMaxOk, KindOf, Cancelled
    <2>3. Written(p)' /\ Read(p)'
        BY <1>1, <1>2, <1>3, WrittenStays, ReadStays
    <2>4. CsAverageOk(p)'
        <3>1. SumUpTo(p, method[p].count)' = SumUpTo(p, method[p].count)
            BY <1>2, <1>3 DEF SumUpTo, Sums, ToInt32
        <3> QED BY <1>1, <1>2, <1>3, <3>1 DEF CsAverageOk, KindOf, Once, ToInt32
    <2> QED BY <1>4, <1>5, <2>1, <2>2, <2>3, <2>4, OneCallIInv DEF CsStreamOk
<1> QED BY <1>2, <1>6, <1>7

LEMMA DeliveredTypes ==
    ASSUME CsStreamsIInv, NEW p \in Programs, KindOf(p) \in {"average", "max"}
    PROVE  /\ Delivered(p) \in Seq(Int) /\ args[p].numbers \in Seq(Int)
           /\ program[p].written \in 0 .. Len(args[p].numbers)
           /\ method[p].count \in Nat /\ method[p].count <= Len(Delivered(p))
           /\ requestStream[p].queue \in Seq(Int)
<1>1. CsShape /\ Written(p) /\ Read(p)
    BY CsParts
<1>2. args[p].numbers \in Seq(Int) /\ program[p].written \in 0 .. Len(args[p].numbers)
    BY <1>1, CsNumbers DEF Written
<1>3. Delivered(p) \in Seq(Int)
    BY <1>2, ArrivalsTypes DEF Delivered
<1>4. /\ method[p].count \in Nat /\ requestStream[p].queue \in Seq(Int)
      /\ method[p].count + Len(requestStream[p].queue) = Len(Delivered(p))
    BY <1>1 DEF Read
<1>5. method[p].count <= Len(Delivered(p))
    <2>1. Len(requestStream[p].queue) \in Nat
        BY <1>4
    <2> QED BY <1>4, <2>1
<1> QED BY <1>2, <1>3, <1>4, <1>5

\* What arrives later does not change the largest of the first numbers.
LEMMA MaxOfMore ==
    ASSUME NEW p, Delivered(p) \in Seq(Int), NEW n \in Int,
           Delivered(p)' = Delivered(p) \/ Delivered(p)' = Append(Delivered(p), n),
           NEW k \in 0 .. Len(Delivered(p)), NEW m
    PROVE  IsMaxOfFirst(p, m, k)' <=> IsMaxOfFirst(p, m, k)
<1>1. \A j \in 1 .. k : Delivered(p)'[j] = Delivered(p)[j]
    OBVIOUS
<1> QED BY <1>1 DEF IsMaxOfFirst

LEMMA MaxOkKeeps ==
    ASSUME NEW p, args' = args, CsMaxOk(p), method' = method, respondTask' = respondTask,
           responseStream' = responseStream, program'[p].printed = program[p].printed,
           KindOf(p) = "max" =>
             /\ method[p].count \in Nat
             /\ \A m : \A k \in 0 .. method[p].count :
                  IsMaxOfFirst(p, m, k)' <=> IsMaxOfFirst(p, m, k)
    PROVE  CsMaxOk(p)'
<1> SUFFICES ASSUME KindOf(p) = "max" PROVE CsMaxOk(p)'
    BY DEF CsMaxOk, KindOf
<1>1. Shown(p)' = Shown(p)
    BY DEF Shown
<1>2. \A m : Report(p, m)' <=> Report(p, m)
    BY DEF Report
<1>3. IsMaxOfFirst(p, method[p].max, method[p].count)'
    <2>1. /\ IsMaxOfFirst(p, method[p].max, method[p].count)
          /\ method[p].count \in 0 .. method[p].count
        BY DEF CsMaxOk
    <2>2. IsMaxOfFirst(p, method[p].max, method[p].count)' <=>
             IsMaxOfFirst(p, method[p].max, method[p].count)
        BY <2>1 DEF IsMaxOfFirst
    <2> QED BY <2>1, <2>2
<1>4. /\ method[p].max \in Int
      /\ program[p].printed \in Seq(Int) /\ Len(program[p].printed) <= 1
      /\ responseStream[p].queue \in Seq(Int)
      /\ \A i \in DOMAIN Shown(p) :
           /\ Report(p, Shown(p)[i])' /\ Shown(p)[i] <= method[p].max
           /\ \A j \in 1 .. i : Shown(p)[j] <= Shown(p)[i]
    BY <1>1, <1>2 DEF CsMaxOk
<1>5. respondTask[p].at = "write" =>
             /\ Report(p, respondTask[p].value)' /\ respondTask[p].value <= method[p].max
             /\ \A i \in DOMAIN Shown(p) : Shown(p)[i] <= respondTask[p].value
    <2>1. Report(p, respondTask[p].value)' <=> Report(p, respondTask[p].value)
        BY DEF Report, IsMaxOfFirst
    <2> QED BY <2>1 DEF CsMaxOk
<1> QED BY <1>1, <1>3, <1>4, <1>5 DEF CsMaxOk, KindOf

\* What a write adds to the numbers that arrive.
LEMMA WriteArrives ==
    ASSUME CsStreamsIInv, NEW p \in Programs, KindOf(p) \in {"average", "max"}, args' = args,
           program[p].written < Len(args[p].numbers),
           program'[p].written = program[p].written + 1,
           program'[p].lost = IF requestStream[p].writing
                              THEN program[p].lost \union {program[p].written + 1}
                              ELSE program[p].lost
    PROVE  Delivered(p)' = IF requestStream[p].writing THEN Delivered(p)
                           ELSE Append(Delivered(p), args[p].numbers[program[p].written + 1])
<1> DEFINE s == args[p].numbers  w == program[p].written
           lost == program[p].lost  more == program'[p].lost
<1>1. s \in Seq(Int) /\ w \in 0 .. Len(s) /\ lost \subseteq 2 .. w
    BY DeliveredTypes, CsParts DEF Written
<1>2. Delivered(p)' = Arrivals(s, more)[w + 1]
    BY DEF Delivered, Arrivals
<1>3. Delivered(p) = Arrivals(s, lost)[w]
    BY DEF Delivered
<1>4. w < Len(s) /\ more = IF requestStream[p].writing THEN lost \union {w + 1} ELSE lost
    OBVIOUS
<1> HIDE DEF s, w, lost, more
<1>5. /\ w + 1 \in 1 .. Len(s) /\ w + 1 - 1 = w
      /\ \A i \in 1 .. w : i \in lost <=> i \in more
      /\ w + 1 \in more <=> requestStream[p].writing
    BY <1>1, <1>4
<1>6. Arrivals(s, lost)[w] = Arrivals(s, more)[w]
    BY <1>1, <1>5, ArrivalsBefore
<1>7. Arrivals(s, more)[w + 1] = IF w + 1 \in more THEN Arrivals(s, more)[w]
                                 ELSE Append(Arrivals(s, more)[w], s[w + 1])
    BY <1>1, <1>5, ArrivalsValues
<1>8. Delivered(p)' = IF requestStream[p].writing THEN Delivered(p)
                      ELSE Append(Delivered(p), s[w + 1])
    BY <1>2, <1>3, <1>5, <1>6, <1>7
<1> QED BY <1>8 DEF s, w

LEMMA WriteNumberIInv ==
    ASSUME CsStreamsIInv, NEW p \in Programs, WriteNumber(p) PROVE CsStreamsIInv'
<1>1. /\ CsShape /\ CallOk(p) /\ Fresh(p) /\ Written(p) /\ Read(p)
      /\ CsAverageOk(p) /\ CsSyncOk(p) /\ CsAsyncOk(p) /\ CsMaxOk(p) /\ LastOk(p)
    BY CsParts
<1> DEFINE w == program[p].written
           n == args[p].numbers[w + 1]
           writing == requestStream[p].writing
           more == IF writing THEN program[p].lost \union {w + 1} ELSE program[p].lost
<1>2. /\ UNCHANGED <<args, responseStream, method, respondTask>>
      /\ KindOf(p) \in {"average", "max"} /\ program[p].at = "open"
      /\ w < Len(args[p].numbers) /\ (KindOf(p) = "average" => ~writing)
    BY DEF WriteNumber, SendsNumbers, Opened, Awaited
<1>3. /\ args[p].numbers \in Seq(Int) /\ w \in 0 .. Len(args[p].numbers) /\ n \in Int
      /\ program[p].lost \subseteq 2 .. w /\ (w = 0 => ~writing)
      /\ requestStream[p].queue \in Seq(Int) /\ Delivered(p) \in Seq(Int)
      /\ method[p].count \in Nat /\ method[p].count <= Len(Delivered(p))
    <2>1. /\ args[p].numbers \in Seq(Int) /\ w \in 0 .. Len(args[p].numbers)
          /\ requestStream[p].queue \in Seq(Int) /\ Delivered(p) \in Seq(Int)
          /\ method[p].count \in Nat /\ method[p].count <= Len(Delivered(p))
        BY <1>2, DeliveredTypes
    <2>2. program[p].lost \subseteq 2 .. w /\ (w = 0 => ~writing)
        BY <1>1, <1>2 DEF Written
    <2>3. n \in Int
        BY <1>2, <2>1
    <2> QED BY <2>1, <2>2, <2>3
<1>4. PICK s \in WriteAsync(requestStream[p], n) : requestStream' = [requestStream EXCEPT ![p] = s]
    BY DEF WriteNumber
<1> HIDE DEF n
<1>5. /\ IsWay(s) /\ s.closed = requestStream[p].closed
      /\ s.queue = IF writing THEN requestStream[p].queue ELSE Append(requestStream[p].queue, n)
      /\ writing => s.writing
    <2>1. CASE writing
        BY <1>1, <1>4, <2>1 DEF WriteAsync, CsShape
    <2>2. CASE ~writing
        BY <1>4, <2>2 DEF WriteAsync, IsWay
    <2> QED BY <2>1, <2>2
<1>6. /\ requestStream' = [q \in Programs |-> requestStream'[q]]
      /\ \A q \in Programs \ {p} : requestStream'[q] = requestStream[q]
      /\ requestStream'[p] = s
    BY <1>1, <1>4 DEF CsShape
<1>7. /\ program' = [q \in Programs |-> program'[q]]
      /\ \A q \in Programs \ {p} : program'[q] = program[q]
      /\ program'[p] = [at |-> "open", written |-> w + 1, lost |-> more,
                        completed |-> program[p].completed, printed |-> program[p].printed]
    <2>1. program' = [program EXCEPT ![p].written = w + 1, ![p].lost = more]
        BY DEF WriteNumber
    <2> HIDE DEF more, w
    <2>2. /\ program' = [q \in Programs |-> program'[q]]
          /\ \A q \in Programs \ {p} : program'[q] = program[q]
          /\ program'[p] = [program[p] EXCEPT !.written = w + 1, !.lost = more]
        BY <1>1, <2>1 DEF CsShape
    <2> QED BY <1>1, <1>2, <2>2 DEF CsShape, IsProgram
<1> HIDE DEF more
<1>8. /\ program'[p].at = "open" /\ program'[p].written = w + 1 /\ program'[p].lost = more
      /\ program'[p].completed = program[p].completed
      /\ program'[p].printed = program[p].printed /\ IsProgram(program'[p])
    BY <1>7 DEF IsProgram
<1>9. OneCall(p)
    BY <1>1, <1>2, <1>5, <1>6, <1>7, <1>8 DEF CsShape, OneCall
<1>10. Delivered(p)' = IF writing THEN Delivered(p) ELSE Append(Delivered(p), n)
    BY <1>2, <1>8, WriteArrives DEF n, more
<1>11. CallOk(p)' /\ Fresh(p)'
    BY <1>1, <1>2, <1>8 DEF CallOk, Fresh, KindOf
<1>12. ~program[p].completed /\ ~requestStream[p].closed
    BY <1>1, <1>2 DEF Written
<1>13. Written(p)'
    <2>1. more \subseteq 2 .. w + 1 /\ w + 1 \in 0 .. Len(args[p].numbers)
        BY <1>2, <1>3 DEF more
    <2>2. KindOf(p) = "average" => more = {}
        BY <1>1, <1>2 DEF Written, more
    <2>3. w + 1 # 0
        BY <1>3
    <2> HIDE DEF w
    <2> QED BY <1>2, <1>5, <1>6, <1>8, <1>12, <2>1, <2>2, <2>3 DEF Written, KindOf
<1>14. Read(p)'
    <2> DEFINE q == requestStream[p].queue  r == requestStream'[p].queue
               c == method[p].count  d == Delivered(p)  e == Delivered(p)'
    <2>1. /\ c \in Nat /\ q \in Seq(Int) /\ d \in Seq(Int) /\ c + Len(q) = Len(d)
          /\ \A i \in 1 .. Len(q) : q[i] = d[c + i]
          /\ IF writing THEN e = d /\ r = q ELSE e = Append(d, n) /\ r = Append(q, n)
        BY <1>1, <1>2, <1>3, <1>5, <1>6, <1>10 DEF Read
    <2> HIDE DEF q, r, c, d, e, writing
    <2>2. r \in Seq(Int) /\ c + Len(r) = Len(e) /\ \A i \in 1 .. Len(r) : r[i] = e[c + i]
        <3>1. CASE writing
            BY <2>1, <3>1
        <3>2. CASE ~writing
            <4>1. /\ Len(q) \in Nat /\ Len(d) \in Nat /\ Len(e) = Len(d) + 1 /\ Len(r) = Len(q) + 1
                  /\ e[Len(d) + 1] = n /\ r[Len(q) + 1] = n /\ r \in Seq(Int)
                  /\ \A i \in 1 .. Len(q) : r[i] = q[i]
                  /\ \A i \in 1 .. Len(d) : e[i] = d[i]
                <5>1. /\ n \in Int /\ q \in Seq(Int) /\ d \in Seq(Int)
                      /\ e = Append(d, n) /\ r = Append(q, n)
                    BY <1>3, <2>1, <3>2
                <5> QED BY <5>1
            <4>2. c \in Nat /\ c + Len(q) = Len(d)
                BY <2>1
            <4>3. ASSUME NEW i \in 1 .. Len(r) PROVE r[i] = e[c + i]
                <5>1. CASE i \in 1 .. Len(q)
                    <6>1. c + i \in 1 .. Len(d)
                        BY <2>1, <4>1, <5>1
                    <6> QED BY <2>1, <4>1, <5>1, <6>1
                <5>2. CASE i = Len(q) + 1
                    <6>1. c + i = Len(d) + 1
                        BY <4>1, <4>2, <5>2
                    <6> QED BY <4>1, <5>2, <6>1
                <5> QED BY <4>1, <5>1, <5>2
            <4>4. c + Len(r) = Len(e)
                BY <4>1, <4>2
            <4> QED BY <4>1, <4>3, <4>4
        <3> QED BY <3>1, <3>2
    <2>3. method'[p].count = c
        BY <1>2 DEF c
    <2> QED BY <2>1, <2>2, <2>3 DEF Read, r, e
<1>15. CsAverageOk(p)' /\ CsSyncOk(p)'
    BY <1>1, <1>2, <1>8, AverageStays, SyncStays
<1>16. CsAsyncOk(p)'
    BY <1>2 DEF CsAsyncOk, KindOf
<1>17. CsMaxOk(p)'
    <2>1. \A m : \A k \in 0 .. method[p].count : IsMaxOfFirst(p, m, k)' <=> IsMaxOfFirst(p, m, k)
        <3> TAKE m
        <3> TAKE k \in 0 .. method[p].count
        <3>1. k \in 0 .. Len(Delivered(p))
            BY <1>3
        <3> QED BY <1>3, <1>10, <3>1, MaxOfMore
    <2> QED BY <1>1, <1>2, <1>3, <1>8, <2>1, MaxOkKeeps
<1>18. LastOk(p)'
    <2> SUFFICES ASSUME KindOf(p) = "max" PROVE LastOk(p)'
        BY <1>2 DEF LastOk, KindOf
    <2>1. method[p].at \notin {"waiting", "OK"}
        BY <1>1, <1>12 DEF LastOk
    <2> QED BY <1>1, <1>2, <2>1 DEF LastOk
<1> QED BY <1>9, <1>11, <1>13, <1>14, <1>15, <1>16, <1>17, <1>18, OneCallIInv DEF CsStreamOk

\* A step of a method takes the first number that has arrived.
LEMMA HeadArrived ==
    ASSUME CsStreamsIInv, NEW p \in Programs, KindOf(p) \in {"average", "max"},
           requestStream[p].queue # <<>>
    PROVE  LET q == requestStream[p].queue  k == method[p].count + 1
           IN  /\ Head(q) = Delivered(p)[k] /\ Head(q) \in Int
               /\ k \in 1 .. Len(Delivered(p))
               /\ Tail(q) \in Seq(Int) /\ k + Len(Tail(q)) = Len(Delivered(p))
               /\ \A i \in 1 .. Len(Tail(q)) : Tail(q)[i] = Delivered(p)[k + i]
<1> DEFINE q == requestStream[p].queue  c == method[p].count  d == Delivered(p)
<1>1. /\ c \in Nat /\ q \in Seq(Int) /\ d \in Seq(Int) /\ q # <<>> /\ c + Len(q) = Len(d)
      /\ \A i \in 1 .. Len(q) : q[i] = d[c + i]
    <2>1. Read(p) /\ Delivered(p) \in Seq(Int)
        BY CsParts, DeliveredTypes
    <2> QED BY <2>1 DEF Read
<1> HIDE DEF q, c, d
<1>2. /\ Len(q) \in Nat /\ Len(q) > 0 /\ Head(q) = q[1] /\ q[1] \in Int
      /\ Tail(q) \in Seq(Int) /\ Len(Tail(q)) = Len(q) - 1
      /\ \A i \in 1 .. Len(q) - 1 : Tail(q)[i] = q[i + 1]
    <2>1. q \in Seq(Int) /\ q # <<>>
        BY <1>1
    <2> QED BY <2>1
<1>3. Head(q) = d[c + 1]
    BY <1>1, <1>2
<1>4. c + 1 \in 1 .. Len(d) /\ (c + 1) + Len(Tail(q)) = Len(d)
    <2>1. c \in Nat /\ c + Len(q) = Len(d)
        BY <1>1
    <2> QED BY <1>2, <2>1
<1>5. ASSUME NEW i \in 1 .. Len(Tail(q)) PROVE Tail(q)[i] = d[(c + 1) + i]
    <2>1. i \in Nat /\ i \in 1 .. Len(q) - 1 /\ i + 1 \in 1 .. Len(q)
        BY <1>2
    <2>2. (c + 1) + i = c + (i + 1)
        <3>1. c \in Nat
            BY <1>1
        <3> QED BY <2>1, <3>1
    <2>3. q[i + 1] = d[c + (i + 1)]
        BY <1>1, <2>1
    <2> QED BY <1>2, <2>1, <2>2, <2>3
<1> QED BY <1>2, <1>3, <1>4, <1>5 DEF q, c, d

\* A method reads a number.
LEMMA ReadsNumber ==
    ASSUME CsStreamsIInv, NEW p \in Programs, KindOf(p) \in {"average", "max"},
           method[p].at = "running", requestStream[p].queue # <<>>,
           UNCHANGED <<args, program, responseStream, respondTask>>,
           requestStream' = [requestStream EXCEPT ![p].queue = Tail(@)],
           method' = [q \in Programs |-> method'[q]],
           \A q \in Programs \ {p} : method'[q] = method[q], IsMethod(method'[p]),
           method'[p].at = "running", method'[p].count = method[p].count + 1,
           method'[p].isResponding = method[p].isResponding,
           method'[p].asleep = method[p].asleep, method'[p].refused = method[p].refused,
           CsAverageOk(p)', CsMaxOk(p)'
    PROVE  CsStreamsIInv'
<1>1. /\ CsShape /\ CallOk(p) /\ Fresh(p) /\ Written(p) /\ Read(p) /\ LastOk(p)
    BY CsParts
<1>2. /\ requestStream' = [q \in Programs |-> requestStream'[q]]
      /\ \A q \in Programs \ {p} : requestStream'[q] = requestStream[q]
      /\ requestStream'[p] =
           [queue |-> Tail(requestStream[p].queue), writing |-> requestStream[p].writing,
            closed |-> requestStream[p].closed]
    <2> DEFINE t == Tail(requestStream[p].queue)
    <2>1. requestStream' = [requestStream EXCEPT ![p].queue = t]
        OBVIOUS
    <2> HIDE DEF t
    <2>2. /\ requestStream' = [q \in Programs |-> requestStream'[q]]
          /\ \A q \in Programs \ {p} : requestStream'[q] = requestStream[q]
          /\ requestStream'[p] = [requestStream[p] EXCEPT !.queue = t]
        BY <1>1, <2>1 DEF CsShape
    <2>3. requestStream'[p] =
           [queue |-> t, writing |-> requestStream[p].writing, closed |-> requestStream[p].closed]
        BY <1>1, <2>2 DEF CsShape, IsWay
    <2> QED BY <2>2, <2>3 DEF t
<1>3. OneCall(p)
    BY <1>1, <1>2 DEF CsShape, OneCall, IsWay
<1>4. program[p].at # "off"
    BY <1>1 DEF CallOk
<1>5. CallOk(p)' /\ Fresh(p)' /\ CsSyncOk(p)' /\ CsAsyncOk(p)'
    BY <1>1, <1>4 DEF CallOk, Fresh, CsSyncOk, CsAsyncOk, KindOf
<1>6. Written(p)'
    BY <1>1, <1>2, WrittenStays
<1>7. Read(p)'
    <2>1. Delivered(p)' = Delivered(p)
        BY DeliveredStays
    <2>2. method[p].count \in Nat
        BY DeliveredTypes
    <2> DEFINE t == Tail(requestStream[p].queue)  k == method[p].count + 1
    <2>3. requestStream'[p].queue = t /\ method'[p].count = k /\ k \in Nat
        BY <1>2, <2>2
    <2>4. t \in Seq(Int) /\ k + Len(t) = Len(Delivered(p))
          /\ \A i \in 1 .. Len(t) : t[i] = Delivered(p)[k + i]
        BY HeadArrived
    <2> HIDE DEF t, k
    <2> QED BY <2>1, <2>3, <2>4 DEF Read
<1>8. LastOk(p)'
    BY <1>1 DEF LastOk, KindOf
<1> QED BY <1>3, <1>5, <1>6, <1>7, <1>8, OneCallIInv DEF CsStreamOk

\* All that an average client writes arrives.
LEMMA AllArrives ==
    ASSUME CsStreamsIInv, NEW p \in Programs, KindOf(p) = "average"
    PROVE  /\ Len(Delivered(p)) = program[p].written
           /\ \A i \in 1 .. program[p].written : Delivered(p)[i] = args[p].numbers[i]
<1>1. program[p].lost = {} /\ args[p].numbers \in Seq(Int)
      /\ program[p].written \in 0 .. Len(args[p].numbers)
    BY CsParts, DeliveredTypes DEF Written
<1>2. \A i \in 1 .. Len(args[p].numbers) : i \notin program[p].lost
    BY <1>1
<1> QED BY <1>1, <1>2, ArrivalsOfAll DEF Delivered

LEMMA FindAverageIInv ==
    ASSUME CsStreamsIInv, NEW p \in Programs, FindAverage(p) PROVE CsStreamsIInv'
<1>1. CsShape /\ CallOk(p) /\ CsAverageOk(p)
    BY CsParts
<1> DEFINE n == Head(requestStream[p].queue)  k == method[p].count + 1
           sum == ToInt32(method[p].sum + n)
<1>2. /\ UNCHANGED <<args, program, responseStream, respondTask>>
      /\ KindOf(p) = "average" /\ method[p].at = "running" /\ requestStream[p].queue # <<>>
      /\ requestStream' = [requestStream EXCEPT ![p].queue = Tail(@)]
    BY DEF FindAverage, Serves
<1>3. /\ method' = [q \in Programs |-> method'[q]]
      /\ \A q \in Programs \ {p} : method'[q] = method[q]
      /\ method'[p] =
           [at |-> "running", count |-> k, sum |-> sum, max |-> method[p].max,
            isResponding |-> method[p].isResponding, refused |-> method[p].refused,
            asleep |-> method[p].asleep]
    <2>1. method' = [method EXCEPT ![p].count = k, ![p].sum = sum]
        BY DEF FindAverage
    <2> HIDE DEF k, sum
    <2>2. /\ method' = [q \in Programs |-> method'[q]]
          /\ \A q \in Programs \ {p} : method'[q] = method[q]
          /\ method'[p] = [method[p] EXCEPT !.count = k, !.sum = sum]
        BY <1>1, <2>1 DEF CsShape
    <2> QED BY <1>1, <1>2, <2>2 DEF CsShape, IsMethod
<1>4. /\ n = args[p].numbers[k] /\ n \in Int /\ IsInt32(n)
      /\ k \in 1 .. Len(args[p].numbers) /\ args[p].numbers \in Seq(Int)
    <2>1. n = Delivered(p)[k] /\ n \in Int /\ k \in 1 .. Len(Delivered(p))
        BY <1>2, HeadArrived
    <2>2. Len(Delivered(p)) = program[p].written
          /\ \A i \in 1 .. program[p].written : Delivered(p)[i] = args[p].numbers[i]
        BY <1>2, AllArrives
    <2>3. program[p].written \in 0 .. Len(args[p].numbers) /\ args[p].numbers \in Seq(Int)
          /\ k - 1 \in Nat
        BY <1>2, DeliveredTypes
    <2>4. \A i \in 1 .. Len(args[p].numbers) : IsInt32(args[p].numbers[i])
        BY <1>1, <1>2, CsNumbers
    <2> HIDE DEF n, k
    <2>5. k \in 1 .. program[p].written
        BY <2>1, <2>2
    <2>6. k \in 1 .. Len(args[p].numbers)
        BY <2>3, <2>5
    <2> QED BY <2>1, <2>2, <2>3, <2>4, <2>5, <2>6
<1>5. sum = ToInt32(SumUpTo(p, k))
    <2> DEFINE before == SumUpTo(p, method[p].count)
    <2>1. before \in Int
        <3>1. method[p].count \in 0 .. Len(args[p].numbers)
            BY <1>2, <1>4, DeliveredTypes
        <3> QED BY <1>4, <3>1, SumsBounds DEF SumUpTo
    <2>2. SumUpTo(p, k) = before + n
        <3>1. Sums(args[p].numbers)[k] = Sums(args[p].numbers)[k - 1] + ToInt32(args[p].numbers[k])
            BY <1>4, SumsValues
        <3>2. k - 1 = method[p].count
            BY <1>2, DeliveredTypes
        <3>3. ToInt32(args[p].numbers[k]) = n
            BY <1>4 DEF IsInt32
        <3> QED BY <3>1, <3>2, <3>3 DEF SumUpTo
    <2>3. method[p].sum = ToInt32(before)
        BY <1>1, <1>2 DEF CsAverageOk
    <2> HIDE DEF before, n
    <2>4. ToInt32(ToInt32(before) + n) = ToInt32(before + n)
        BY <1>4, <2>1, SumsWrap
    <2> QED BY <2>2, <2>3, <2>4
<1> HIDE DEF k, sum
<1>6. /\ method'[p].at = "running" /\ method'[p].count = k /\ method'[p].sum = sum
      /\ method'[p].isResponding = method[p].isResponding
      /\ method'[p].asleep = method[p].asleep /\ method'[p].refused = method[p].refused
      /\ IsMethod(method'[p])
    BY <1>3 DEF IsMethod
<1>7. CsAverageOk(p)'
    <2>1. SumUpTo(p, method[p].count)' = SumUpTo(p, k)
        BY <1>2, <1>6 DEF SumUpTo, Sums, ToInt32
    <2>2. ToInt32(SumUpTo(p, method[p].count))' = ToInt32(SumUpTo(p, k))
        BY <2>1 DEF ToInt32
    <2>3. Once(p, Quotient(method[p].sum, method[p].count))'
        BY <1>1, <1>2, <1>6 DEF CsAverageOk, Once
    <2> QED BY <1>5, <1>6, <2>2, <2>3 DEF CsAverageOk
<1>8. CsMaxOk(p)'
    BY <1>2 DEF CsMaxOk, KindOf
<1> QED BY <1>2, <1>3, <1>6, <1>7, <1>8, ReadsNumber DEF k

\* A method answers once.
LEMMA AnswerMoves ==
    ASSUME CsStreamsIInv, NEW p \in Programs, NEW throws \in BOOLEAN, NEW m,
           Answer(p, throws, m), UNCHANGED <<args, program, requestStream, respondTask>>
    PROVE  /\ OneCall(p)
           /\ method'[p].at = IF throws THEN "error" ELSE "OK"
           /\ method'[p].count = method[p].count /\ method'[p].sum = method[p].sum
           /\ responseStream'[p].queue = IF throws THEN responseStream[p].queue ELSE <<m>>
<1>1. CsShape
    BY CsParts
<1> DEFINE at == IF throws THEN "error" ELSE "OK"
<1>2. SetMethod(p, at)
    BY DEF Answer
<1> HIDE DEF at
<1>3. /\ method' = [q \in Programs |-> method'[q]]
      /\ \A q \in Programs \ {p} : method'[q] = method[q]
      /\ IsMethod(method'[p]) /\ method'[p].at = at
      /\ method'[p].count = method[p].count /\ method'[p].sum = method[p].sum
    BY <1>1, <1>2, MethodMoves
<1>4. /\ responseStream' = [q \in Programs |-> responseStream'[q]]
      /\ \A q \in Programs \ {p} : responseStream'[q] = responseStream[q]
      /\ IsWay(responseStream'[p])
      /\ responseStream'[p].queue = IF throws THEN responseStream[p].queue ELSE <<m>>
    <2>1. CASE throws
        <3>1. responseStream' = responseStream
            BY <2>1 DEF Answer
        <3> QED BY <1>1, <2>1, <3>1 DEF CsShape
    <2>2. CASE ~throws
        <3> DEFINE one == <<m>>
        <3>1. responseStream' = [responseStream EXCEPT ![p].queue = one]
            BY <2>2 DEF Answer
        <3> HIDE DEF one
        <3>2. /\ responseStream' = [q \in Programs |-> responseStream'[q]]
              /\ \A q \in Programs \ {p} : responseStream'[q] = responseStream[q]
              /\ responseStream'[p] = [responseStream[p] EXCEPT !.queue = one]
            BY <1>1, <3>1 DEF CsShape
        <3>3. responseStream'[p] = [queue |-> one, writing |-> responseStream[p].writing,
                                    closed |-> responseStream[p].closed]
            BY <1>1, <3>2 DEF CsShape, IsWay
        <3> QED BY <2>2, <3>2, <3>3 DEF IsWay, one
    <2> QED BY <2>1, <2>2
<1> QED BY <1>1, <1>3, <1>4 DEF CsShape, OneCall, at

LEMMA AnswerIInv ==
    ASSUME CsStreamsIInv, NEW p \in Programs, NEW throws \in BOOLEAN, NEW m,
           KindOf(p) \in {"average", "sync"}, method[p].at = "running",
           Answer(p, throws, m), UNCHANGED <<args, program, requestStream, respondTask>>,
           CsAverageOk(p)', CsSyncOk(p)'
    PROVE  CsStreamsIInv'
<1>1. CallOk(p) /\ Written(p) /\ Read(p)
    BY CsParts
<1>2. /\ OneCall(p)
      /\ method'[p].at = IF throws THEN "error" ELSE "OK"
      /\ method'[p].count = method[p].count
    BY AnswerMoves
<1>3. CallOk(p)' /\ Fresh(p)'
    <2>1. program[p].at # "off" /\ program[p].at # "done"
        BY <1>1 DEF CallOk
    <2>2. method'[p].asleep \in BOOLEAN /\ method'[p].refused = method[p].refused
        <3>1. CsShape /\ method[p].asleep \in BOOLEAN
            BY <1>1, CsParts DEF CallOk
        <3>2. SetMethod(p, IF throws THEN "error" ELSE "OK")
            BY DEF Answer
        <3>3. method'[p].asleep = method[p].asleep /\ method'[p].refused = method[p].refused
            BY <3>1, <3>2, MethodMoves
        <3> QED BY <3>1, <3>3
    <2> QED BY <1>1, <1>2, <2>1, <2>2 DEF CallOk, Fresh, KindOf
<1>4. Written(p)' /\ Read(p)'
    BY <1>1, <1>2, WrittenStays, ReadStays
<1>5. CsAsyncOk(p)' /\ CsMaxOk(p)' /\ LastOk(p)'
    BY DEF CsAsyncOk, CsMaxOk, LastOk, KindOf
<1> QED BY <1>2, <1>3, <1>4, <1>5, OneCallIInv DEF CsStreamOk

LEMMA FindAverageEndsIInv ==
    ASSUME CsStreamsIInv, NEW p \in Programs, FindAverageEnds(p) PROVE CsStreamsIInv'
<1>1. CsAverageOk(p) /\ Written(p) /\ Read(p)
    BY CsParts
<1> DEFINE throws == method[p].count = 0
           m == Quotient(method[p].sum, method[p].count)
<1>2. /\ UNCHANGED <<args, program, requestStream, respondTask>>
      /\ KindOf(p) = "average" /\ method[p].at = "running" /\ AtEnd(p)
      /\ Answer(p, throws, m) /\ throws \in BOOLEAN
    BY DEF FindAverageEnds, Serves
<1>3. method[p].count = Len(args[p].numbers) /\ method[p].count \in Nat
    <2>1. program[p].written = Len(args[p].numbers)
        BY <1>1, <1>2 DEF Written, AtEnd
    <2>2. /\ method[p].count \in Nat
          /\ method[p].count + Len(requestStream[p].queue) = Len(Delivered(p))
        BY <1>1, <1>2 DEF Read
    <2>3. requestStream[p].queue = <<>>
        BY <1>2 DEF AtEnd
    <2>4. Len(Delivered(p)) = program[p].written
        BY <1>2, AllArrives
    <2> QED BY <2>1, <2>2, <2>3, <2>4
<1>4. program[p].printed = <<>> /\ responseStream[p].queue = <<>>
    BY <1>1, <1>2 DEF CsAverageOk, Once
<1>5. /\ method'[p].at = IF throws THEN "error" ELSE "OK"
      /\ method'[p].count = method[p].count /\ method'[p].sum = method[p].sum
      /\ responseStream'[p].queue = IF throws THEN responseStream[p].queue ELSE <<m>>
    <2> HIDE DEF throws, m
    <2> QED BY <1>2, AnswerMoves
<1>6. CsAverageOk(p)'
    <2>1. SumUpTo(p, method[p].count)' = SumUpTo(p, method[p].count)
        BY <1>2, <1>5 DEF SumUpTo, Sums, ToInt32
    <2>2. method'[p].sum = ToInt32(SumUpTo(p, method[p].count))
        BY <1>1, <1>2, <1>5 DEF CsAverageOk
    <2>3. ToInt32(SumUpTo(p, method[p].count))' = ToInt32(SumUpTo(p, method[p].count))
        BY <2>1 DEF ToInt32
    <2>4. Quotient(method[p].sum, method[p].count)' = m
        BY <1>5 DEF Quotient
    <2>5. method'[p].at = "OK" => method'[p].count = Len(args[p].numbers) /\ method'[p].count > 0
        BY <1>3, <1>5
    <2>6. Once(p, Quotient(method[p].sum, method[p].count))'
        <3> HIDE DEF m
        <3> QED BY <1>2, <1>4, <1>5, <2>4 DEF Once
    <2> QED BY <1>2, <2>2, <2>3, <2>5, <2>6 DEF CsAverageOk
<1>7. CsSyncOk(p)'
    BY <1>2 DEF CsSyncOk, KindOf
<1> HIDE DEF throws, m
<1> QED BY <1>2, <1>6, <1>7, AnswerIInv

LEMMA SyncFibonacciIInv ==
    ASSUME CsStreamsIInv, NEW p \in Programs, SyncFibonacciCs(p) PROVE CsStreamsIInv'
<1>1. CsSyncOk(p)
    BY CsParts
<1> DEFINE throws == args[p].number < 0
           m == FirstFibs(args[p].number)
<1>2. /\ UNCHANGED <<args, program, requestStream, respondTask>>
      /\ KindOf(p) = "sync" /\ method[p].at = "running"
      /\ Answer(p, throws, m) /\ throws \in BOOLEAN
    BY DEF SyncFibonacciCs, Serves, FirstFibs
<1>3. program[p].printed = <<>> /\ responseStream[p].queue = <<>>
    BY <1>1, <1>2 DEF CsSyncOk, Once
<1>4. /\ method'[p].at = IF throws THEN "error" ELSE "OK"
      /\ responseStream'[p].queue = IF throws THEN responseStream[p].queue ELSE <<m>>
    <2> HIDE DEF throws, m
    <2> QED BY <1>2, AnswerMoves
<1>5. CsSyncOk(p)'
    <2>1. FirstFibs(args[p].number)' = m
        BY <1>2 DEF FirstFibs, ToInt32
    <2> HIDE DEF m, throws
    <2>2. Once(p, FirstFibs(args[p].number))'
        BY <1>2, <1>3, <1>4, <2>1 DEF Once
    <2> QED BY <2>2 DEF CsSyncOk
<1>6. CsAverageOk(p)'
    BY <1>2 DEF CsAverageOk, KindOf
<1> HIDE DEF throws, m
<1> QED BY <1>2, <1>5, <1>6, AnswerIInv

LEMMA FindMaxIInv ==
    ASSUME CsStreamsIInv, NEW p \in Programs, FindMax(p) PROVE CsStreamsIInv'
<1>1. CsShape /\ CallOk(p) /\ CsMaxOk(p)
    BY CsParts
<1> DEFINE n == Head(requestStream[p].queue)  k == method[p].count + 1
           max == Larger(method[p].max, n)
<1>2. /\ UNCHANGED <<args, program, responseStream, respondTask>>
      /\ KindOf(p) = "max" /\ method[p].at = "running" /\ requestStream[p].queue # <<>>
      /\ requestStream' = [requestStream EXCEPT ![p].queue = Tail(@)]
    BY DEF FindMax, Serves
<1>3. /\ method' = [q \in Programs |-> method'[q]]
      /\ \A q \in Programs \ {p} : method'[q] = method[q]
      /\ method'[p] =
           [at |-> "running", count |-> k, sum |-> method[p].sum, max |-> max,
            isResponding |-> method[p].isResponding, refused |-> method[p].refused,
            asleep |-> method[p].asleep]
    <2>1. method' = [method EXCEPT ![p].count = k, ![p].max = max]
        BY DEF FindMax
    <2> HIDE DEF k, max
    <2>2. /\ method' = [q \in Programs |-> method'[q]]
          /\ \A q \in Programs \ {p} : method'[q] = method[q]
          /\ method'[p] = [method[p] EXCEPT !.count = k, !.max = max]
        BY <1>1, <2>1 DEF CsShape
    <2> QED BY <1>1, <1>2, <2>2 DEF CsShape, IsMethod
<1>4. /\ n = Delivered(p)[k] /\ n \in Int /\ method[p].count \in Nat
      /\ Delivered(p)' = Delivered(p)
    BY <1>2, HeadArrived, DeliveredTypes, DeliveredStays
<1>5. /\ method[p].max \in Int /\ IsMaxOfFirst(p, method[p].max, method[p].count)
      /\ max \in Int /\ method[p].max <= max /\ n <= max /\ max \in {method[p].max, n}
    <2>1. method[p].max \in Int /\ IsMaxOfFirst(p, method[p].max, method[p].count)
        BY <1>1, <1>2 DEF CsMaxOk
    <2> QED BY <1>4, <2>1 DEF Larger
<1>6. IsMaxOfFirst(p, max, k)
    <2> DEFINE first == {0} \union {Delivered(p)[j] : j \in 1 .. method[p].count}
               more == {0} \union {Delivered(p)[j] : j \in 1 .. k}
    <2>1. more = first \union {n}
        <3>1. \A j : j \in 1 .. k <=> j \in 1 .. method[p].count \/ j = k
            BY <1>4
        <3> HIDE DEF k
        <3> QED BY <1>4, <3>1
    <2>2. method[p].max \in first /\ \A x \in first : x <= method[p].max
        BY <1>5 DEF IsMaxOfFirst
    <2>3. \A x \in first : x \in Int
        <3>1. Delivered(p) \in Seq(Int) /\ method[p].count <= Len(Delivered(p))
            BY <1>2, DeliveredTypes
        <3>2. \A j \in 1 .. method[p].count : Delivered(p)[j] \in Int
            BY <1>4, <3>1
        <3> QED BY <3>2
    <2> HIDE DEF first, more, max, n
    <2>4. max \in more /\ \A x \in more : x <= max
        BY <1>4, <1>5, <2>1, <2>2, <2>3
    <2> QED BY <2>4 DEF IsMaxOfFirst, more
<1> HIDE DEF k, max, n
<1>7. /\ method'[p].at = "running" /\ method'[p].count = k /\ method'[p].max = max
      /\ method'[p].isResponding = method[p].isResponding
      /\ method'[p].asleep = method[p].asleep /\ method'[p].refused = method[p].refused
      /\ IsMethod(method'[p])
    BY <1>3 DEF IsMethod
<1>8. CsMaxOk(p)'
    <2>1. Shown(p)' = Shown(p)
        BY <1>2 DEF Shown
    <2>2. \A m : \A i : IsMaxOfFirst(p, m, i)' <=> IsMaxOfFirst(p, m, i)
        BY <1>4 DEF IsMaxOfFirst
    <2>3. \A m : Report(p, m) => Report(p, m)'
        <3> SUFFICES ASSUME NEW m, Report(p, m) PROVE Report(p, m)'
            OBVIOUS
        <3>1. PICK i \in 0 .. method[p].count : IsMaxOfFirst(p, m, i)
            BY DEF Report
        <3>2. i \in 0 .. k
            BY <1>4 DEF k
        <3>3. IsMaxOfFirst(p, m, i)'
            BY <2>2, <3>1
        <3> QED BY <1>7, <3>2, <3>3 DEF Report
    <2>4. IsMaxOfFirst(p, method[p].max, method[p].count)'
        BY <1>4, <1>6, <1>7 DEF IsMaxOfFirst
    <2>5. /\ program[p].printed \in Seq(Int) /\ Len(program[p].printed) <= 1
          /\ responseStream[p].queue \in Seq(Int)
          /\ \A i \in DOMAIN Shown(p) :
               /\ Report(p, Shown(p)[i]) /\ Shown(p)[i] <= method[p].max
               /\ \A j \in 1 .. i : Shown(p)[j] <= Shown(p)[i]
          /\ respondTask[p].at = "write" =>
               /\ Report(p, respondTask[p].value) /\ respondTask[p].value <= method[p].max
               /\ \A i \in DOMAIN Shown(p) : Shown(p)[i] <= respondTask[p].value
        BY <1>1, <1>2 DEF CsMaxOk
    <2>6. \A m : Report(p, m) /\ m <= method[p].max => m <= max
        <3>1. \A m : Report(p, m) => m \in Int
            BY DEF Report
        <3> QED BY <1>5, <3>1
    <2>7. \A i \in DOMAIN Shown(p) :
             /\ Report(p, Shown(p)[i])' /\ Shown(p)[i] <= max
             /\ \A j \in 1 .. i : Shown(p)[j] <= Shown(p)[i]
        BY <2>1, <2>3, <2>5, <2>6
    <2>8. respondTask[p].at = "write" =>
             /\ Report(p, respondTask[p].value)' /\ respondTask[p].value <= max
             /\ \A i \in DOMAIN Shown(p) : Shown(p)[i] <= respondTask[p].value
        <3> SUFFICES ASSUME respondTask[p].at = "write"
                     PROVE  /\ Report(p, respondTask[p].value)' /\ respondTask[p].value <= max
                            /\ \A i \in DOMAIN Shown(p) : Shown(p)[i] <= respondTask[p].value
            OBVIOUS
        <3>1. PICK v : v = respondTask[p].value
            OBVIOUS
        <3>2. Report(p, v)' /\ v <= max
            BY <2>3, <2>5, <2>6, <3>1
        <3>3. Report(p, respondTask[p].value)'
            BY <1>2, <3>1, <3>2 DEF Report, IsMaxOfFirst
        <3> QED BY <2>5, <3>1, <3>2, <3>3
    <2> QED BY <1>2, <1>5, <1>7, <2>1, <2>4, <2>5, <2>7, <2>8 DEF CsMaxOk
<1>9. CsAverageOk(p)'
    BY <1>2 DEF CsAverageOk, KindOf
<1> QED BY <1>2, <1>3, <1>7, <1>8, <1>9, ReadsNumber DEF k

LEMMA ShownIn ==
    ASSUME CsStreamsIInv, NEW p \in Programs
    PROVE  /\ KindOf(p) = "async" =>
                /\ program[p].printed \in Seq(AsyncResponses)
                /\ responseStream[p].queue \in Seq(AsyncResponses)
           /\ KindOf(p) = "max" =>
                program[p].printed \in Seq(Int) /\ responseStream[p].queue \in Seq(Int)
BY CsParts DEF CsAsyncOk, CsMaxOk

LEMMA MoveNextResponseIInv ==
    ASSUME CsStreamsIInv, NEW p \in Programs, MoveNextResponse(p) PROVE CsStreamsIInv'
<1>1. /\ CsShape /\ CallOk(p) /\ Fresh(p) /\ Written(p) /\ Read(p)
      /\ CsAverageOk(p) /\ CsSyncOk(p) /\ CsAsyncOk(p) /\ CsMaxOk(p) /\ LastOk(p)
    BY CsParts
<1> DEFINE q == responseStream[p].queue  shown == program[p].printed
           print == IF KindOf(p) = "max" THEN <<Head(q)>> ELSE Append(shown, Head(q))
           t == Tail(q)
<1>2. /\ UNCHANGED <<args, requestStream, method, respondTask>>
      /\ program[p].at = "open" /\ q # <<>>
      /\ program' = [program EXCEPT ![p].printed = print]
      /\ responseStream' = [responseStream EXCEPT ![p].queue = t]
    BY DEF MoveNextResponse, Opened
<1> HIDE DEF q, shown, print, t
<1>3. /\ program' = [r \in Programs |-> program'[r]]
      /\ \A r \in Programs \ {p} : program'[r] = program[r]
      /\ program'[p] =
           [at |-> "open", written |-> program[p].written, lost |-> program[p].lost,
            completed |-> program[p].completed, printed |-> print]
    <2>1. /\ program' = [r \in Programs |-> program'[r]]
          /\ \A r \in Programs \ {p} : program'[r] = program[r]
          /\ program'[p] = [program[p] EXCEPT !.printed = print]
        BY <1>1, <1>2 DEF CsShape
    <2> QED BY <1>1, <1>2, <2>1 DEF CsShape, IsProgram
<1>4. /\ responseStream' = [r \in Programs |-> responseStream'[r]]
      /\ \A r \in Programs \ {p} : responseStream'[r] = responseStream[r]
      /\ responseStream'[p] = [queue |-> t, writing |-> responseStream[p].writing,
                               closed |-> responseStream[p].closed]
    <2>1. /\ responseStream' = [r \in Programs |-> responseStream'[r]]
          /\ \A r \in Programs \ {p} : responseStream'[r] = responseStream[r]
          /\ responseStream'[p] = [responseStream[p] EXCEPT !.queue = t]
        BY <1>1, <1>2 DEF CsShape
    <2> QED BY <1>1, <2>1 DEF CsShape, IsWay
<1>5. OneCall(p)
    BY <1>1, <1>2, <1>3, <1>4 DEF CsShape, OneCall, IsProgram, IsWay
<1>6. /\ program'[p].at = "open" /\ program'[p].written = program[p].written
      /\ program'[p].lost = program[p].lost /\ program'[p].completed = program[p].completed
      /\ program'[p].printed = print /\ responseStream'[p].queue = t
      /\ responseStream'[p].writing = responseStream[p].writing
    BY <1>3, <1>4
<1>7. ~Cancelled(p) /\ ~Cancelled(p)'
    BY <1>2, <1>6 DEF Cancelled
<1>8. CallOk(p)' /\ Fresh(p)'
    BY <1>1, <1>2, <1>6 DEF CallOk, Fresh, KindOf
<1>9. Written(p)' /\ Read(p)'
    BY <1>1, <1>2, <1>6, WrittenStays, ReadStays
<1>10. \A v : KindOf(p) # "max" /\ Once(p, v) => Once(p, v)'
    <2> SUFFICES ASSUME NEW v, KindOf(p) # "max", Once(p, v) PROVE Once(p, v)'
        OBVIOUS
    <2>1. method[p].at = "OK" /\ shown = <<>> /\ q = <<v>>
        BY <1>1, <1>2 DEF CallOk, Once, q, shown
    <2>2. print = <<v>> /\ t = <<>>
        BY <2>1 DEF print, t
    <2> QED BY <1>2, <1>6, <2>1, <2>2 DEF Once
<1>11. CsAverageOk(p)'
    <2> SUFFICES ASSUME KindOf(p) = "average" PROVE CsAverageOk(p)'
        BY <1>2 DEF CsAverageOk, KindOf
    <2> DEFINE v == Quotient(method[p].sum, method[p].count)
    <2>1. Once(p, v)'
        <3>1. PICK w : w = v
            OBVIOUS
        <3>2. Once(p, w)'
            BY <1>1, <1>10, <3>1 DEF CsAverageOk
        <3> QED BY <1>2, <3>1, <3>2 DEF Once, Quotient
    <2>2. SumUpTo(p, method[p].count)' = SumUpTo(p, method[p].count)
        BY <1>2 DEF SumUpTo, Sums, ToInt32
    <2> QED BY <1>1, <1>2, <2>1, <2>2 DEF CsAverageOk, ToInt32
<1>12. CsSyncOk(p)'
    <2> SUFFICES ASSUME KindOf(p) = "sync" PROVE CsSyncOk(p)'
        BY <1>2 DEF CsSyncOk, KindOf
    <2>1. PICK w : w = FirstFibs(args[p].number)
        OBVIOUS
    <2>2. Once(p, w)'
        BY <1>1, <1>10, <2>1 DEF CsSyncOk
    <2>3. Once(p, FirstFibs(args[p].number))'
        BY <1>2, <2>1, <2>2 DEF Once, FirstFibs, ToInt32
    <2> QED BY <2>3 DEF CsSyncOk
<1>13. CsAsyncOk(p)'
    <2>1. KindOf(p) = "async" =>
             print \in Seq(AsyncResponses) /\ t \in Seq(AsyncResponses) /\ print \o t = Shown(p)
        <3> SUFFICES ASSUME KindOf(p) = "async"
                     PROVE  /\ print \in Seq(AsyncResponses) /\ t \in Seq(AsyncResponses)
                            /\ print \o t = Shown(p)
            OBVIOUS
        <3>1. shown \in Seq(AsyncResponses) /\ q \in Seq(AsyncResponses) /\ q # <<>>
            BY <1>2, ShownIn DEF q, shown
        <3>2. print = Append(shown, Head(q)) /\ t = Tail(q)
            BY DEF print, t
        <3>3. Head(q) \in AsyncResponses /\ Tail(q) \in Seq(AsyncResponses)
            BY <3>1
        <3>4. print \o t = shown \o q
            BY <3>1, <3>2, HeadMoves
        <3>5. Shown(p) = shown \o q
            BY DEF Shown, shown, q
        <3>6. print \in Seq(AsyncResponses)
            BY <3>1, <3>2, <3>3
        <3> QED BY <3>2, <3>3, <3>4, <3>5, <3>6, Zenon
    <2> QED BY <1>1, <1>2, <1>6, <1>7, <2>1, AsyncStays
<1>14. KindOf(p) = "max" =>
         /\ shown \in Seq(Int) /\ q \in Seq(Int) /\ t \in Seq(Int) /\ print = <<Head(q)>>
         /\ Head(q) \in Int /\ Len(q) \in Nat \ {0} /\ Shown(p)' = q /\ Shown(p) = shown \o q
    <2> SUFFICES ASSUME KindOf(p) = "max"
                 PROVE  /\ shown \in Seq(Int) /\ q \in Seq(Int) /\ t \in Seq(Int)
                        /\ print = <<Head(q)>> /\ Head(q) \in Int /\ Len(q) \in Nat \ {0}
                        /\ Shown(p)' = q /\ Shown(p) = shown \o q
        OBVIOUS
    <2>1. shown \in Seq(Int) /\ q \in Seq(Int) /\ q # <<>>
        BY <1>2, ShownIn DEF q, shown
    <2>2. print = <<Head(q)>> /\ t = Tail(q)
        BY DEF print, t
    <2>3. Head(q) \in Int /\ t \in Seq(Int) /\ Len(q) \in Nat \ {0}
        BY <2>1, <2>2
    <2>4. <<Head(q)>> \o Tail(q) = q
        BY <2>1, HeadStays
    <2>5. Shown(p)' = q
        BY <1>6, <2>2, <2>4 DEF Shown
    <2> QED BY <2>1, <2>2, <2>3, <2>5 DEF Shown, shown, q
<1>15. KindOf(p) = "max" =>
         \A i \in 1 .. Len(q) :
             Len(shown) + i \in DOMAIN Shown(p) /\ Shown(p)[Len(shown) + i] = q[i]
    BY <1>14, InConcat
<1>16. CsMaxOk(p)'
    <2> SUFFICES ASSUME KindOf(p) = "max" PROVE CsMaxOk(p)'
        BY <1>2 DEF CsMaxOk, KindOf
    <2>1. Delivered(p)' = Delivered(p)
        BY <1>2, <1>6, DeliveredStays
    <2>2. \A m : Report(p, m)' <=> Report(p, m)
        BY <1>2, <2>1 DEF Report, IsMaxOfFirst
    <2>3. /\ method[p].max \in Int /\ IsMaxOfFirst(p, method[p].max, method[p].count)
          /\ \A i \in DOMAIN Shown(p) :
               /\ Report(p, Shown(p)[i]) /\ Shown(p)[i] <= method[p].max
               /\ \A j \in 1 .. i : Shown(p)[j] <= Shown(p)[i]
          /\ respondTask[p].at = "write" =>
               /\ Report(p, respondTask[p].value) /\ respondTask[p].value <= method[p].max
               /\ \A i \in DOMAIN Shown(p) : Shown(p)[i] <= respondTask[p].value
        BY <1>1 DEF CsMaxOk
    <2>4. ASSUME NEW i \in 1 .. Len(q)
          PROVE  /\ Report(p, q[i]) /\ q[i] <= method[p].max
                 /\ \A j \in 1 .. i : q[j] <= q[i]
                 /\ respondTask[p].at = "write" => q[i] <= respondTask[p].value
        <3>1. Len(shown) + i \in DOMAIN Shown(p) /\ Shown(p)[Len(shown) + i] = q[i]
            BY <1>15
        <3>2. \A j \in 1 .. i : /\ j \in 1 .. Len(q) /\ Shown(p)[Len(shown) + j] = q[j]
                                /\ Len(shown) + j \in 1 .. Len(shown) + i
            <4>1. \A j \in 1 .. i : j \in 1 .. Len(q)
                BY <1>14
            <4>2. Len(shown) \in Nat
                BY <1>14
            <4>3. \A j \in 1 .. i : Len(shown) + j \in 1 .. Len(shown) + i
                BY <4>2
            <4> QED BY <1>15, <4>1, <4>3
        <3> QED BY <2>3, <3>1, <3>2
    <2>5. IsMaxOfFirst(p, method[p].max, method[p].count)'
        BY <1>2, <2>1, <2>3 DEF IsMaxOfFirst
    <2>6. PICK y : y = q
        OBVIOUS
    <2>7. /\ y \in Seq(Int) /\ DOMAIN y = 1 .. Len(y)
          /\ \A i \in 1 .. Len(y) :
               /\ Report(p, y[i]) /\ y[i] <= method[p].max
               /\ \A j \in 1 .. i : y[j] <= y[i]
               /\ respondTask[p].at = "write" => y[i] <= respondTask[p].value
        BY <1>14, <2>4, <2>6
    <2>8. \A i \in DOMAIN y : Report(p, y[i])'
        BY <2>2, <2>7
    <2>9. \A i \in DOMAIN Shown(p)' :
             /\ Report(p, Shown(p)[i])' /\ Shown(p)'[i] <= method[p].max
             /\ \A j \in 1 .. i : Shown(p)'[j] <= Shown(p)'[i]
        BY <1>14, <2>6, <2>7, <2>8
    <2>10. respondTask[p].at = "write" =>
             /\ Report(p, respondTask[p].value)' /\ respondTask[p].value <= method[p].max
             /\ \A i \in DOMAIN Shown(p)' : Shown(p)'[i] <= respondTask[p].value
        <3>1. PICK v : v = respondTask[p].value
            OBVIOUS
        <3>2. respondTask[p].at = "write" => Report(p, v)'
            BY <2>2, <2>3, <3>1
        <3>3. respondTask[p].at = "write" => Report(p, respondTask[p].value)'
            BY <1>2, <3>1, <3>2 DEF Report, IsMaxOfFirst
        <3> QED BY <1>14, <2>3, <2>6, <2>7, <3>3
    <2>11. /\ program'[p].printed \in Seq(Int) /\ Len(program'[p].printed) <= 1
           /\ responseStream'[p].queue \in Seq(Int)
        <3>1. \A x \in Int : <<x>> \in Seq(Int) /\ Len(<<x>>) <= 1
            OBVIOUS
        <3> QED BY <1>6, <1>14, <3>1
    <2> QED BY <1>2, <2>3, <2>5, <2>9, <2>10, <2>11 DEF CsMaxOk
<1>17. LastOk(p)'
    <2> SUFFICES ASSUME KindOf(p) = "max" PROVE LastOk(p)'
        BY <1>2 DEF LastOk, KindOf
    <2>1. Delivered(p)' = Delivered(p)
        BY <1>2, <1>6, DeliveredStays
    <2>2. Shown(p)' # <<>> /\ Shown(p)'[Len(Shown(p)')] = Shown(p)[Len(Shown(p))]
        <3>1. Len(Shown(p)) = Len(shown) + Len(q)
            BY <1>14, InConcat
        <3>2. Len(q) \in 1 .. Len(q)
            BY <1>14
        <3>3. Shown(p)[Len(shown) + Len(q)] = q[Len(q)] /\ q # <<>>
            BY <1>2, <1>15, <3>2
        <3> QED BY <1>14, <3>1, <3>3
    <2>3. Shown(p)'[Len(Shown(p))'] = Shown(p)[Len(Shown(p))]
        BY <2>2
    <2> QED BY <1>1, <1>2, <1>6, <1>7, <2>1, <2>2, <2>3 DEF LastOk, KindOf
<1> QED BY <1>5, <1>8, <1>9, <1>11, <1>12, <1>13, <1>16, <1>17, OneCallIInv DEF CsStreamOk

\* The stream of responses takes a message, or refuses it.
LEMMA WriteMoves ==
    ASSUME CsStreamsIInv, NEW p \in Programs, NEW m,
           NEW s \in IF Cancelled(p) THEN {responseStream[p]} ELSE WriteAsync(responseStream[p], m),
           responseStream' = [responseStream EXCEPT ![p] = s]
    PROVE  /\ responseStream' = [q \in Programs |-> responseStream'[q]]
           /\ \A q \in Programs \ {p} : responseStream'[q] = responseStream[q]
           /\ IsWay(responseStream'[p])
           /\ responseStream'[p].queue =
                IF Cancelled(p) \/ responseStream[p].writing THEN responseStream[p].queue
                ELSE Append(responseStream[p].queue, m)
           /\ Cancelled(p) => responseStream'[p] = responseStream[p]
<1>1. CsShape
    BY CsParts
<1>2. /\ responseStream' = [q \in Programs |-> responseStream'[q]]
      /\ \A q \in Programs \ {p} : responseStream'[q] = responseStream[q]
      /\ responseStream'[p] = s
    BY <1>1 DEF CsShape
<1>3. CASE Cancelled(p)
    BY <1>1, <1>2, <1>3 DEF CsShape
<1>4. CASE ~Cancelled(p) /\ responseStream[p].writing
    BY <1>1, <1>2, <1>4 DEF CsShape, WriteAsync
<1>5. CASE ~Cancelled(p) /\ ~responseStream[p].writing
    BY <1>2, <1>5 DEF WriteAsync, IsWay
<1> QED BY <1>3, <1>4, <1>5

LEMMA RespondWritesIInv ==
    ASSUME CsStreamsIInv, NEW p \in Programs, RespondWrites(p) PROVE CsStreamsIInv'
<1>1. /\ CsShape /\ CallOk(p) /\ Fresh(p) /\ Written(p) /\ Read(p)
      /\ CsAverageOk(p) /\ CsSyncOk(p) /\ CsAsyncOk(p) /\ CsMaxOk(p) /\ LastOk(p)
    BY CsParts
<1> DEFINE v == respondTask[p].value  writing == responseStream[p].writing
           queue == responseStream[p].queue
<1>2. /\ UNCHANGED <<args, program, requestStream, method>>
      /\ respondTask[p].at = "write"
      /\ respondTask' = [respondTask EXCEPT ![p].at = "check", ![p].refused = writing]
    BY DEF RespondWrites
<1>3. KindOf(p) = "max" /\ program[p].at # "off"
    BY <1>1, <1>2 DEF CallOk, Fresh
<1> HIDE DEF v, writing, queue
<1>4. /\ respondTask' = [q \in Programs |-> respondTask'[q]]
      /\ \A q \in Programs \ {p} : respondTask'[q] = respondTask[q]
      /\ respondTask'[p] = [at |-> "check", value |-> v, refused |-> writing]
    <2>1. /\ respondTask' = [q \in Programs |-> respondTask'[q]]
          /\ \A q \in Programs \ {p} : respondTask'[q] = respondTask[q]
          /\ respondTask'[p] = [respondTask[p] EXCEPT !.at = "check", !.refused = writing]
        BY <1>1, <1>2 DEF CsShape
    <2> QED BY <1>1, <2>1 DEF CsShape, IsTask, v
<1>5. /\ responseStream' = [q \in Programs |-> responseStream'[q]]
      /\ \A q \in Programs \ {p} : responseStream'[q] = responseStream[q]
      /\ IsWay(responseStream'[p])
      /\ responseStream'[p].queue = IF Cancelled(p) \/ writing THEN queue ELSE Append(queue, v)
    <2>1. PICK s \in IF Cancelled(p) THEN {responseStream[p]}
                     ELSE WriteAsync(responseStream[p], v) :
            responseStream' = [responseStream EXCEPT ![p] = s]
        BY DEF RespondWrites, v
    <2> QED BY <2>1, WriteMoves DEF queue, writing
<1>6. OneCall(p)
    BY <1>1, <1>2, <1>4, <1>5 DEF CsShape, OneCall, IsTask
<1>7. respondTask'[p].at = "check" /\ respondTask'[p].refused = writing
    BY <1>4
<1>8. CallOk(p)' /\ Fresh(p)'
    <2>1. program[p].at # "done"
        BY <1>1, <1>2, <1>3 DEF CallOk, LastOk
    <2> QED BY <1>1, <1>2, <1>3, <1>7, <2>1 DEF CallOk, Fresh, KindOf
<1>9. Written(p)' /\ Read(p)'
    BY <1>1, <1>2, WrittenStays, ReadStays
<1>10. CsAverageOk(p)' /\ CsSyncOk(p)' /\ CsAsyncOk(p)'
    BY <1>2, <1>3 DEF CsAverageOk, CsSyncOk, CsAsyncOk, KindOf
<1>11. /\ method[p].max \in Int /\ IsMaxOfFirst(p, method[p].max, method[p].count)
       /\ program[p].printed \in Seq(Int) /\ Len(program[p].printed) <= 1 /\ queue \in Seq(Int)
       /\ v \in Int /\ Report(p, v) /\ v <= method[p].max
       /\ \A i \in DOMAIN Shown(p) :
            /\ Report(p, Shown(p)[i]) /\ Shown(p)[i] <= method[p].max /\ Shown(p)[i] <= v
            /\ \A j \in 1 .. i : Shown(p)[j] <= Shown(p)[i]
    BY <1>1, <1>2, <1>3 DEF CsMaxOk, Report, v, queue
<1>12. /\ Shown(p) = program[p].printed \o queue /\ Shown(p) \in Seq(Int)
       /\ Len(Shown(p)) \in Nat /\ DOMAIN Shown(p) = 1 .. Len(Shown(p))
    <2>1. Shown(p) = program[p].printed \o queue
        BY DEF Shown, queue
    <2>2. program[p].printed \o queue \in Seq(Int)
        BY <1>11
    <2>3. Shown(p) \in Seq(Int)
        BY <2>1, <2>2
    <2> QED BY <2>1, <2>3
<1>13. Shown(p)' = IF Cancelled(p) \/ writing THEN Shown(p) ELSE Append(Shown(p), v)
    <2>1. Shown(p)' = program[p].printed \o responseStream'[p].queue
        BY <1>2 DEF Shown
    <2>2. program[p].printed \o Append(queue, v) = Append(program[p].printed \o queue, v)
        <3>1. program[p].printed \in Seq(Int) /\ queue \in Seq(Int) /\ v \in Int
            BY <1>11
        <3>2. \A a, b \in Seq(Int) : \A e \in Int : a \o Append(b, e) = Append(a \o b, e)
            BY AppendToEnd
        <3> QED BY <3>1, <3>2, Zenon
    <2> QED BY <1>5, <1>12, <2>1, <2>2
<1>14. PICK x : x = Shown(p)'
    OBVIOUS
<1>15. /\ x \in Seq(Int) /\ DOMAIN x = 1 .. Len(x)
       /\ \A i \in 1 .. Len(x) :
            /\ Report(p, x[i]) /\ x[i] <= method[p].max /\ \A j \in 1 .. i : x[j] <= x[i]
    <2> DEFINE d == Shown(p)
    <2>1. /\ d \in Seq(Int) /\ Len(d) \in Nat /\ DOMAIN d = 1 .. Len(d)
          /\ x = IF Cancelled(p) \/ writing THEN d ELSE Append(d, v)
          /\ \A i \in 1 .. Len(d) :
               /\ Report(p, d[i]) /\ d[i] <= method[p].max /\ d[i] <= v
               /\ \A j \in 1 .. i : d[j] <= d[i]
        BY <1>11, <1>12, <1>13, <1>14
    <2> HIDE DEF d
    <2>2. CASE Cancelled(p) \/ writing
        BY <2>1, <2>2
    <2>3. CASE ~(Cancelled(p) \/ writing)
        <3>1. d \in Seq(Int) /\ v \in Int /\ x = Append(d, v)
            BY <1>11, <2>1, <2>3
        <3>2. /\ x \in Seq(Int) /\ Len(x) = Len(d) + 1 /\ x[Len(d) + 1] = v /\ Len(d) \in Nat
              /\ DOMAIN x = 1 .. Len(x) /\ \A i \in 1 .. Len(d) : x[i] = d[i]
            BY <3>1
        <3>3. ASSUME NEW i \in 1 .. Len(x)
              PROVE  Report(p, x[i]) /\ x[i] <= method[p].max /\ \A j \in 1 .. i : x[j] <= x[i]
            <4>1. CASE i \in 1 .. Len(d)
                <5>1. \A j \in 1 .. i : j \in 1 .. Len(d)
                    BY <3>2, <4>1
                <5> QED BY <2>1, <3>2, <4>1, <5>1
            <4>2. CASE i = Len(d) + 1
                <5>1. \A j \in 1 .. i : j \in 1 .. Len(d) \/ j = Len(d) + 1
                    BY <3>2, <4>2
                <5>2. v <= v
                    BY <1>11
                <5> QED BY <1>11, <2>1, <3>2, <4>2, <5>1, <5>2
            <4>3. i \in 1 .. Len(d) \/ i = Len(d) + 1
                BY <3>2
            <4> QED BY <4>1, <4>2, <4>3
        <3> QED BY <3>2, <3>3
    <2> QED BY <2>2, <2>3
<1>16. Delivered(p)' = Delivered(p)
    BY <1>2, DeliveredStays
<1>17. CsMaxOk(p)'
    <2>1. \A m : Report(p, m)' <=> Report(p, m)
        BY <1>2, <1>16 DEF Report, IsMaxOfFirst
    <2>2. \A i \in DOMAIN x : Report(p, x[i])'
        BY <1>15, <2>1
    <2>3. \A i \in DOMAIN Shown(p)' :
             /\ Report(p, Shown(p)[i])' /\ Shown(p)'[i] <= method[p].max
             /\ \A j \in 1 .. i : Shown(p)'[j] <= Shown(p)'[i]
        BY <1>14, <1>15, <2>2
    <2>4. IsMaxOfFirst(p, method[p].max, method[p].count)'
        BY <1>2, <1>11, <1>16 DEF IsMaxOfFirst
    <2>5. responseStream'[p].queue \in Seq(Int)
        BY <1>5, <1>11
    <2> QED BY <1>2, <1>7, <1>11, <2>3, <2>4, <2>5 DEF CsMaxOk
<1>18. LastOk(p)'
    <2>1. method[p].at # "OK"
        BY <1>1, <1>2, <1>3 DEF LastOk
    <2>2. method[p].at \in {"none", "running"} => method[p].isResponding /\ ~method[p].asleep
        BY <1>1, <1>3 DEF LastOk
    <2>3. method[p].at = "waiting" =>
             /\ ~method[p].isResponding /\ program[p].completed
             /\ method[p].count = Len(Delivered(p))
        BY <1>1, <1>3 DEF LastOk
    <2>4. method[p].at = "waiting" /\ method[p].asleep /\ ~Cancelled(p) /\ ~writing =>
             Shown(p)' # <<>> /\ Shown(p)'[Len(Shown(p)')] = method[p].max
        <3> SUFFICES ASSUME method[p].at = "waiting", method[p].asleep, ~Cancelled(p), ~writing
                     PROVE  Shown(p)' # <<>> /\ Shown(p)'[Len(Shown(p)')] = method[p].max
            OBVIOUS
        <3>1. v = method[p].max
            BY <1>1, <1>2, <1>3 DEF LastOk, v
        <3>2. x = Append(Shown(p), v)
            BY <1>13, <1>14
        <3>3. x # <<>> /\ x[Len(x)] = v
            BY <1>11, <1>12, <3>2
        <3> QED BY <1>14, <3>1, <3>3
    <2>5. Cancelled(p)' = Cancelled(p)
        BY <1>2 DEF Cancelled
    <2> QED BY <1>2, <1>7, <1>16, <2>1, <2>2, <2>3, <2>4, <2>5 DEF LastOk
<1> QED BY <1>6, <1>8, <1>9, <1>10, <1>17, <1>18, OneCallIInv DEF CsStreamOk

LEMMA AsyncFibonacciIInv ==
    ASSUME CsStreamsIInv, NEW p \in Programs, AsyncFibonacciCs(p) PROVE CsStreamsIInv'
<1>1. /\ CsShape /\ CallOk(p) /\ Fresh(p) /\ Written(p) /\ CsAsyncOk(p)
    BY CsParts
<1>2. /\ UNCHANGED <<args, program, requestStream, respondTask>>
      /\ KindOf(p) = "async" /\ method[p].at = "running" /\ program[p].at \notin {"off", "done"}
    BY <1>1 DEF AsyncFibonacciCs, Serves, CallOk
<1>3. Fresh(p)' /\ Written(p)' /\ Read(p)' /\ CsAverageOk(p)' /\ CsSyncOk(p)' /\ CsMaxOk(p)'
      /\ LastOk(p)'
    BY <1>2 DEF Fresh, Written, Read, CsAverageOk, CsSyncOk, CsMaxOk, LastOk, KindOf
<1> DEFINE c == method[p].count  writing == responseStream[p].writing
           queue == responseStream[p].queue
<1>4. /\ program[p].printed \in Seq(AsyncResponses) /\ queue \in Seq(AsyncResponses)
      /\ c \in Nat /\ (c > 0 => c <= args[p].number) /\ args[p].number \in Int
      /\ method[p].refused \subseteq 1 .. c - 1 /\ (c = 0 => ~writing)
      /\ ~Cancelled(p) =>
           {Shown(p)[k].sequence : k \in DOMAIN Shown(p)} = (0 .. c - 1) \ method[p].refused
      /\ \A k \in DOMAIN Shown(p) :
           /\ Shown(p)[k] = AsyncResponse(Shown(p)[k].sequence)
           /\ Shown(p)[k].sequence \in 0 .. c - 1
           /\ \A j \in 1 .. k - 1 : Shown(p)[j].sequence < Shown(p)[k].sequence
    BY <1>1, <1>2, CsNumbers DEF CsAsyncOk
<1>5. CASE c >= args[p].number
    <2>1. SetMethod(p, "OK") /\ responseStream' = responseStream
        BY <1>4, <1>5 DEF AsyncFibonacciCs
    <2>2. /\ method' = [q \in Programs |-> method'[q]]
          /\ \A q \in Programs \ {p} : method'[q] = method[q]
          /\ IsMethod(method'[p])
          /\ method'[p].at = "OK" /\ method'[p].count = method[p].count
          /\ method'[p].refused = method[p].refused /\ method'[p].asleep = method[p].asleep
        BY <1>1, <2>1, MethodMoves
    <2>3. OneCall(p)
        BY <1>1, <1>2, <2>1, <2>2 DEF CsShape, OneCall
    <2>4. CallOk(p)'
        BY <1>1, <1>2, <2>1, <2>2 DEF CallOk, KindOf
    <2>5. CsAsyncOk(p)'
        <3>1. Shown(p)' = Shown(p) /\ Cancelled(p)' = Cancelled(p)
            BY <1>2, <2>1 DEF Shown, Cancelled
        <3>2. AsyncResponses' = AsyncResponses
            BY DEF AsyncResponses, AsyncResponse, ToInt32
        <3> QED BY <1>2, <1>4, <1>5, <2>1, <2>2, <3>1, <3>2 DEF CsAsyncOk, AsyncResponse, ToInt32
    <2> QED BY <1>3, <2>3, <2>4, <2>5, OneCallIInv DEF CsStreamOk
<1>6. CASE c < args[p].number
    <2> DEFINE m == AsyncResponse(c)
               refused == IF writing THEN method[p].refused \union {c} ELSE method[p].refused
    <2>1. PICK s \in IF Cancelled(p) THEN {responseStream[p]}
                     ELSE WriteAsync(responseStream[p], m) :
            responseStream' = [responseStream EXCEPT ![p] = s]
        BY <1>6 DEF AsyncFibonacciCs, AsyncResponse
    <2>2. method' = [method EXCEPT ![p].count = c + 1, ![p].refused = refused]
        BY <1>6 DEF AsyncFibonacciCs
    <2> HIDE DEF m, refused, c, writing, queue
    <2>3. /\ method' = [q \in Programs |-> method'[q]]
          /\ \A q \in Programs \ {p} : method'[q] = method[q]
          /\ method'[p] =
               [at |-> "running", count |-> c + 1, sum |-> method[p].sum, max |-> method[p].max,
                isResponding |-> method[p].isResponding, refused |-> refused,
                asleep |-> method[p].asleep]
        <3>1. /\ method' = [q \in Programs |-> method'[q]]
              /\ \A q \in Programs \ {p} : method'[q] = method[q]
              /\ method'[p] = [method[p] EXCEPT !.count = c + 1, !.refused = refused]
            BY <1>1, <2>2 DEF CsShape
        <3> QED BY <1>1, <1>2, <3>1 DEF CsShape, IsMethod
    <2>4. /\ responseStream' = [q \in Programs |-> responseStream'[q]]
          /\ \A q \in Programs \ {p} : responseStream'[q] = responseStream[q]
          /\ IsWay(responseStream'[p])
          /\ responseStream'[p].queue = IF Cancelled(p) \/ writing THEN queue ELSE Append(queue, m)
        BY <2>1, WriteMoves DEF queue, writing
    <2>5. /\ method'[p].at = "running" /\ method'[p].count = c + 1 /\ method'[p].refused = refused
          /\ method'[p].asleep = method[p].asleep /\ IsMethod(method'[p])
        BY <2>3 DEF IsMethod
    <2>6. OneCall(p)
        BY <1>1, <1>2, <2>3, <2>4, <2>5 DEF CsShape, OneCall
    <2>7. CallOk(p)'
        BY <1>1, <1>2, <2>5 DEF CallOk, KindOf
    <2>8. m \in AsyncResponses /\ m = AsyncResponse(m.sequence) /\ m.sequence = c
        BY <1>4 DEF m, AsyncResponses, AsyncResponse
    <2> DEFINE d == Shown(p)
    <2>9. /\ d = program[p].printed \o queue /\ d \in Seq(AsyncResponses)
          /\ Len(d) \in Nat /\ DOMAIN d = 1 .. Len(d)
        <3>1. d = program[p].printed \o queue
            BY DEF Shown, queue
        <3>2. program[p].printed \o queue \in Seq(AsyncResponses)
            BY <1>4
        <3> HIDE DEF d
        <3>3. d \in Seq(AsyncResponses)
            BY <3>1, <3>2
        <3> QED BY <3>1, <3>3
    <2>10. Shown(p)' = IF Cancelled(p) \/ writing THEN d ELSE Append(d, m)
        <3>1. Shown(p)' = program[p].printed \o responseStream'[p].queue
            BY <1>2 DEF Shown
        <3>2. program[p].printed \o Append(queue, m) = Append(program[p].printed \o queue, m)
            <4>1. program[p].printed \in Seq(AsyncResponses) /\ queue \in Seq(AsyncResponses)
                  /\ m \in AsyncResponses
                BY <1>4, <2>8
            <4>2. \A a, b \in Seq(AsyncResponses) : \A e \in AsyncResponses :
                    a \o Append(b, e) = Append(a \o b, e)
                BY AppendToEnd
            <4> QED BY <4>1, <4>2, Zenon
        <3> QED BY <2>4, <2>9, <3>1, <3>2
    <2>11. PICK x : x = Shown(p)'
        OBVIOUS
    <2>12. /\ \A k \in 1 .. Len(d) :
                /\ d[k] = AsyncResponse(d[k].sequence) /\ d[k].sequence \in 0 .. c - 1
                /\ \A j \in 1 .. k - 1 : d[j].sequence < d[k].sequence
           /\ ~Cancelled(p) => {d[k].sequence : k \in 1 .. Len(d)} = (0 .. c - 1) \ method[p].refused
           /\ x = IF Cancelled(p) \/ writing THEN d ELSE Append(d, m)
        BY <1>4, <2>9, <2>10, <2>11
    <2> HIDE DEF d
    <2>13. /\ DOMAIN x = 1 .. Len(x)
           /\ \A k \in 1 .. Len(x) :
                /\ x[k] = AsyncResponse(x[k].sequence) /\ x[k].sequence \in 0 .. c
                /\ \A j \in 1 .. k - 1 : x[j].sequence < x[k].sequence
           /\ ~Cancelled(p) => {x[k].sequence : k \in 1 .. Len(x)} = (0 .. c) \ refused
        <3>0. /\ c \in Nat /\ refused = IF writing THEN method[p].refused \union {c} ELSE method[p].refused
              /\ \A i : i \in 0 .. c - 1 => i \in 0 .. c
              /\ 0 .. c = (0 .. c - 1) \union {c} /\ c \notin 0 .. c - 1
              /\ c \notin method[p].refused
            <4>1. c \in Nat /\ method[p].refused \subseteq 1 .. c - 1
                BY <1>4
            <4> QED BY <4>1 DEF refused
        <3>1. CASE Cancelled(p) \/ writing
            <4>1. x = d
                BY <2>12, <3>1
            <4>2. ~Cancelled(p) => (0 .. c - 1) \ method[p].refused = (0 .. c) \ refused
                BY <3>0, <3>1, Zenon
            <4>3. ~Cancelled(p) => {x[k].sequence : k \in 1 .. Len(x)} = (0 .. c) \ refused
                BY <2>12, <4>1, <4>2
            <4> QED BY <2>9, <2>12, <3>0, <4>1, <4>3
        <3>2. CASE ~(Cancelled(p) \/ writing)
            <4>1. d \in Seq(AsyncResponses) /\ m \in AsyncResponses /\ x = Append(d, m)
                BY <2>8, <2>9, <2>12, <3>2
            <4>2. /\ DOMAIN x = 1 .. Len(x) /\ Len(x) = Len(d) + 1 /\ x[Len(d) + 1] = m
                  /\ Len(d) \in Nat /\ \A i \in 1 .. Len(d) : x[i] = d[i]
                BY <4>1
            <4>3. \A i : i \in 1 .. Len(x) <=> i \in 1 .. Len(d) \/ i = Len(d) + 1
                BY <4>2
            <4>4. ASSUME NEW k \in 1 .. Len(x)
                  PROVE  /\ x[k] = AsyncResponse(x[k].sequence) /\ x[k].sequence \in 0 .. c
                         /\ \A j \in 1 .. k - 1 : x[j].sequence < x[k].sequence
                <5>1. CASE k \in 1 .. Len(d)
                    <6>1. \A j \in 1 .. k - 1 : j \in 1 .. Len(d)
                        BY <4>2, <5>1
                    <6> QED BY <2>12, <3>0, <4>2, <5>1, <6>1
                <5>2. CASE k = Len(d) + 1
                    <6>1. \A j \in 1 .. k - 1 : j \in 1 .. Len(d)
                        BY <4>2, <5>2
                    <6>2. \A j \in 1 .. Len(d) : d[j].sequence < c
                        BY <2>12, <3>0
                    <6>3. c \in 0 .. c
                        BY <3>0
                    <6> QED BY <2>8, <4>2, <5>2, <6>1, <6>2, <6>3
                <5> QED BY <4>3, <5>1, <5>2
            <4>5. {x[k].sequence : k \in 1 .. Len(x)} = {d[k].sequence : k \in 1 .. Len(d)} \union {c}
                BY <2>8, <4>2, <4>3, Zenon
            <4>6. (0 .. c) \ refused = ((0 .. c - 1) \ method[p].refused) \union {c}
                BY <3>0, <3>2, Zenon
            <4> QED BY <2>12, <3>2, <4>2, <4>4, <4>5, <4>6
        <3> QED BY <3>1, <3>2
    <2>14. refused \subseteq 1 .. c
        <3>1. c \in Nat /\ method[p].refused \subseteq 1 .. c - 1 /\ (c = 0 => ~writing)
            BY <1>4
        <3> QED BY <3>1 DEF refused
    <2>15. responseStream'[p].queue \in Seq(AsyncResponses)
        BY <1>4, <2>4, <2>8
    <2>16. CsAsyncOk(p)'
        <3>1. AsyncResponses' = AsyncResponses /\ Cancelled(p)' = Cancelled(p)
            BY <1>2 DEF AsyncResponses, AsyncResponse, ToInt32, Cancelled
        <3>2. /\ c + 1 \in Nat /\ c + 1 <= args[p].number /\ c + 1 # 0 /\ c \in Nat
            BY <1>4, <1>6
        <3>3. \A i : AsyncResponse(i)' = AsyncResponse(i)
            BY DEF AsyncResponse, ToInt32
        <3>4. /\ ~Cancelled(p)' =>
                   {x[k].sequence : k \in DOMAIN x} = (0 .. method'[p].count - 1) \ method'[p].refused
              /\ \A k \in DOMAIN x :
                   /\ x[k] = AsyncResponse(x[k].sequence)
                   /\ x[k].sequence \in 0 .. method'[p].count - 1
                   /\ \A j \in 1 .. k - 1 : x[j].sequence < x[k].sequence
            <4>1. method'[p].count = c + 1 /\ method'[p].refused = refused
                BY <2>5
            <4>2. method'[p].count - 1 = c
                <5>1. \A i \in Nat : (i + 1) - 1 = i
                    OBVIOUS
                <5> QED BY <3>2, <4>1, <5>1
            <4> QED BY <2>13, <3>1, <4>1, <4>2, Zenon
        <3>5. /\ program'[p].printed \in Seq(AsyncResponses)' /\ method'[p].count \in Nat
              /\ method'[p].count > 0 => method'[p].count <= args'[p].number
              /\ method'[p].refused \subseteq 1 .. method'[p].count - 1
              /\ method'[p].count # 0 /\ method'[p].at # "OK"
            BY <1>2, <1>4, <2>5, <2>14, <3>1, <3>2
        <3> QED BY <2>11, <2>15, <3>1, <3>4, <3>5 DEF CsAsyncOk, AsyncResponse, ToInt32
    <2> QED BY <1>3, <2>6, <2>7, <2>16, OneCallIInv DEF CsStreamOk
<1>7. c < args[p].number \/ c >= args[p].number
    BY <1>4
<1> QED BY <1>5, <1>6, <1>7

-------------------------------------------------------------------------------

LEMMA CsStreamsNext_IInv == CsStreamsIInv /\ [CsStreamsNext]_callVars => CsStreamsIInv'
<1> SUFFICES ASSUME CsStreamsIInv, [CsStreamsNext]_callVars PROVE CsStreamsIInv'
    OBVIOUS
<1>1. CASE UNCHANGED callVars
    <2>1. CsShape'
        BY <1>1 DEF callVars, CsStreamsIInv, CsShape
    <2>2. ASSUME NEW p \in Programs PROVE CsStreamOk(p)'
        BY <1>1, CsStays DEF callVars, CsStreamsIInv
    <2> QED BY <2>1, <2>2 DEF CsStreamsIInv
<1>2. ASSUME NEW p \in Programs, ProgramStep(p) \/ ReaderStep(p) \/ RespondStep(p)
      PROVE  CsStreamsIInv'
    BY <1>2, CallMethodIInv, WriteNumberIInv, CompleteAsyncIInv, MoveNextResponseIInv,
       ProgramEndsIInv, RespondLoopIInv, RespondWakesIInv, RespondWritesIInv
    DEF ProgramStep, ReaderStep, RespondStep
<1>3. ASSUME NEW p \in Programs, MethodStep(p) PROVE CsStreamsIInv'
    BY <1>3, FindAverageIInv, FindAverageEndsIInv, MoveNextThrowsIInv, SyncFibonacciIInv,
       AsyncFibonacciIInv, FindMaxIInv, FindMaxEndsIInv, FindMaxReturnsIInv
    DEF MethodStep
<1>4. ASSUME NEW p \in Programs,
             RequestWriteEnds(p) \/ ResponseWriteEnds(p) \/ CancelAsync(p) \/ KillProgram(p)
      PROVE  CsStreamsIInv'
    BY <1>4, WriteEndsIInv, ProgramEndsIInv
<1> QED BY <1>1, <1>2, <1>3, <1>4 DEF CsStreamsNext

\* Both directions of every call keep their flags.
WaysOk == \A p \in Programs : IsStreamState(requestStream[p]) /\ IsStreamState(responseStream[p])

LEMMA WriteAsyncWay ==
    ASSUME NEW s, IsStreamState(s), NEW m, NEW t \in WriteAsync(s, m) PROVE IsStreamState(t)
BY DEF WriteAsync, IsStreamState

\* One stream of a direction is replaced, or none.
LEMMA WayReplaced ==
    ASSUME NEW f, f = [q \in Programs |-> f[q]], \A q \in Programs : IsStreamState(f[q]),
           NEW p \in Programs, NEW t, IsStreamState(t)
    PROVE  \A q \in Programs : IsStreamState([f EXCEPT ![p] = t][q])
OBVIOUS

LEMMA WaysStep == CsShape /\ WaysOk /\ [CsStreamsNext]_callVars => WaysOk'
<1> SUFFICES ASSUME CsShape, WaysOk, [CsStreamsNext]_callVars PROVE WaysOk'
    OBVIOUS
<1>0. /\ requestStream = [q \in Programs |-> requestStream[q]]
      /\ responseStream = [q \in Programs |-> responseStream[q]]
      /\ \A q \in Programs : IsWay(requestStream[q]) /\ IsWay(responseStream[q])
      /\ \A q \in Programs : IsStreamState(requestStream[q]) /\ IsStreamState(responseStream[q])
    BY DEF CsShape, WaysOk
<1>1. ASSUME UNCHANGED requestStream \/
               \E p \in Programs : \E t :
                 requestStream' = [requestStream EXCEPT ![p] = t] /\ IsStreamState(t),
             UNCHANGED responseStream \/
               \E p \in Programs : \E t :
                 responseStream' = [responseStream EXCEPT ![p] = t] /\ IsStreamState(t)
      PROVE  WaysOk'
    <2>1. \A q \in Programs : IsStreamState(requestStream'[q])
        BY <1>0, <1>1, WayReplaced
    <2>2. \A q \in Programs : IsStreamState(responseStream'[q])
        BY <1>0, <1>1, WayReplaced
    <2> QED BY <2>1, <2>2 DEF WaysOk, IsStreamState
<1>2. CASE UNCHANGED <<requestStream, responseStream>>
    BY <1>1, <1>2
<1>3. ASSUME NEW p \in Programs, RequestWriteEnds(p) \/ FindAverage(p) \/ FindMax(p)
                                  \/ CompleteAsync(p) \/ WriteNumber(p)
      PROVE  WaysOk'
    <2> DEFINE s == requestStream[p]
    <2>1. IsWay(s) /\ IsStreamState(s) /\ UNCHANGED responseStream
        BY <1>0, <1>3 DEF RequestWriteEnds, FindAverage, FindMax, CompleteAsync, WriteNumber
    <2>2. CASE WriteNumber(p)
        BY <1>1, <2>1, <2>2, WriteAsyncWay DEF WriteNumber
    <2>3. CASE ~WriteNumber(p)
        <3>1. \/ requestStream' = [requestStream EXCEPT ![p] = [s EXCEPT !.writing = FALSE]]
              \/ requestStream' = [requestStream EXCEPT ![p] = [s EXCEPT !.queue = Tail(@)]]
              \/ requestStream' = [requestStream EXCEPT ![p] = [s EXCEPT !.closed = ~s.writing]]
            BY <1>3, <2>3 DEF RequestWriteEnds, FindAverage, FindMax, CompleteAsync
        <3>2. /\ IsStreamState([s EXCEPT !.writing = FALSE])
              /\ IsStreamState([s EXCEPT !.queue = Tail(@)])
              /\ IsStreamState([s EXCEPT !.closed = ~s.writing])
            <4>1. PICK v : v = s
                OBVIOUS
            <4>2. IsWay(v) /\ IsStreamState(v)
                BY <2>1, <4>1
            <4>3. /\ IsStreamState([v EXCEPT !.writing = FALSE])
                  /\ IsStreamState([v EXCEPT !.queue = Tail(@)])
                  /\ IsStreamState([v EXCEPT !.closed = ~v.writing])
                BY <4>2 DEF IsWay, IsStreamState
            <4> QED BY <4>1, <4>3
        <3> HIDE DEF s
        <3> QED BY <1>1, <2>1, <3>1, <3>2
    <2> QED BY <2>2, <2>3
<1>4. ASSUME NEW p \in Programs, ResponseWriteEnds(p) \/ MoveNextResponse(p)
                                  \/ FindAverageEnds(p) \/ SyncFibonacciCs(p)
      PROVE  WaysOk'
    <2> DEFINE s == responseStream[p]
    <2>1. IsWay(s) /\ IsStreamState(s) /\ UNCHANGED requestStream
        BY <1>0, <1>4 DEF ResponseWriteEnds, MoveNextResponse, FindAverageEnds, SyncFibonacciCs
    <2>2. \/ UNCHANGED responseStream
          \/ responseStream' = [responseStream EXCEPT ![p] = [s EXCEPT !.writing = FALSE]]
          \/ \E x : responseStream' = [responseStream EXCEPT ![p] = [s EXCEPT !.queue = x]]
        BY <1>4 DEF ResponseWriteEnds, MoveNextResponse, FindAverageEnds, SyncFibonacciCs, Answer
    <2>3. /\ IsStreamState([s EXCEPT !.writing = FALSE])
          /\ \A x : IsStreamState([s EXCEPT !.queue = x])
        <3>1. PICK v : v = s
            OBVIOUS
        <3>2. IsWay(v) /\ IsStreamState(v)
            BY <2>1, <3>1
        <3>3. /\ IsStreamState([v EXCEPT !.writing = FALSE])
              /\ \A x : IsStreamState([v EXCEPT !.queue = x])
            BY <3>2 DEF IsWay, IsStreamState
        <3> QED BY <3>1, <3>3
    <2> HIDE DEF s
    <2> QED BY <1>1, <2>1, <2>2, <2>3
<1>5. ASSUME NEW p \in Programs, AsyncFibonacciCs(p) \/ RespondWrites(p) PROVE WaysOk'
    <2>1. IsStreamState(responseStream[p]) /\ UNCHANGED requestStream
        BY <1>0, <1>5 DEF AsyncFibonacciCs, RespondWrites
    <2>2. \/ UNCHANGED responseStream
          \/ \E m : \E t \in {responseStream[p]} \union WriteAsync(responseStream[p], m) :
                responseStream' = [responseStream EXCEPT ![p] = t]
        BY <1>5, Zenon DEF AsyncFibonacciCs, RespondWrites
    <2> QED BY <1>1, <2>1, <2>2, WriteAsyncWay
<1>6. ASSUME NEW p \in Programs,
             \/ CallMethod(p) \/ ReadStatus(p) \/ CancelAsync(p) \/ KillProgram(p)
             \/ MoveNextThrows(p) \/ FindMaxEnds(p) \/ FindMaxReturns(p)
             \/ RespondLoop(p) \/ RespondWakes(p)
      PROVE  UNCHANGED <<requestStream, responseStream>>
    BY <1>6 DEF CallMethod, ReadStatus, CancelAsync, KillProgram, MoveNextThrows, FindMaxEnds,
       FindMaxReturns, RespondLoop, RespondWakes
<1> QED BY <1>2, <1>3, <1>4, <1>5, <1>6
        DEF CsStreamsNext, ProgramStep, ReaderStep, MethodStep, RespondStep, callVars

\* Programs, methods and tasks are where the code may be; the first number of a program
\* and the first response of a method are never refused, nor any number of an average.
THEOREM CsStreamsTypes == CsStreamsSpec => []CsStreamsTypeOK
<1>1. CsStreamsIInv /\ WaysOk => CsStreamsTypeOK
    <2> SUFFICES ASSUME CsStreamsIInv, WaysOk PROVE CsStreamsTypeOK
        OBVIOUS
    <2>1. args \in [Programs -> Args]
        BY DEF CsStreamsIInv, CsShape
    <2>2. ASSUME NEW p \in Programs
          PROVE  /\ KindOf(p) \in {"average", "max"} => requestStream[p].queue \in Seq(Int)
                 /\ KindOf(p) = "max" => responseStream[p].queue \in Seq(Int)
                 /\ KindOf(p) = "average" => program[p].lost = {}
                 /\ 1 \notin program[p].lost /\ 0 \notin method[p].refused
        <3>1. CsShape /\ CallOk(p) /\ Written(p) /\ Read(p) /\ CsAsyncOk(p) /\ CsMaxOk(p)
            BY CsParts
        <3>2. 1 \notin program[p].lost
            <4>1. KindOf(p) \in {"average", "max"} => program[p].lost \subseteq 2 .. program[p].written
                BY <3>1 DEF Written
            <4>2. KindOf(p) \notin {"average", "max"} => program[p].lost = {}
                BY <3>1 DEF CallOk
            <4> QED BY <4>1, <4>2
        <3>3. 0 \notin method[p].refused
            <4>1. KindOf(p) = "async" => method[p].refused \subseteq 1 .. method[p].count - 1
                BY <3>1 DEF CsAsyncOk
            <4>2. KindOf(p) # "async" => method[p].refused = {}
                BY <3>1 DEF CallOk
            <4> QED BY <4>1, <4>2
        <3> QED BY <3>1, <3>2, <3>3 DEF Written, Read, CsMaxOk
    <2>3. \A p \in Programs : CallOk(p)
        BY CsParts
    <2> QED BY <2>1, <2>2, <2>3 DEF CsStreamsTypeOK, CallOk, WaysOk
<1>2. CsStreamsInit => WaysOk
    <2>1. IsStreamState(Stream)
        BY DEF IsStreamState, Stream
    <2>2. CsStreamsInit => /\ requestStream = [p \in Programs |-> Stream]
                           /\ responseStream = [p \in Programs |-> Stream]
        BY DEF CsStreamsInit
    <2> QED BY <2>1, <2>2 DEF WaysOk
<1>3. CsStreamsIInv => CsShape
    BY DEF CsStreamsIInv
<1> QED BY CsStreamsInit_IInv, CsStreamsNext_IInv, WaysStep, <1>1, <1>2, <1>3, PTL
        DEF CsStreamsSpec

\* What a C# client prints is right as far as it goes: the average of all its numbers, the
\* Fibonacci numbers without those whose write was refused, whatever the calls and refusals.
THEOREM PrintedIsRight == CsStreamsSpec => []PrintedUnlessRefused
<1>1. CsStreamsIInv => PrintedUnlessRefused
    <2> SUFFICES ASSUME CsStreamsIInv, NEW p \in Programs, program[p].at = "done"
                 PROVE  /\ KindOf(p) = "average" =>
                             LET sum == Sums(args[p].numbers)[Len(args[p].numbers)]
                             IN /\ args[p].numbers # <<>>
                                /\ IsInt32(sum) =>
                                     program[p].printed = <<Quotient(sum, Len(args[p].numbers))>>
                        /\ KindOf(p) = "sync" => program[p].printed = <<FirstFibs(args[p].number)>>
                        /\ KindOf(p) = "async" =>
                             LET printed == program[p].printed
                             IN /\ {printed[k].sequence : k \in DOMAIN printed}
                                     = (0 .. args[p].number - 1) \ method[p].refused
                                /\ \A k \in DOMAIN printed :
                                     /\ printed[k] = AsyncResponse(printed[k].sequence)
                                     /\ \A j \in 1 .. k - 1 :
                                          printed[j].sequence < printed[k].sequence
        BY DEF PrintedUnlessRefused, FirstFibs
    <2>1. /\ CsShape /\ CallOk(p) /\ CsAverageOk(p) /\ CsSyncOk(p) /\ CsAsyncOk(p)
          /\ method[p].at = "OK" /\ responseStream[p].queue = <<>> /\ ~Cancelled(p)
        BY CsParts DEF CallOk, Cancelled
    <2>2. \A v : Once(p, v) => program[p].printed = <<v>>
        BY <2>1 DEF Once
    <2>3. ASSUME KindOf(p) = "average"
          PROVE  LET sum == Sums(args[p].numbers)[Len(args[p].numbers)]
                 IN /\ args[p].numbers # <<>>
                    /\ IsInt32(sum) =>
                         program[p].printed = <<Quotient(sum, Len(args[p].numbers))>>
        <3>1. /\ method[p].count = Len(args[p].numbers) /\ method[p].count > 0
              /\ method[p].sum = ToInt32(Sums(args[p].numbers)[method[p].count])
              /\ program[p].printed = <<Quotient(method[p].sum, method[p].count)>>
            BY <2>1, <2>2, <2>3 DEF CsAverageOk, SumUpTo
        <3> QED BY <3>1 DEF IsInt32
    <2>4. KindOf(p) = "sync" => program[p].printed = <<FirstFibs(args[p].number)>>
        BY <2>1, <2>2 DEF CsSyncOk
    <2>5. ASSUME KindOf(p) = "async"
          PROVE  LET printed == program[p].printed
                 IN /\ {printed[k].sequence : k \in DOMAIN printed}
                         = (0 .. args[p].number - 1) \ method[p].refused
                    /\ \A k \in DOMAIN printed :
                         /\ printed[k] = AsyncResponse(printed[k].sequence)
                         /\ \A j \in 1 .. k - 1 : printed[j].sequence < printed[k].sequence
        <3>1. /\ method[p].count \in Nat /\ args[p].number \in Int
              /\ (method[p].count > 0 => method[p].count <= args[p].number)
              /\ method[p].count >= args[p].number
            BY <2>1, <2>5, CsNumbers DEF CsAsyncOk
        <3>2. 0 .. method[p].count - 1 = 0 .. args[p].number - 1
            BY <3>1
        <3>3. Shown(p) = program[p].printed
            <4>1. program[p].printed \in Seq(AsyncResponses)
                BY <2>1, <2>5 DEF CsAsyncOk
            <4>2. \A s \in Seq(AsyncResponses) : s \o <<>> = s
                OBVIOUS
            <4> QED BY <2>1, <4>1, <4>2 DEF Shown
        <3> QED BY <2>1, <2>5, <3>2, <3>3 DEF CsAsyncOk
    <2> QED BY <2>3, <2>4, <2>5
<1> QED BY CsStreamsInit_IInv, CsStreamsNext_IInv, <1>1, PTL DEF CsStreamsSpec

\* For any numbers, refusals and interleaving of FindMax and its task, the reports grow,
\* each is the largest of some first numbers that arrived, and the last one covers all
\* of them if the task was asleep when they ended and its last write was not refused.
THEOREM ReportsGrow == CsStreamsSpec => []ReportsGrowToTheMaximum
<1>1. CsStreamsIInv => ReportsGrowToTheMaximum
    <2> SUFFICES ASSUME CsStreamsIInv, NEW p \in Programs, KindOf(p) = "max"
                 PROVE  /\ \A i \in DOMAIN Reports(p) :
                             /\ \E k \in 0 .. method[p].count : IsMaxOfFirst(p, Reports(p)[i], k)
                             /\ \A j \in 1 .. i : Reports(p)[j] <= Reports(p)[i]
                        /\ program[p].at = "done" /\ method[p].asleep /\ ~respondTask[p].refused =>
                             /\ Len(program[p].printed) = 1
                             /\ IsMaxOfFirst(p, program[p].printed[1], Len(Delivered(p)))
        BY DEF ReportsGrowToTheMaximum
    <2>1. CallOk(p) /\ Read(p) /\ CsMaxOk(p) /\ LastOk(p)
        BY CsParts
    <2> DEFINE d == Shown(p)  max == method[p].max  v == respondTask[p].value
               w == IF respondTask[p].at = "write" THEN <<v>> ELSE <<>>
    <2>2. /\ max \in Int /\ IsMaxOfFirst(p, max, method[p].count) /\ method[p].count \in Nat
          /\ program[p].printed \in Seq(Int) /\ Len(program[p].printed) <= 1
          /\ responseStream[p].queue \in Seq(Int)
          /\ \A i \in DOMAIN d : /\ Report(p, d[i]) /\ d[i] <= max
                                 /\ \A j \in 1 .. i : d[j] <= d[i]
          /\ respondTask[p].at = "write" =>
               v \in Int /\ Report(p, v) /\ v <= max /\ \A i \in DOMAIN d : d[i] <= v
        BY <2>1 DEF CsMaxOk, Read, Report
    <2>3. d \in Seq(Int) /\ Len(d) \in Nat /\ DOMAIN d = 1 .. Len(d)
        <3>1. program[p].printed \o responseStream[p].queue \in Seq(Int)
            BY <2>2
        <3>2. d \in Seq(Int)
            BY <3>1 DEF Shown
        <3> HIDE DEF d
        <3> QED BY <3>2
    <2>4. Reports(p) = (d \o w) \o <<max>>
        BY DEF Reports, Shown
    <2>5. w \in Seq(Int) /\ (respondTask[p].at = "write" => w = <<v>>)
          /\ (respondTask[p].at # "write" => w = <<>>)
        BY <2>2
    <2>6. Report(p, max)
        BY <2>2 DEF Report
    <2> HIDE DEF d, max, v, w
    <2>7. PICK e : e = d \o w
        OBVIOUS
    <2>8. /\ e \in Seq(Int) /\ Len(e) \in Nat /\ DOMAIN e = 1 .. Len(e)
          /\ \A i \in 1 .. Len(e) : /\ Report(p, e[i]) /\ e[i] <= max
                                    /\ \A j \in 1 .. i : e[j] <= e[i]
        <3>1. CASE respondTask[p].at = "write"
            <4>1. /\ e = Append(d, v) /\ v \in Int
                <5>1. \A s \in Seq(Int) : \A x \in Int : s \o <<x>> = Append(s, x)
                    OBVIOUS
                <5> QED BY <2>2, <2>3, <2>5, <2>7, <3>1, <5>1
            <4>2. /\ e \in Seq(Int) /\ Len(e) = Len(d) + 1 /\ e[Len(d) + 1] = v
                  /\ DOMAIN e = 1 .. Len(e) /\ \A i \in 1 .. Len(d) : e[i] = d[i]
                BY <2>3, <4>1
            <4>3. ASSUME NEW i \in 1 .. Len(e)
                  PROVE  Report(p, e[i]) /\ e[i] <= max /\ \A j \in 1 .. i : e[j] <= e[i]
                <5>1. i \in 1 .. Len(d) \/ i = Len(d) + 1
                    BY <2>3, <4>2
                <5>2. CASE i \in 1 .. Len(d)
                    <6>1. \A j \in 1 .. i : j \in 1 .. Len(d)
                        BY <2>3, <5>2
                    <6> QED BY <2>2, <2>3, <4>2, <5>2, <6>1
                <5>3. CASE i = Len(d) + 1
                    <6>1. \A j \in 1 .. i : j \in 1 .. Len(d) \/ j = Len(d) + 1
                        BY <2>3, <5>3
                    <6>2. v <= v
                        BY <4>1
                    <6> QED BY <2>2, <2>3, <3>1, <4>2, <5>3, <6>1, <6>2
                <5> QED BY <5>1, <5>2, <5>3
            <4> QED BY <2>3, <4>2, <4>3
        <3>2. CASE respondTask[p].at # "write"
            <4>1. e = d
                <5>1. \A s \in Seq(Int) : s \o <<>> = s
                    OBVIOUS
                <5> QED BY <2>3, <2>5, <2>7, <3>2, <5>1
            <4> QED BY <2>2, <2>3, <4>1
        <3> QED BY <3>1, <3>2
    <2>9. /\ Reports(p) = Append(e, max) /\ max \in Int
        <3>1. \A s \in Seq(Int) : \A x \in Int : s \o <<x>> = Append(s, x)
            OBVIOUS
        <3> QED BY <2>2, <2>4, <2>7, <2>8, <3>1
    <2>10. /\ Len(Reports(p)) = Len(e) + 1 /\ Reports(p)[Len(e) + 1] = max
           /\ DOMAIN Reports(p) = 1 .. Len(e) + 1
           /\ \A i \in 1 .. Len(e) : Reports(p)[i] = e[i]
        BY <2>8, <2>9
    <2>11. ASSUME NEW i \in DOMAIN Reports(p)
           PROVE  /\ Report(p, Reports(p)[i])
                  /\ \A j \in 1 .. i : Reports(p)[j] <= Reports(p)[i]
        <3>1. i \in 1 .. Len(e) \/ i = Len(e) + 1
            BY <2>8, <2>10
        <3>2. CASE i \in 1 .. Len(e)
            <4>1. \A j \in 1 .. i : j \in 1 .. Len(e)
                BY <2>8, <3>2
            <4> QED BY <2>8, <2>10, <3>2, <4>1
        <3>3. CASE i = Len(e) + 1
            <4>1. \A j \in 1 .. i : j \in 1 .. Len(e) \/ j = Len(e) + 1
                BY <2>8, <3>3
            <4>2. max <= max
                BY <2>2
            <4> QED BY <2>6, <2>8, <2>10, <3>3, <4>1, <4>2
        <3> QED BY <3>1, <3>2, <3>3
    <2>12. ASSUME program[p].at = "done", method[p].asleep, ~respondTask[p].refused
           PROVE  /\ Len(program[p].printed) = 1
                  /\ IsMaxOfFirst(p, program[p].printed[1], Len(Delivered(p)))
        <3>1. method[p].at = "OK" /\ responseStream[p].queue = <<>> /\ ~Cancelled(p)
            BY <2>1, <2>12 DEF CallOk, Cancelled
        <3>2. d = program[p].printed
            <4>1. \A s \in Seq(Int) : s \o <<>> = s
                OBVIOUS
            <4> QED BY <2>2, <3>1, <4>1 DEF Shown, d
        <3>3. d # <<>> /\ d[Len(d)] = max /\ method[p].count = Len(Delivered(p))
            BY <2>1, <2>12, <3>1 DEF LastOk, d, max
        <3>4. Len(d) = 1
            <4>1. d \in Seq(Int) /\ d # <<>> /\ Len(d) <= 1
                BY <2>2, <2>3, <3>2, <3>3
            <4>2. Len(d) \in Nat \ {0}
                BY <4>1, EmptySeq
            <4>3. \A n \in Nat \ {0} : n <= 1 => n = 1
                OBVIOUS
            <4> QED BY <4>1, <4>2, <4>3, Zenon
        <3> QED BY <2>2, <3>2, <3>3, <3>4
    <2> QED BY <2>11, <2>12 DEF Report
<1> QED BY CsStreamsInit_IInv, CsStreamsNext_IInv, <1>1, PTL DEF CsStreamsSpec

-------------------------------------------------------------------------------
(* The systems side by side.                                                    *)

\* What is proved of each system is so where all of them run.
LEMMA SideBySide == Spec => StreamsSpec /\ GatewaySpec /\ CsStreamsSpec /\ CsBooksSpec
<1>1. Init => StreamsInit /\ GatewayInit /\ CsStreamsInit /\ CsBooksInit
    BY DEF Init
<1>2. [Next]_vars => /\ [StreamsNext]_streamVars /\ [GatewayNext]_gatewayVars
                     /\ [CsStreamsNext]_callVars /\ [CsBooksNext]_csBooksVars
    <2> SUFFICES ASSUME [Next]_vars
                 PROVE  /\ [StreamsNext]_streamVars /\ [GatewayNext]_gatewayVars
                        /\ [CsStreamsNext]_callVars /\ [CsBooksNext]_csBooksVars
        OBVIOUS
    <2>1. CASE Next
        BY <2>1 DEF Next
    <2>2. CASE UNCHANGED vars
        BY <2>2 DEF vars
    <2> QED BY <2>1, <2>2
<1> QED BY <1>1, <1>2, PTL DEF Spec, StreamsSpec, GatewaySpec, CsStreamsSpec, CsBooksSpec

\* The types that each part states of its variables hold wherever all four systems run.
THEOREM TypesOfAll == Spec => []TypeOK
<1>1. /\ Spec => []StreamsTypeOK /\ []GatewayTypeOK
      /\ Spec => []CsStreamsTypeOK /\ []CsBooksTypeOK
    BY SideBySide, StreamsTypes, GatewayTypes, CsStreamsTypes, CsBooksTypes
<1>2. StreamsTypeOK /\ GatewayTypeOK /\ CsStreamsTypeOK /\ CsBooksTypeOK => TypeOK
    BY DEF TypeOK
<1> QED BY <1>1, <1>2, PTL
================================================================================
