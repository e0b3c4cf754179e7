-------------------------------- MODULE CsStreams --------------------------------
(***************************************************************************)
(* chapter-4's C# average, Fibonacci and max services and their clients.   *)
(* Most of their writes to a stream are not awaited.  The library refuses  *)
(* a write that begins before the last one has ended, and nobody looks at  *)
(* the task that says so.  An exception ends a call and never the server,  *)
(* so the calls of two programs have nothing in common.  A message is      *)
(* its number: what travels for it is the business of Wire.                *)
(***************************************************************************)
EXTENDS FixedWidth

CONSTANTS Programs,     \* the clients, one call each
          Args,         \* what a program may be asked to do, see Arg
          ReplyBound    \* bound on responses of FindMax that are under way

\* The clients parse their numbers as int32.
Arg == [kind : {"average", "max"}, numbers : Seq({n \in Int : IsInt32(n)})]
       \union [kind : {"sync", "async"}, number : {n \in Int : IsInt32(n)}]
       \union [kind : {"none"}]

ASSUME CsStreamsAssumption == Args \subseteq Arg /\ ReplyBound \in Nat \ {0}

VARIABLES
    args,             \* what a program does
    program,          \* where it is, what it has written and printed
    requestStream,    \* the two directions of a call
    responseStream,
    method,           \* the handler and its locals
    respondTask       \* the task that FindMax starts

callVars == <<args, program, requestStream, responseStream, method, respondTask>>

\* A stream, and whether its last write is still in progress.
Stream == [queue |-> <<>>, writing |-> FALSE, closed |-> FALSE]

\* lost: the numbers whose write was refused, by their place.
\* refused: the same for responses; asleep: history, see FindMaxEnds.
CsStreamsInit ==
    /\ args \in [Programs -> Args]
    /\ program = [p \in Programs |->
         [at |-> "off", written |-> 0, lost |-> {}, completed |-> FALSE, printed |-> <<>>]]
    /\ requestStream = [p \in Programs |-> Stream]
    /\ responseStream = [p \in Programs |-> Stream]
    /\ method = [p \in Programs |->
         [at |-> "none", count |-> 0, sum |-> 0, max |-> 0, isResponding |-> TRUE,
          refused |-> {}, asleep |-> FALSE]]
    /\ respondTask = [p \in Programs |-> [at |-> "none", value |-> 0, refused |-> FALSE]]

KindOf(p) == args[p].kind

Opened(p) == program[p].at = "open"

SetProgram(p, at) == program' = [program EXCEPT ![p].at = at]

SetMethod(p, at) == method' = [method EXCEPT ![p].at = at]

-------------------------------------------------------------------------------
(* The library. *)

\* WriteAsync: a message goes on its way, and its write ends at once or later.
WriteAsync(s, m) ==
    IF s.writing THEN {s}
    ELSE [queue : {Append(s.queue, m)}, writing : BOOLEAN, closed : {s.closed}]

RequestWriteEnds(p) ==
    /\ requestStream[p].writing
    /\ requestStream' = [requestStream EXCEPT ![p].writing = FALSE]
    /\ UNCHANGED <<args, program, responseStream, method, respondTask>>

ResponseWriteEnds(p) ==
    /\ responseStream[p].writing
    /\ responseStream' = [responseStream EXCEPT ![p].writing = FALSE]
    /\ UNCHANGED <<args, program, requestStream, method, respondTask>>

-------------------------------------------------------------------------------
(* The programs. An exception ends a program.                                 *)

CallMethod(p) ==
    /\ program[p].at = "off" /\ KindOf(p) # "none"
    /\ SetProgram(p, "open")
    /\ SetMethod(p, "running")
    /\ respondTask' = [respondTask EXCEPT ![p].at = IF KindOf(p) = "max" THEN "check" ELSE "none"]
    /\ UNCHANGED <<args, requestStream, responseStream>>

SendsNumbers(p) == KindOf(p) \in {"average", "max"} /\ Opened(p)

\* The average client awaits the end of every write, the max client sleeps instead.
Awaited(p) == KindOf(p) = "average" => ~requestStream[p].writing

WriteNumber(p) ==
    /\ SendsNumbers(p) /\ Awaited(p)
    /\ program[p].written < Len(args[p].numbers)
    /\ \E s \in WriteAsync(requestStream[p], args[p].numbers[program[p].written + 1]) :
         requestStream' = [requestStream EXCEPT ![p] = s]
    /\ program' = [program EXCEPT
         ![p].written = @ + 1,
         ![p].lost = IF requestStream[p].writing THEN @ \union {program[p].written + 1} ELSE @]
    /\ UNCHANGED <<args, responseStream, method, respondTask>>

\* Refused, and unseen, when the last write is still in progress.
CompleteAsync(p) ==
    /\ SendsNumbers(p) /\ Awaited(p)
    /\ program[p].written = Len(args[p].numbers) /\ ~program[p].completed
    /\ program' = [program EXCEPT ![p].completed = TRUE]
    /\ requestStream' = [requestStream EXCEPT ![p].closed = ~requestStream[p].writing]
    /\ UNCHANGED <<args, responseStream, method, respondTask>>

\* The programs print every response. Of the reports of FindMax, which only grow, the
\* model keeps the last one.
MoveNextResponse(p) ==
    /\ Opened(p) /\ responseStream[p].queue # <<>>
    /\ \E m \in {Head(responseStream[p].queue)} :
         program' = [program EXCEPT ![p].printed =
                        IF KindOf(p) = "max" THEN <<m>> ELSE Append(@, m)]
    /\ responseStream' = [responseStream EXCEPT ![p].queue = Tail(@)]
    /\ UNCHANGED <<args, requestStream, method, respondTask>>

\* The status comes after the responses. The max client waits for both of its tasks.
ReadStatus(p) ==
    /\ Opened(p) /\ responseStream[p].queue = <<>>
    /\ method[p].at \in {"OK", "error"}
    /\ KindOf(p) = "max" => program[p].completed
    /\ SetProgram(p, IF method[p].at = "OK" THEN "done" ELSE "failed")
    /\ UNCHANGED <<args, requestStream, responseStream, method, respondTask>>

\* The Fibonacci client cancels its call if a response comes after ten seconds.
CancelAsync(p) ==
    /\ KindOf(p) = "async" /\ Opened(p) /\ program[p].printed # <<>>
    /\ SetProgram(p, "cancelled")
    /\ UNCHANGED <<args, requestStream, responseStream, method, respondTask>>

KillProgram(p) ==
    /\ Opened(p)
    /\ SetProgram(p, "dead")
    /\ UNCHANGED <<args, requestStream, responseStream, method, respondTask>>

\* What the server's CancellationToken says.
Cancelled(p) == program[p].at \in {"cancelled", "dead"}

-------------------------------------------------------------------------------
(* The average and Fibonacci services. *)

Serves(p, kind) == KindOf(p) = kind /\ method[p].at = "running"

\* A method that answers: with an error when it throws.
Answer(p, throws, m) ==
    IF throws THEN SetMethod(p, "error") /\ UNCHANGED responseStream
    ELSE /\ SetMethod(p, "OK")
         /\ responseStream' = [responseStream EXCEPT ![p].queue = <<m>>]

FindAverage(p) ==
    /\ Serves(p, "average") /\ requestStream[p].queue # <<>>
    /\ \E n \in {Head(requestStream[p].queue)} :
         method' = [method EXCEPT ![p].count = @ + 1, ![p].sum = ToInt32(@ + n)]
    /\ requestStream' = [requestStream EXCEPT ![p].queue = Tail(@)]
    /\ UNCHANGED <<args, program, responseStream, respondTask>>

AtEnd(p) == requestStream[p].queue = <<>> /\ requestStream[p].closed

\* Without a number the division throws.
FindAverageEnds(p) ==
    /\ Serves(p, "average") /\ AtEnd(p)
    /\ Answer(p, method[p].count = 0, Quotient(method[p].sum, method[p].count))
    /\ UNCHANGED <<args, program, requestStream, respondTask>>

\* MoveNext throws when the caller has gone. FindMax does not stop its task then.
MoveNextThrows(p) ==
    /\ Serves(p, "average") \/ Serves(p, "max")
    /\ Cancelled(p)
    /\ SetMethod(p, "error")
    /\ UNCHANGED <<args, program, requestStream, responseStream, respondTask>>

\* An array of a negative length throws.
SyncFibonacciCs(p) ==
    /\ Serves(p, "sync")
    /\ Answer(p, args[p].number < 0, [k \in 1 .. args[p].number |-> ToInt32(fib[k - 1])])
    /\ UNCHANGED <<args, program, requestStream, respondTask>>

\* Mutant: for (int i = 0; i <= request.Number; i++)
AsyncFibonacciOnceTooOften(p) ==
    /\ Serves(p, "async")
    /\ IF method[p].count <= args[p].number
       THEN /\ \E s \in WriteAsync(responseStream[p],
                        [sequence |-> method[p].count,
                         fibonacciNumber |-> ToInt32(fib[method[p].count])]) :
                 responseStream' = [responseStream EXCEPT ![p] = s]
            /\ method' = [method EXCEPT
                 ![p].count = @ + 1,
                 ![p].refused = IF responseStream[p].writing THEN @ \union {method[p].count} ELSE @]
       ELSE SetMethod(p, "OK") /\ UNCHANGED responseStream
    /\ UNCHANGED <<args, program, requestStream, respondTask>>

\* One iteration, whose counter is count; the write that is in progress when the
\* method ends is delivered. Nothing is written once the caller has gone.
AsyncFibonacciCs(p) ==
    /\ Serves(p, "async")
    /\ IF method[p].count < args[p].number
       THEN /\ \E s \in IF Cancelled(p) THEN {responseStream[p]}
                        ELSE WriteAsync(responseStream[p],
                                [sequence |-> method[p].count,
                                 fibonacciNumber |-> ToInt32(fib[method[p].count])]) :
                 responseStream' = [responseStream EXCEPT ![p] = s]
            /\ method' = [method EXCEPT
                 ![p].count = @ + 1,
                 ![p].refused = IF responseStream[p].writing THEN @ \union {method[p].count} ELSE @]
       ELSE SetMethod(p, "OK") /\ UNCHANGED responseStream
    /\ UNCHANGED <<args, program, requestStream, respondTask>>

-------------------------------------------------------------------------------
(* FindMax: the method and its task share isResponding and max without a lock. *)

Larger(a, b) == IF a < b THEN b ELSE a

FindMax(p) ==
    /\ Serves(p, "max") /\ requestStream[p].queue # <<>>
    /\ \E n \in {Head(requestStream[p].queue)} :
         method' = [method EXCEPT ![p].count = @ + 1, ![p].max = Larger(@, n)]
    /\ requestStream' = [requestStream EXCEPT ![p].queue = Tail(@)]
    /\ UNCHANGED <<args, program, responseStream, respondTask>>

\* Mutant: a task that is not told to stop.
FindMaxEndsUntold(p) ==
    /\ Serves(p, "max") /\ AtEnd(p)
    /\ method' = [method EXCEPT ![p].at = "waiting", ![p].asleep = (respondTask[p].at = "sleep")]
    /\ UNCHANGED <<args, program, requestStream, responseStream, respondTask>>

FindMaxEnds(p) ==
    /\ Serves(p, "max") /\ AtEnd(p)
    /\ method' = [method EXCEPT ![p].at = "waiting", ![p].isResponding = FALSE,
                                ![p].asleep = (respondTask[p].at = "sleep")]
    /\ UNCHANGED <<args, program, requestStream, responseStream, respondTask>>

\* respondTask.Wait() throws what the task threw.
FindMaxReturns(p) ==
    /\ method[p].at = "waiting"
    /\ respondTask[p].at \in {"ended", "faulted"}
    /\ SetMethod(p, IF respondTask[p].at = "ended" THEN "OK" ELSE "error")
    /\ UNCHANGED <<args, program, requestStream, responseStream, respondTask>>

RespondLoop(p) ==
    /\ respondTask[p].at = "check"
    /\ respondTask' = [respondTask EXCEPT ![p].at =
                         IF method[p].isResponding THEN "sleep" ELSE "ended"]
    /\ UNCHANGED <<args, program, requestStream, responseStream, method>>

\* Mutant: a response made once, before the loop.
RespondWakesStale(p) ==
    /\ respondTask[p].at = "sleep"
    /\ Len(responseStream[p].queue) < ReplyBound \/ Cancelled(p)
    /\ respondTask' = [respondTask EXCEPT ![p].at = IF Cancelled(p) THEN "faulted" ELSE "write"]
    /\ UNCHANGED <<args, program, requestStream, responseStream, method>>

RespondWakes(p) ==
    /\ respondTask[p].at = "sleep"
    /\ Len(responseStream[p].queue) < ReplyBound \/ Cancelled(p)
    /\ respondTask' = [respondTask EXCEPT
         ![p].at = IF Cancelled(p) THEN "faulted" ELSE "write", ![p].value = method[p].max]
    /\ UNCHANGED <<args, program, requestStream, responseStream, method>>

RespondWrites(p) ==
    /\ respondTask[p].at = "write"
    /\ \E s \in IF Cancelled(p) THEN {responseStream[p]}
                ELSE WriteAsync(responseStream[p], respondTask[p].value) :
         responseStream' = [responseStream EXCEPT ![p] = s]
    /\ respondTask' = [respondTask EXCEPT ![p].at = "check",
                                          ![p].refused = responseStream[p].writing]
    /\ UNCHANGED <<args, program, requestStream, method>>

-------------------------------------------------------------------------------

ProgramStep(p) == CallMethod(p) \/ WriteNumber(p) \/ CompleteAsync(p)

ReaderStep(p) == MoveNextResponse(p) \/ ReadStatus(p)

MethodStep(p) ==
    \/ FindAverage(p) \/ FindAverageEnds(p) \/ MoveNextThrows(p)
    \/ SyncFibonacciCs(p) \/ AsyncFibonacciCs(p)
    \/ FindMax(p) \/ FindMaxEnds(p) \/ FindMaxReturns(p)

RespondStep(p) == RespondLoop(p) \/ RespondWakes(p) \/ RespondWrites(p)

CsStreamsNext ==
    \E p \in Programs :
        \/ ProgramStep(p) \/ ReaderStep(p) \/ MethodStep(p) \/ RespondStep(p)
        \/ RequestWriteEnds(p) \/ ResponseWriteEnds(p)
        \/ CancelAsync(p) \/ KillProgram(p)

\* Threads and tasks run, and a write that is in progress ends.
CsStreamsFairness ==
    \A p \in Programs :
        /\ WF_callVars(ProgramStep(p)) /\ WF_callVars(ReaderStep(p))
        /\ WF_callVars(MethodStep(p)) /\ WF_callVars(RespondStep(p))
        /\ WF_callVars(RequestWriteEnds(p)) /\ WF_callVars(ResponseWriteEnds(p))

-------------------------------------------------------------------------------
(* Properties. *)

IsStreamState(s) == s.writing \in BOOLEAN /\ s.closed \in BOOLEAN

CsStreamsTypeOK ==
    /\ args \in [Programs -> Args]
    /\ \A p \in Programs :
         /\ program[p].at \in {"off", "open", "done", "failed", "cancelled", "dead"}
         /\ method[p].at \in {"none", "running", "waiting", "OK", "error"}
         /\ respondTask[p].at \in {"none", "check", "sleep", "write", "ended", "faulted"}
         /\ IsStreamState(requestStream[p]) /\ IsStreamState(responseStream[p])
         /\ KindOf(p) \in {"average", "max"} => requestStream[p].queue \in Seq(Int)
         /\ KindOf(p) = "max" => responseStream[p].queue \in Seq(Int)
         /\ KindOf(p) = "average" => program[p].lost = {}
         /\ 1 \notin program[p].lost /\ 0 \notin method[p].refused

AsyncResponse(i) == [sequence |-> i, fibonacciNumber |-> ToInt32(fib[i])]

\* What a C# client prints without an exception is right as far as it goes. The average
\* is that of all its numbers, unless their sum leaves the int32 range. Of the Fibonacci
\* numbers just those are missing whose write the library refused, never the first one
\* nor the one whose write was in progress when the method ended; the rest is in order.
PrintedUnlessRefused ==
    \A p \in Programs :
        program[p].at = "done" =>
            /\ KindOf(p) = "average" =>
                 LET sum == Sums(args[p].numbers)[Len(args[p].numbers)]
                 IN /\ args[p].numbers # <<>>
                    /\ IsInt32(sum) =>
                         program[p].printed = <<Quotient(sum, Len(args[p].numbers))>>
            /\ KindOf(p) = "sync" =>
                 program[p].printed = <<[k \in 1 .. args[p].number |-> ToInt32(fib[k - 1])]>>
            /\ KindOf(p) = "async" =>
                 LET printed == program[p].printed
                 IN /\ {printed[k].sequence : k \in DOMAIN printed}
                         = (0 .. args[p].number - 1) \ method[p].refused
                    /\ \A k \in DOMAIN printed :
                         /\ printed[k] = AsyncResponse(printed[k].sequence)
                         /\ \A j \in 1 .. k - 1 : printed[j].sequence < printed[k].sequence

\* The numbers that reach FindMax, of the first numbers of a program.
Arrivals(numbers, lost) ==
    LET f[k \in 0 .. Len(numbers)] ==
            IF k = 0 THEN <<>>
            ELSE IF k \in lost THEN f[k - 1] ELSE Append(f[k - 1], numbers[k])
    IN f

Delivered(p) == Arrivals(args[p].numbers, program[p].lost)[program[p].written]

\* The largest of 0 and the first k numbers that reach FindMax.
IsMaxOfFirst(p, m, k) ==
    LET first == {0} \union {Delivered(p)[j] : j \in 1 .. k}
    IN m \in first /\ \A n \in first : n <= m

\* What the client of FindMax has yet to see, after what it shows.
Reports(p) ==
    program[p].printed \o responseStream[p].queue
    \o (IF respondTask[p].at = "write" THEN <<respondTask[p].value>> ELSE <<>>)
    \o <<method[p].max>>

\* Although max and isResponding are shared without a lock and the writes of both sides
\* are not awaited, every report is the largest of 0 and some first numbers that arrived,
\* and no report is below an earlier one. The last one covers all of them if the task was
\* asleep when the numbers ended and its last write was not refused.
ReportsGrowToTheMaximum ==
    \A p \in Programs :
        KindOf(p) = "max" =>
            /\ \A i \in DOMAIN Reports(p) :
                 /\ \E k \in 0 .. method[p].count : IsMaxOfFirst(p, Reports(p)[i], k)
                 /\ \A j \in 1 .. i : Reports(p)[j] <= Reports(p)[i]
            /\ program[p].at = "done" /\ method[p].asleep /\ ~respondTask[p].refused =>
                 /\ Len(program[p].printed) = 1
                 /\ IsMaxOfFirst(p, program[p].printed[1], Len(Delivered(p)))

\* Every client ends, unless the end of its numbers was refused: then the server never
\* learns of it, and the max client reads reports for good.
EveryProgramEnds ==
    \A p \in Programs :
        Opened(p) ~> ~Opened(p) \/ (program[p].completed /\ ~requestStream[p].closed)
===============================================================================
