----------------------------- MODULE RestFibonacci -----------------------------
(***************************************************************************)
(* The asynchronous endpoint of chapter-4's REST Fibonacci server and the  *)
(* polling client (rest-fibonacci-server/async-handler.go,                 *)
(* rest-fibonacci-client.go).  The handlers of concurrent requests and the *)
(* worker goroutines share the map asyncStores without a lock; only each   *)
(* store has one.  fib(i) is represented by its index i.                   *)
(***************************************************************************)
EXTENDS Naturals, Sequences

CONSTANTS Clients,    \* each runs at most one request at a time
          ReqIds,     \* values of the request-id header
          Ranges,     \* numbers a client may ask for
          MaxStores,  \* bound on the stores ever created
          None

ASSUME ConstantsAssumption ==
    /\ Ranges \subseteq Nat
    /\ MaxStores \in Nat
    /\ None \notin 1..MaxStores

Stores == 1..MaxStores

VARIABLES
    IdOf,         \* the request id a client sends: a fresh uuid unless it brings one
    RangeOf,      \* the number in its URL
    asyncStores,  \* request id -> store, or None
    heap,         \* the stores created so far: current, requestedRange, numbers
    worker,       \* fibAsync started with each store: where it is, i, the store found
    handler,      \* fibonacciAsyncHandler serving each client
    client,       \* where the client's polling loop is
    received,     \* the numbers the client got so far
    crashed       \* "no", or what killed the server process

server == <<asyncStores, heap, worker>>
requests == <<IdOf, RangeOf>>
vars == <<requests, server, handler, client, received, crashed>>

Idle == [pc |-> "idle", store |-> None, numbers |-> <<>>, end |-> FALSE]

Init ==
    /\ IdOf \in [Clients -> ReqIds]
    /\ RangeOf \in [Clients -> Ranges]
    /\ asyncStores = [r \in ReqIds |-> None]
    /\ heap = <<>>
    /\ worker = <<>>
    /\ handler = [c \in Clients |-> Idle]
    /\ client = [c \in Clients |-> "poll"]
    /\ received = [c \in Clients |-> <<>>]
    /\ crashed = "no"

Up == crashed = "no"

At(c, pc) == Up /\ handler[c].pc = pc

\* Handlers inside a map assignment or a map delete.
MapWriters == {c \in Clients : handler[c].pc \in {"assign", "delete"}}

-------------------------------------------------------------------------------
(* Mutants: slips that the properties below must notice. *)

\* Read returns the numbers and keeps them.
ReadKeeps(c) ==
    /\ At(c, "read")
    /\ LET s == heap[handler[c].store]
           end == s.current = s.requested
       IN handler' = [handler EXCEPT ![c] =
                        [pc |-> IF end THEN "remove" ELSE "reply", store |-> None,
                         numbers |-> s.numbers, end |-> end]]
    /\ UNCHANGED <<server, client, received, crashed>>

\* The end of one response clears the whole map.
EndDeleteAll(c) ==
    /\ At(c, "delete")
    /\ asyncStores' = [r \in ReqIds |-> None]
    /\ handler' = [handler EXCEPT ![c].pc = "reply"]
    /\ UNCHANGED <<heap, worker, client, received, crashed>>

\* for i := 0; i <= n; i++
WorkerLoopOnceTooOften(w) ==
    /\ Up /\ w \in DOMAIN worker /\ worker[w].pc = "loop"
    /\ worker' = [worker EXCEPT ![w].pc =
                    IF worker[w].i <= worker[w].n THEN "lookup" ELSE "done"]
    /\ UNCHANGED <<asyncStores, heap, handler, client, received, crashed>>

-------------------------------------------------------------------------------
(* The client. *)

Poll(c) ==
    /\ Up
    /\ client[c] = "poll"
    /\ client' = [client EXCEPT ![c] = "wait"]
    /\ handler' = [handler EXCEPT ![c].pc = "check"]
    /\ UNCHANGED <<server, received, crashed>>

\* The five seconds between two polls.
Rest(c) ==
    /\ client[c] = "rest"
    /\ client' = [client EXCEPT ![c] = "poll"]
    /\ UNCHANGED <<server, handler, received, crashed>>

\* The server is gone: the request fails and the client returns.
PollFails(c) ==
    /\ ~Up
    /\ client[c] \in {"poll", "wait"}
    /\ client' = [client EXCEPT ![c] = "error"]
    /\ UNCHANGED <<server, handler, received, crashed>>

-------------------------------------------------------------------------------
(* The handler. Each access to the map is a step of its own. *)

CheckStore(c) ==
    /\ At(c, "check")
    /\ handler' = [handler EXCEPT ![c].pc =
                     IF asyncStores[IdOf[c]] = None THEN "create" ELSE "reload"]
    /\ UNCHANGED <<server, client, received, crashed>>

BeginAssign(c) ==
    /\ At(c, "create")
    /\ Len(heap) < MaxStores
    /\ handler' = [handler EXCEPT ![c].pc = "assign"]
    /\ UNCHANGED <<server, client, received, crashed>>

\* The assignment is complete and the worker is started.
EndAssign(c) ==
    /\ At(c, "assign")
    /\ Len(heap) < MaxStores
    /\ heap' = Append(heap, [current |-> 0, requested |-> RangeOf[c], numbers |-> <<>>])
    /\ asyncStores' = [asyncStores EXCEPT ![IdOf[c]] = Len(heap) + 1]
    /\ worker' = Append(worker, [pc |-> "loop", i |-> 0, n |-> RangeOf[c],
                                 id |-> IdOf[c], store |-> None])
    /\ handler' = [handler EXCEPT ![c].pc = "reload"]
    /\ UNCHANGED <<client, received, crashed>>

\* The map is read again. A missing entry is a nil pointer in Read, a panic
\* that net/http recovers: the connection breaks and the client returns.
Reload(c) ==
    /\ At(c, "reload")
    /\ LET store == asyncStores[IdOf[c]] IN
         IF store # None
         THEN /\ handler' = [handler EXCEPT ![c].pc = "read", ![c].store = store]
              /\ UNCHANGED client
         ELSE /\ handler' = [handler EXCEPT ![c] = Idle]
              /\ client' = [client EXCEPT ![c] = "error"]
    /\ UNCHANGED <<server, received, crashed>>

EndReached(store) == store.current = store.requested

\* Read empties the store under its lock; the answer is the end of the response
\* if the worker has written number requestedRange.
Read(c) ==
    /\ At(c, "read")
    /\ LET s == handler[c].store
           end == EndReached(heap[s])
       IN /\ handler' = [handler EXCEPT ![c] =
                           [pc |-> IF end THEN "remove" ELSE "reply", store |-> None,
                            numbers |-> heap[s].numbers, end |-> end]]
          /\ heap' = [heap EXCEPT ![s].numbers = <<>>]
    /\ UNCHANGED <<asyncStores, worker, client, received, crashed>>

BeginDelete(c) ==
    /\ At(c, "remove")
    /\ handler' = [handler EXCEPT ![c].pc = "delete"]
    /\ UNCHANGED <<server, client, received, crashed>>

EndDelete(c) ==
    /\ At(c, "delete")
    /\ asyncStores' = [asyncStores EXCEPT ![IdOf[c]] = None]
    /\ handler' = [handler EXCEPT ![c].pc = "reply"]
    /\ UNCHANGED <<heap, worker, client, received, crashed>>

\* The client prints the numbers, leaves its loop at the end of the response and
\* sleeps otherwise.
Reply(c) ==
    /\ At(c, "reply")
    /\ received' = [received EXCEPT ![c] = @ \o handler[c].numbers]
    /\ client' = [client EXCEPT ![c] = IF handler[c].end THEN "done" ELSE "rest"]
    /\ handler' = [handler EXCEPT ![c] = Idle]
    /\ UNCHANGED <<server, crashed>>

-------------------------------------------------------------------------------
(* The worker goroutine: it looks its store up again for every number. *)

Working(w, pc) == Up /\ w \in DOMAIN worker /\ worker[w].pc = pc

WorkerLoop(w) ==
    /\ Working(w, "loop")
    /\ worker' = [worker EXCEPT ![w].pc =
                    IF worker[w].i < worker[w].n THEN "lookup" ELSE "done"]
    /\ UNCHANGED <<asyncStores, heap, handler, client, received, crashed>>

\* A missing entry is a nil pointer in Write: an unrecovered panic of a goroutine
\* ends the process.
WorkerLookup(w) ==
    /\ Working(w, "lookup")
    /\ LET store == asyncStores[worker[w].id] IN
         IF store # None
         THEN /\ worker' = [worker EXCEPT ![w].pc = "write", ![w].store = store]
              /\ UNCHANGED crashed
         ELSE /\ crashed' = "nil store"
              /\ UNCHANGED worker
    /\ UNCHANGED <<asyncStores, heap, handler, client, received>>

Written(store, i) ==
    [store EXCEPT !.current = i, !.numbers = Append(@, i)]

WorkerWrite(w) ==
    /\ Working(w, "write")
    /\ heap' = [heap EXCEPT ![worker[w].store] = Written(@, worker[w].i)]
    /\ worker' = [worker EXCEPT ![w].pc = "loop", ![w].i = @ + 1, ![w].store = None]
    /\ UNCHANGED <<asyncStores, handler, client, received, crashed>>

-------------------------------------------------------------------------------
(* Go's map is not safe for concurrent use: an access that meets an unfinished *)
(* write may be detected, which ends the process, or may go unnoticed.         *)

RaceDetected ==
    /\ Up
    /\ \E c \in MapWriters :
         \/ \E d \in Clients \ {c} :
              handler[d].pc \in {"check", "create", "assign", "reload", "remove", "delete"}
         \/ \E w \in DOMAIN worker : worker[w].pc = "lookup"
    /\ crashed' = "map race"
    /\ UNCHANGED <<server, handler, client, received>>

HandlerStep(c) ==
    \/ CheckStore(c) \/ BeginAssign(c) \/ EndAssign(c) \/ Reload(c) \/ Read(c)
    \/ BeginDelete(c) \/ EndDelete(c) \/ Reply(c)

ClientStep(c) == Poll(c) \/ Rest(c) \/ PollFails(c)

WorkerStep(w) == WorkerLoop(w) \/ WorkerLookup(w) \/ WorkerWrite(w)

\* What the clients ask for never changes.
Keep(step) == step /\ UNCHANGED requests

Next ==
    \/ \E c \in Clients : Keep(ClientStep(c)) \/ Keep(HandlerStep(c))
    \/ \E w \in Stores : Keep(WorkerStep(w))
    \/ Keep(RaceDetected)

SafeSpec == Init /\ [][Next]_vars

\* Goroutines and clients are scheduled.
Spec ==
    /\ SafeSpec
    /\ \A c \in Clients : WF_vars(Keep(ClientStep(c))) /\ WF_vars(Keep(HandlerStep(c)))
    /\ \A w \in Stores : WF_vars(Keep(WorkerStep(w)))

-------------------------------------------------------------------------------
(* Properties. *)

\* No other client uses c's request id.
OwnId(c) == \A d \in Clients : IdOf[d] = IdOf[c] => d = c

Store == [current : Nat, requested : Nat, numbers : Seq(Nat)]

TypeOK ==
    /\ asyncStores \in [ReqIds -> Stores \union {None}]
    /\ heap \in Seq(Store) /\ Len(heap) = Len(worker) /\ Len(heap) <= MaxStores
    /\ \A w \in DOMAIN worker : worker[w].i <= worker[w].n
    /\ received \in [Clients -> Seq(Nat)]
    /\ crashed \in {"no", "nil store", "map race"}
    /\ Up => \A c \in Clients : client[c] # "wait" => handler[c] = Idle

Prefix(k) == [j \in 1..k |-> j - 1]

\* The worker's numbers, wherever they are on their way to the client.
Numbers(w, c) == received[c] \o handler[c].numbers \o heap[w].numbers

\* With a request id of its own a client gets every number exactly once and in
\* order, whatever the interleaving of its polls with the worker: what it got,
\* what the handler is about to send and what is in the store are together
\* exactly the numbers the worker has written. The end of the response is only
\* signalled to it once everything was sent.
NothingLostOrRepeated ==
    \A c \in Clients :
        OwnId(c) =>
            /\ \A w \in DOMAIN worker :
                 worker[w].id = IdOf[c] => Numbers(w, c) = Prefix(worker[w].i)
            /\ client[c] = "done" => received[c] = Prefix(RangeOf[c])

\* Requests of other clients never take away the store of a client with an id of
\* its own: its polls fail only if the whole server died. And a worker finds its
\* entry gone, which ends the process, only if two requests with the same id asked
\* for different numbers: requests that merely share an id and a number lose each
\* other's numbers but never the entry.
StoresStay ==
    /\ \A c \in Clients : OwnId(c) /\ client[c] = "error" => ~Up
    /\ crashed = "nil store" =>
         \E c, d \in Clients : IdOf[c] = IdOf[d] /\ RangeOf[c] # RangeOf[d]

\* rest-fibonacci-client.go: the loop runs until the answer has endOfResponse.
ClientFinishes == \A c \in Clients : <>(client[c] \in {"done", "error"})
===============================================================================
