-------------------------- MODULE RestFibonacciProofs --------------------------
(* Theorems about RestFibonacci, for any clients, request ids and ranges: what *)
(* a client with an id of its own gets, and what takes a store away.           *)
EXTENDS RestFibonacci, SequenceTheorems, TLAPS

-------------------------------------------------------------------------------
(* The inductive invariant. *)

Worker == [pc : {"loop", "lookup", "write", "done"}, i : Nat, n : Nat, id : ReqIds,
           store : Nat \union {None}]

Handler == [pc : {"idle", "check", "create", "assign", "reload", "read", "remove",
                  "delete", "reply"},
            store : Nat \union {None}, numbers : Seq(Nat), end : BOOLEAN]

Workers == 1..Len(worker)

Types ==
    /\ IdOf \in [Clients -> ReqIds] /\ RangeOf \in [Clients -> Ranges]
    /\ asyncStores \in [ReqIds -> Workers \union {None}]
    /\ heap \in Seq(Store) /\ worker \in Seq(Worker)
    /\ Len(heap) = Len(worker) /\ Len(heap) <= MaxStores
    /\ handler \in [Clients -> Handler]
    /\ client \in [Clients -> {"poll", "wait", "rest", "done", "error"}]
    /\ received \in [Clients -> Seq(Nat)]
    /\ crashed \in {"no", "nil store", "map race"}

\* A handler serves a client that waits.
Resting == Up => \A c \in Clients : client[c] # "wait" => handler[c] = Idle

\* A worker writes to a store of its id, never the number it was asked for.
WorkerOK(w) ==
    /\ worker[w].i <= worker[w].n
    /\ worker[w].pc \in {"lookup", "write"} => worker[w].i < worker[w].n
    /\ worker[w].pc = "write" =>
         worker[w].store \in Workers /\ worker[worker[w].store].id = worker[w].id
    /\ heap[w].requested = worker[w].n
    /\ \E c \in Clients : IdOf[c] = worker[w].id /\ RangeOf[c] = worker[w].n

EntryOK(r) == asyncStores[r] # None => worker[asyncStores[r]].id = r

HandlerOK(c) ==
    /\ handler[c].pc = "read" =>
         handler[c].store \in Workers /\ worker[handler[c].store].id = IdOf[c]
    /\ handler[c].pc \in {"remove", "delete"} => handler[c].end

\* All requests with the id ask for the same number.
Agreed(r) == \A c, d \in Clients : IdOf[c] = r /\ IdOf[d] = r => RangeOf[c] = RangeOf[d]

\* Then no answer is the last one but for the number 0, which has no worker at work:
\* the entry stays.
Lasts(w) ==
    Agreed(worker[w].id) /\ worker[w].n > 0 =>
        heap[w].current < worker[w].n /\ asyncStores[worker[w].id] # None

EndsAtZero(c) ==
    Agreed(IdOf[c]) /\ (handler[c].end \/ client[c] = "done") => RangeOf[c] = 0

NilStoreHasCause ==
    crashed = "nil store" => \E c, d \in Clients : IdOf[c] = IdOf[d] /\ RangeOf[c] # RangeOf[d]

Core ==
    /\ Types /\ Resting /\ NilStoreHasCause
    /\ \A w \in Workers : WorkerOK(w) /\ Lasts(w)
    /\ \A r \in ReqIds : EntryOK(r)
    /\ \A c \in Clients : HandlerOK(c) /\ EndsAtZero(c)

\* A client with an id of its own before it has a store ...
Fresh(c) ==
    /\ \A w \in Workers : worker[w].id # IdOf[c]
    /\ asyncStores[IdOf[c]] = None
    /\ received[c] = <<>> /\ handler[c].numbers = <<>> /\ ~handler[c].end
    /\ handler[c].pc \in {"idle", "check", "create", "assign"}
    /\ client[c] \in {"poll", "wait", "error"}

\* ... and with store w, the only one it ever gets.
Served(c, w) ==
    /\ worker[w].id = IdOf[c]
    /\ \A v \in Workers : worker[v].id = IdOf[c] => v = w
    /\ Numbers(w, c) = Prefix(worker[w].i)
    /\ handler[c].pc \notin {"create", "assign"}
    /\ handler[c].pc \in {"idle", "check", "reload", "read"} => handler[c].numbers = <<>>
    /\ \/ asyncStores[IdOf[c]] = w
       \/ asyncStores[IdOf[c]] = None
          /\ (client[c] = "done" \/ (handler[c].pc = "reply" /\ handler[c].end))

Own(c) ==
    /\ Fresh(c) \/ \E w \in Workers : Served(c, w)
    /\ client[c] = "error" => ~Up

IInv == Core /\ \A c \in Clients : OwnId(c) => Own(c)

-------------------------------------------------------------------------------
(* Sequences. *)

LEMMA Put ==
    ASSUME NEW S, NEW s \in Seq(S), NEW i \in 1..Len(s), NEW e \in S
    PROVE  /\ [s EXCEPT ![i] = e] \in Seq(S)
           /\ Len([s EXCEPT ![i] = e]) = Len(s)
           /\ [s EXCEPT ![i] = e][i] = e
           /\ \A j \in 1..Len(s) : j # i => [s EXCEPT ![i] = e][j] = s[j]
  BY ExceptSeq

LEMMA Added ==
    ASSUME NEW S, NEW s \in Seq(S), NEW e \in S
    PROVE  /\ Append(s, e) \in Seq(S)
           /\ Len(Append(s, e)) = Len(s) + 1
           /\ Append(s, e)[Len(s) + 1] = e
           /\ \A j \in 1..Len(s) : Append(s, e)[j] = s[j]
  OBVIOUS

-------------------------------------------------------------------------------
(* The core of the invariant. *)

LEMMA InitCore == Init => Core
<1> SUFFICES ASSUME Init PROVE Core
  OBVIOUS
<1> USE ConstantsAssumption DEF ConstantsAssumption, Init
<1>1. Len(worker) = 0 /\ Len(heap) = 0
  OBVIOUS
<1>2. Types
  <2>1. Idle \in Handler
    BY DEF Idle, Handler
  <2>2. heap \in Seq(Store) /\ worker \in Seq(Worker)
    OBVIOUS
  <2> QED BY <1>1, <2>1, <2>2 DEF Types
<1>3. \A w \in Workers : FALSE
  BY <1>1 DEF Workers
<1>4. Resting /\ NilStoreHasCause /\ \A r \in ReqIds : EntryOK(r)
  BY DEF Resting, NilStoreHasCause, EntryOK
<1>5. \A c \in Clients : HandlerOK(c) /\ EndsAtZero(c)
  BY DEF HandlerOK, EndsAtZero, Idle
<1> QED
  BY <1>2, <1>3, <1>4, <1>5 DEF Core

\* The types one by one.
LEMMA Typed ==
    ASSUME Core
    PROVE  /\ IdOf \in [Clients -> ReqIds] /\ RangeOf \in [Clients -> Nat]
           /\ asyncStores \in [ReqIds -> Workers \union {None}]
           /\ heap \in Seq(Store) /\ worker \in Seq(Worker)
           /\ Len(worker) \in Nat /\ Len(heap) = Len(worker)
           /\ Workers = 1..Len(worker) /\ None \notin Workers
           /\ \A w \in Workers : heap[w] \in Store /\ worker[w] \in Worker
           /\ handler \in [Clients -> Handler]
           /\ client \in [Clients -> {"poll", "wait", "rest", "done", "error"}]
           /\ received \in [Clients -> Seq(Nat)]
<1>1. Types
  BY DEF Core
<1>2. RangeOf \in [Clients -> Nat]
  <2>1. RangeOf \in [Clients -> Ranges] /\ Ranges \subseteq Nat
    BY <1>1, ConstantsAssumption DEF Types, ConstantsAssumption
  <2> QED BY <2>1
<1>3. heap \in Seq(Store) /\ worker \in Seq(Worker) /\ Len(heap) = Len(worker)
  BY <1>1 DEF Types
<1>4. Len(worker) \in Nat
  BY <1>3
<1>5. Workers = 1..Len(worker)
  BY DEF Workers
<1>6. None \notin Workers
  <2>1. Len(worker) <= MaxStores
    BY <1>1 DEF Types
  <2> QED BY <1>4, <1>5, <2>1, ConstantsAssumption DEF ConstantsAssumption
<1>7. \A w \in Workers : heap[w] \in Store /\ worker[w] \in Worker
  BY <1>3, <1>5, ElementOfSeq
<1> QED
  BY <1>1, <1>2, <1>3, <1>4, <1>5, <1>6, <1>7 DEF Types

\* A step of a request that leaves the workers alone and at most empties stores.
LEMMA RequestTakes ==
    ASSUME Core, NEW c \in Clients, UNCHANGED <<requests, worker, crashed>>,
           heap' \in Seq(Store), Len(heap') = Len(heap),
           \A w \in Workers : /\ heap'[w].requested = heap[w].requested
                              /\ heap'[w].current = heap[w].current,
           NEW h \in Handler, handler' = [handler EXCEPT ![c] = h],
           NEW k \in {"poll", "wait", "rest", "done", "error"},
           client' = [client EXCEPT ![c] = k],
           received' \in [Clients -> Seq(Nat)],
           Up /\ k # "wait" => h = Idle,
           h.pc = "read" => h.store \in Workers /\ worker[h.store].id = IdOf[c],
           h.pc \in {"remove", "delete"} => h.end,
           h.end \/ k = "done" =>
               handler[c].end \/ client[c] = "done" \/ ~Agreed(IdOf[c]) \/ RangeOf[c] = 0,
           \/ UNCHANGED asyncStores
           \/ asyncStores' = [asyncStores EXCEPT ![IdOf[c]] = None] /\ handler[c].end
    PROVE  Core'
<1>1. UNCHANGED <<IdOf, RangeOf>> /\ Workers' = Workers
  BY DEF requests, Workers
<1>2. Types'
  BY <1>1, Typed DEF Core, Types
<1>3. /\ \A d \in Clients : d # c => handler'[d] = handler[d] /\ client'[d] = client[d]
      /\ handler'[c] = h /\ client'[c] = k
  BY Typed
<1>4. Resting' /\ NilStoreHasCause'
  BY <1>1, <1>3 DEF Core, Resting, NilStoreHasCause, Up
<1>5. \A w \in Workers : WorkerOK(w)'
  BY <1>1 DEF Core, WorkerOK
<1>6. ASSUME NEW r \in ReqIds PROVE EntryOK(r)'
  <2>1. asyncStores'[r] = asyncStores[r] \/ asyncStores'[r] = None
    BY Typed
  <2> QED BY <2>1 DEF Core, EntryOK
<1>7. ASSUME NEW d \in Clients PROVE HandlerOK(d)' /\ EndsAtZero(d)'
  <2>1. HandlerOK(d) /\ EndsAtZero(d)
    BY DEF Core
  <2>2. CASE d = c
    BY <1>1, <1>3, <2>1, <2>2 DEF HandlerOK, EndsAtZero, Agreed
  <2>3. CASE d # c
    BY <1>1, <1>3, <2>1, <2>3 DEF HandlerOK, EndsAtZero, Agreed
  <2> QED BY <2>2, <2>3
<1>8. ASSUME NEW w \in Workers PROVE Lasts(w)'
  <2> SUFFICES ASSUME Agreed(worker[w].id), worker[w].n > 0
               PROVE  heap'[w].current < worker[w].n /\ asyncStores'[worker[w].id] # None
    BY <1>1 DEF Lasts, Agreed
  <2>1. heap[w].current < worker[w].n /\ asyncStores[worker[w].id] # None
    BY DEF Core, Lasts
  <2>2. ASSUME handler[c].end, worker[w].id = IdOf[c] PROVE FALSE
    <3>1. RangeOf[c] = 0
      BY <2>2 DEF Core, EndsAtZero
    <3>2. worker[w].n = 0
      BY <2>2, <3>1 DEF Core, WorkerOK, Agreed
    <3> QED BY <3>2
  <2>3. asyncStores'[worker[w].id] = asyncStores[worker[w].id]
    <3>1. asyncStores \in [ReqIds -> Workers \union {None}] /\ worker[w].id \in ReqIds
      BY Typed DEF Worker
    <3> QED BY <2>2, <3>1
  <2> QED BY <2>1, <2>3
<1> QED
  BY <1>1, <1>2, <1>4, <1>5, <1>6, <1>7, <1>8 DEF Core

LEMMA RequestMoves ==
    ASSUME Core, NEW c \in Clients, UNCHANGED <<requests, heap, worker, crashed>>,
           NEW h \in Handler, handler' = [handler EXCEPT ![c] = h],
           NEW k \in {"poll", "wait", "rest", "done", "error"},
           client' = [client EXCEPT ![c] = k],
           received' \in [Clients -> Seq(Nat)],
           Up /\ k # "wait" => h = Idle,
           h.pc = "read" => h.store \in Workers /\ worker[h.store].id = IdOf[c],
           h.pc \in {"remove", "delete"} => h.end,
           h.end \/ k = "done" => handler[c].end \/ client[c] = "done",
           \/ UNCHANGED asyncStores
           \/ asyncStores' = [asyncStores EXCEPT ![IdOf[c]] = None] /\ handler[c].end
    PROVE  Core'
<1>1. heap' \in Seq(Store) /\ Len(heap') = Len(heap)
  BY Typed
<1> QED
  BY <1>1, RequestTakes

LEMMA AssignCore ==
    ASSUME Core, NEW c \in Clients, Keep(EndAssign(c)) PROVE Core'
<1> DEFINE s == [current |-> 0, requested |-> RangeOf[c], numbers |-> <<>>]
           e == [pc |-> "loop", i |-> 0, n |-> RangeOf[c], id |-> IdOf[c], store |-> None]
<1>0. PICK k \in Nat : k = Len(worker) + 1
  BY Typed
<1>1. /\ Up /\ handler[c].pc = "assign" /\ Len(heap) < MaxStores
      /\ heap' = Append(heap, s) /\ worker' = Append(worker, e)
      /\ handler' = [handler EXCEPT ![c].pc = "reload"]
      /\ UNCHANGED <<client, received, crashed, IdOf, RangeOf>>
  BY DEF Keep, EndAssign, requests, At
<1>2. asyncStores' = [asyncStores EXCEPT ![IdOf[c]] = k]
  BY <1>0, Typed DEF Keep, EndAssign
<1>3. s.current = 0 /\ s.requested = RangeOf[c] /\ s \in Store
  <2>1. RangeOf[c] \in Nat
    BY Typed
  <2> QED BY <2>1 DEF Store
<1>4. /\ e.pc = "loop" /\ e.i = 0 /\ e.n = RangeOf[c] /\ e.id = IdOf[c]
      /\ e \in Worker /\ RangeOf[c] \in Nat
  <2>1. RangeOf[c] \in Nat /\ IdOf[c] \in ReqIds
    BY Typed
  <2> QED BY <2>1 DEF Worker
<1> HIDE DEF s, e
<1>5. /\ heap' \in Seq(Store) /\ Len(heap') = k /\ heap'[k] = s
      /\ \A w \in Workers : heap'[w] = heap[w]
  <2>1. heap \in Seq(Store) /\ Len(heap) = Len(worker) /\ Workers = 1..Len(worker)
    BY Typed
  <2> QED BY <1>1, <1>3, <1>0, <2>1, Added
<1>6. /\ worker' \in Seq(Worker) /\ Len(worker') = k /\ worker'[k] = e
      /\ \A w \in Workers : worker'[w] = worker[w]
  <2>1. worker \in Seq(Worker) /\ Workers = 1..Len(worker)
    BY Typed
  <2> QED BY <1>1, <1>4, <1>0, <2>1, Added
<1>7. k \in Workers' /\ Workers \subseteq Workers' /\ Workers' = Workers \union {k}
  <2>1. Len(worker) \in Nat
    BY Typed
  <2>2. Workers' = 1..k /\ Workers = 1..Len(worker)
    BY <1>6 DEF Workers
  <2> QED BY <1>0, <2>1, <2>2
<1>8. Types'
  <2>1. asyncStores' \in [ReqIds -> Workers' \union {None}]
    BY <1>2, <1>7, Typed
  <2>2. handler' \in [Clients -> Handler]
    <3>1. handler[c] \in Handler /\ handler \in [Clients -> Handler]
      BY Typed
    <3>2. [handler[c] EXCEPT !.pc = "reload"] \in Handler
      BY <3>1 DEF Handler
    <3> QED BY <1>1, <3>1, <3>2
  <2>3. Len(heap') = Len(worker') /\ Len(heap') <= MaxStores
    <3>1. Len(heap) = Len(worker) /\ Len(worker) \in Nat
      BY Typed
    <3> QED BY <1>1, <1>5, <1>6, <1>0, <3>1, ConstantsAssumption DEF ConstantsAssumption
  <2> QED BY <1>1, <1>5, <1>6, <2>1, <2>2, <2>3 DEF Core, Types
<1>9. k # None /\ k \notin Workers
  <2>1. k \in 1..MaxStores
    BY <1>1, <1>0, Typed, ConstantsAssumption DEF ConstantsAssumption
  <2> QED BY <1>0, <2>1, Typed, ConstantsAssumption DEF ConstantsAssumption
<1>10. Resting' /\ NilStoreHasCause'
  <2>1. client[c] = "wait"
    <3>1. handler[c] # Idle
      BY <1>1 DEF Idle
    <3> QED BY <1>1, <3>1 DEF Core, Resting
  <2>2. \A d \in Clients : d # c => handler'[d] = handler[d]
    BY <1>1, Typed
  <2> QED BY <1>1, <2>1, <2>2 DEF Core, Resting, NilStoreHasCause, Up
<1>11. \A w \in Workers' : WorkerOK(w)'
  <2>1. ASSUME NEW w \in Workers PROVE WorkerOK(w)'
    <3>1. WorkerOK(w) /\ heap'[w] = heap[w] /\ worker'[w] = worker[w]
      BY <1>5, <1>6 DEF Core
    <3> QED BY <1>1, <1>6, <1>7, <3>1 DEF WorkerOK
  <2>2. WorkerOK(k)'
    <3>1. 0 <= RangeOf[c]
      BY <1>4
    <3> QED BY <1>1, <1>3, <1>4, <1>5, <1>6, <3>1 DEF WorkerOK
  <2> QED BY <1>7, <2>1, <2>2
<1>12. \A w \in Workers' : Lasts(w)'
  <2>1. ASSUME NEW w \in Workers PROVE Lasts(w)'
    <3>1. Lasts(w) /\ heap'[w] = heap[w] /\ worker'[w] = worker[w]
      BY <1>5, <1>6 DEF Core
    <3>2. asyncStores'[worker[w].id] # None \/ asyncStores[worker[w].id] = None
      BY <1>2, <1>9, Typed DEF Worker
    <3> QED BY <1>1, <3>1, <3>2 DEF Lasts, Agreed
  <2>2. Lasts(k)'
    <3>1. asyncStores'[IdOf[c]] # None
      BY <1>2, <1>9, Typed
    <3> QED BY <1>1, <1>3, <1>4, <1>5, <1>6, <3>1 DEF Lasts
  <2> QED BY <1>7, <2>1, <2>2
<1>13. ASSUME NEW r \in ReqIds PROVE EntryOK(r)'
  <2>1. asyncStores'[r] = IF r = IdOf[c] THEN k ELSE asyncStores[r]
    BY <1>2, Typed
  <2>2. asyncStores[r] # None => asyncStores[r] \in Workers /\ EntryOK(r)
    BY Typed DEF Core
  <2> QED BY <1>4, <1>6, <2>1, <2>2 DEF EntryOK
<1>14. ASSUME NEW d \in Clients PROVE HandlerOK(d)' /\ EndsAtZero(d)'
  <2>1. /\ handler'[d].store = handler[d].store /\ handler'[d].end = handler[d].end
        /\ handler'[d].pc = handler[d].pc \/ handler'[d].pc = "reload"
    <3>1. handler[d] \in Handler /\ handler \in [Clients -> Handler]
      BY Typed
    <3> QED BY <1>1, <3>1 DEF Handler
  <2>2. HandlerOK(d) /\ EndsAtZero(d)
    BY DEF Core
  <2> QED BY <1>1, <1>6, <1>7, <2>1, <2>2 DEF HandlerOK, EndsAtZero, Agreed
<1> QED
  BY <1>8, <1>10, <1>11, <1>12, <1>13, <1>14 DEF Core

\* What a request goes through, apart from the answer.
LEMMA Turn ==
    ASSUME Core, NEW c \in Clients,
           NEW pc \in {"check", "create", "assign", "reload", "remove", "delete", "reply"},
           handler' = [handler EXCEPT ![c].pc = pc]
    PROVE  /\ [handler[c] EXCEPT !.pc = pc] \in Handler
           /\ [handler[c] EXCEPT !.pc = pc].pc = pc
           /\ [handler[c] EXCEPT !.pc = pc].end = handler[c].end
           /\ [handler[c] EXCEPT !.pc = pc].numbers = handler[c].numbers
           /\ handler' = [handler EXCEPT ![c] = [handler[c] EXCEPT !.pc = pc]]
<1>1. handler[c] \in Handler
  BY Typed
<1> QED
  BY <1>1 DEF Handler

LEMMA Still ==
    ASSUME Core, NEW c \in Clients, UNCHANGED client
    PROVE  client' = [client EXCEPT ![c] = client[c]]
           /\ client[c] \in {"poll", "wait", "rest", "done", "error"}
  BY Typed

LEMMA Waits ==
    ASSUME Core, NEW c \in Clients, Up, handler[c].pc # "idle" PROVE client[c] = "wait"
  BY DEF Core, Resting, Idle

LEMMA HandlerPcCore ==
    ASSUME Core, NEW c \in Clients, Up, handler[c].pc # "idle",
           NEW pc \in {"check", "create", "assign", "reload", "remove", "delete", "reply"},
           handler' = [handler EXCEPT ![c].pc = pc],
           UNCHANGED <<requests, heap, worker, client, received, crashed>>,
           pc \in {"remove", "delete"} => handler[c].end,
           \/ UNCHANGED asyncStores
           \/ asyncStores' = [asyncStores EXCEPT ![IdOf[c]] = None] /\ handler[c].end
    PROVE  Core'
<1> DEFINE h == [handler[c] EXCEPT !.pc = pc]
<1>1. /\ h \in Handler /\ h.pc = pc /\ h.end = handler[c].end
      /\ handler' = [handler EXCEPT ![c] = h]
  BY Turn
<1> HIDE DEF h
<1>2. PICK g \in Handler : g = h
  BY <1>1
<1>3. client[c] = "wait" /\ client' = [client EXCEPT ![c] = client[c]]
  BY Still, Waits
<1>4. received' \in [Clients -> Seq(Nat)]
  BY Typed
<1>5. PICK k \in {"poll", "wait", "rest", "done", "error"} : k = client[c]
  BY <1>3
<1> QED
  BY <1>1, <1>2, <1>3, <1>4, <1>5, RequestMoves

LEMMA ClientCore ==
    ASSUME Core, NEW c \in Clients, Keep(ClientStep(c)) PROVE Core'
<1>1. received' \in [Clients -> Seq(Nat)] /\ UNCHANGED <<requests, server, crashed>>
  BY Typed DEF Keep, ClientStep, Poll, Rest, PollFails
<1>2. /\ handler[c] \in Handler /\ handler = [handler EXCEPT ![c] = handler[c]]
      /\ HandlerOK(c)
  BY Typed DEF Core
<1>3. CASE Poll(c)
  <2> DEFINE h == [handler[c] EXCEPT !.pc = "check"]
  <2>1. /\ h \in Handler /\ h.pc = "check" /\ h.end = handler[c].end
        /\ handler' = [handler EXCEPT ![c] = h]
    BY <1>3, Turn DEF Poll
  <2> HIDE DEF h
  <2>2. client' = [client EXCEPT ![c] = "wait"] /\ client[c] = "poll"
    BY <1>3 DEF Poll
  <2>3. PICK g \in Handler : g = h
    BY <2>1
  <2> QED BY <1>1, <2>1, <2>2, <2>3, RequestMoves DEF server
<1>4. CASE Rest(c)
  <2>1. client' = [client EXCEPT ![c] = "poll"] /\ client[c] = "rest" /\ UNCHANGED handler
    BY <1>4 DEF Rest
  <2>2. Up => handler[c] = Idle
    BY <2>1 DEF Core, Resting
  <2>3. PICK g \in Handler : g = handler[c]
    BY <1>2
  <2> QED BY <1>1, <1>2, <2>1, <2>2, <2>3, RequestMoves DEF server, HandlerOK
<1>5. CASE PollFails(c)
  <2>1. client' = [client EXCEPT ![c] = "error"] /\ ~Up /\ UNCHANGED handler
    BY <1>5 DEF PollFails
  <2>2. PICK g \in Handler : g = handler[c]
    BY <1>2
  <2> QED BY <1>1, <1>2, <2>1, <2>2, RequestMoves DEF server, HandlerOK
<1> QED
  BY <1>3, <1>4, <1>5 DEF Keep, ClientStep

LEMMA IdleIsHandler == Idle \in Handler /\ Idle.pc = "idle" /\ Idle.end = FALSE
  BY DEF Idle, Handler

LEMMA ReloadCore ==
    ASSUME Core, NEW c \in Clients, Keep(Reload(c)) PROVE Core'
<1>1. /\ Up /\ handler[c].pc = "reload"
      /\ UNCHANGED <<requests, asyncStores, heap, worker, received, crashed>>
  BY DEF Keep, Reload, At, server
<1>2. received' \in [Clients -> Seq(Nat)] /\ client[c] = "wait"
  BY <1>1, Typed, Waits
<1>3. PICK s \in Workers \union {None} : s = asyncStores[IdOf[c]]
  BY Typed
<1>4. CASE s # None
  <2> DEFINE h == [handler[c] EXCEPT !.pc = "read", !.store = s]
  <2>1. s \in Workers /\ s \in Nat /\ worker[s].id = IdOf[c]
    <3>1. IdOf[c] \in ReqIds /\ Workers = 1..Len(worker)
      BY Typed
    <3> QED BY <1>3, <1>4, <3>1 DEF Core, EntryOK
  <2>2. /\ h \in Handler /\ h.pc = "read" /\ h.store = s /\ h.end = handler[c].end
    <3>1. handler[c] \in Handler
      BY Typed
    <3> QED BY <2>1, <3>1 DEF Handler
  <2>3. handler' = [handler EXCEPT ![c] = h] /\ UNCHANGED client
    BY <1>3, <1>4 DEF Keep, Reload
  <2> HIDE DEF h
  <2>4. PICK g \in Handler : g = h
    BY <2>2
  <2>5. client' = [client EXCEPT ![c] = "wait"]
    BY <1>2, <2>3, Typed
  <2> QED BY <1>1, <1>2, <2>1, <2>2, <2>3, <2>4, <2>5, RequestMoves
<1>5. CASE s = None
  <2>1. handler' = [handler EXCEPT ![c] = Idle] /\ client' = [client EXCEPT ![c] = "error"]
    BY <1>3, <1>5 DEF Keep, Reload
  <2>2. PICK g \in Handler : g = Idle
    BY IdleIsHandler
  <2> QED BY <1>1, <1>2, <2>1, <2>2, IdleIsHandler, RequestMoves
<1> QED
  BY <1>4, <1>5

LEMMA ReplyCore ==
    ASSUME Core, NEW c \in Clients, Keep(Reply(c)) PROVE Core'
<1>1. /\ handler' = [handler EXCEPT ![c] = Idle]
      /\ UNCHANGED <<requests, asyncStores, heap, worker, crashed>>
      /\ received' = [received EXCEPT ![c] = received[c] \o handler[c].numbers]
  BY DEF Keep, Reply, server
<1>2. PICK k \in {"rest", "done"} :
        client' = [client EXCEPT ![c] = k] /\ (k = "done" => handler[c].end)
  BY DEF Keep, Reply
<1>3. received' \in [Clients -> Seq(Nat)]
  <2>1. handler[c].numbers \in Seq(Nat) /\ received \in [Clients -> Seq(Nat)]
    BY Typed DEF Handler
  <2> QED BY <1>1, <2>1
<1>4. PICK g \in Handler : g = Idle
  BY IdleIsHandler
<1> QED
  BY <1>1, <1>2, <1>3, <1>4, IdleIsHandler, RequestMoves

LEMMA HandlerPcSteps ==
    ASSUME Core, NEW c \in Clients,
           \/ Keep(CheckStore(c)) \/ Keep(BeginAssign(c))
           \/ Keep(BeginDelete(c)) \/ Keep(EndDelete(c))
    PROVE  /\ Up /\ handler[c].pc # "idle"
           /\ UNCHANGED <<requests, heap, worker, client, received, crashed>>
           /\ \E pc \in {"check", "create", "assign", "reload", "remove", "delete", "reply"} :
                /\ handler' = [handler EXCEPT ![c].pc = pc]
                /\ pc \in {"remove", "delete"} => handler[c].end
           /\ \/ UNCHANGED asyncStores
              \/ asyncStores' = [asyncStores EXCEPT ![IdOf[c]] = None] /\ handler[c].end
<1>1. HandlerOK(c)
  BY DEF Core
<1>2. CASE Keep(CheckStore(c))
  BY <1>2 DEF Keep, CheckStore, At, server
<1>3. CASE Keep(BeginAssign(c))
  BY <1>3 DEF Keep, BeginAssign, At, server
<1>4. CASE Keep(BeginDelete(c))
  BY <1>1, <1>4 DEF Keep, BeginDelete, At, server, HandlerOK
<1>5. CASE Keep(EndDelete(c))
  BY <1>1, <1>5 DEF Keep, EndDelete, At, HandlerOK
<1> QED
  BY <1>2, <1>3, <1>4, <1>5

\* A step of a worker that keeps what it was asked for, and may write to a store.
LEMMA WorkerMoves ==
    ASSUME Core, NEW w \in Workers, NEW e \in Worker, worker' = [worker EXCEPT ![w] = e],
           e.id = worker[w].id, e.n = worker[w].n, e.i <= e.n,
           e.pc \in {"lookup", "write"} => e.i < e.n,
           e.pc = "write" => e.store \in Workers /\ worker[e.store].id = e.id,
           heap' \in Seq(Store), Len(heap') = Len(heap),
           \A v \in Workers :
             /\ heap'[v].requested = heap[v].requested
             /\ \/ heap'[v].current = heap[v].current
                \/ Agreed(worker[v].id) => heap'[v].current < worker[v].n,
           UNCHANGED <<requests, asyncStores, handler, client, received, crashed>>
    PROVE  Core'
<1>1. UNCHANGED <<IdOf, RangeOf>>
  BY DEF requests
<1>2. /\ worker' \in Seq(Worker) /\ Len(worker') = Len(worker) /\ worker'[w] = e
      /\ \A v \in Workers : v # w => worker'[v] = worker[v]
  <2>1. worker \in Seq(Worker) /\ Workers = 1..Len(worker)
    BY Typed
  <2> QED BY <2>1, Put
<1>3. Workers' = Workers
  BY <1>2 DEF Workers
<1>4. Types'
  BY <1>1, <1>2, <1>3 DEF Core, Types
<1>5. Resting' /\ NilStoreHasCause'
  BY <1>1 DEF Core, Resting, NilStoreHasCause, Up
<1>6. \A v \in Workers : worker'[v].id = worker[v].id /\ worker'[v].n = worker[v].n
  BY <1>2
<1>7. ASSUME NEW v \in Workers PROVE WorkerOK(v)'
  <2>1. WorkerOK(v)
    BY DEF Core
  <2>2. heap'[v].requested = worker'[v].n
    BY <1>6, <2>1 DEF WorkerOK
  <2>3. CASE v = w
    BY <1>1, <1>2, <1>3, <1>6, <2>1, <2>2, <2>3 DEF WorkerOK
  <2>4. CASE v # w
    BY <1>1, <1>2, <1>3, <1>6, <2>1, <2>2, <2>4 DEF WorkerOK
  <2> QED BY <2>3, <2>4
<1>8. ASSUME NEW v \in Workers PROVE Lasts(v)'
  <2>1. Lasts(v)
    BY DEF Core
  <2> QED BY <1>1, <1>6, <2>1 DEF Lasts, Agreed
<1>9. ASSUME NEW r \in ReqIds PROVE EntryOK(r)'
  <2>1. EntryOK(r) /\ asyncStores[r] \in Workers \union {None}
    BY Typed DEF Core
  <2> QED BY <1>6, <2>1 DEF EntryOK
<1>10. ASSUME NEW d \in Clients PROVE HandlerOK(d)' /\ EndsAtZero(d)'
  <2>1. HandlerOK(d) /\ EndsAtZero(d)
    BY DEF Core
  <2> QED BY <1>1, <1>3, <1>6, <2>1 DEF HandlerOK, EndsAtZero, Agreed
<1> QED
  BY <1>3, <1>4, <1>5, <1>7, <1>8, <1>9, <1>10 DEF Core

\* Two workers of an id for which all requests agree work for the same number.
LEMMA SameNumber ==
    ASSUME Core, NEW v \in Workers, NEW w \in Workers,
           worker[v].id = worker[w].id, Agreed(worker[v].id)
    PROVE  worker[v].n = worker[w].n
  BY DEF Core, WorkerOK, Agreed

LEMMA IsWorker ==
    ASSUME Core, NEW w, NEW pc, Working(w, pc)
    PROVE  /\ w \in Workers /\ Up /\ worker[w].pc = pc
           /\ worker[w] \in Worker /\ WorkerOK(w)
<1>1. DOMAIN worker = Workers
  BY Typed
<1>2. w \in Workers /\ Up /\ worker[w].pc = pc
  BY <1>1 DEF Working
<1> QED
  BY <1>2, Typed DEF Core

LEMMA LoopCore ==
    ASSUME Core, NEW w \in Stores, Keep(WorkerLoop(w)) PROVE Core'
<1>1. w \in Workers /\ worker[w].pc = "loop" /\ worker[w] \in Worker /\ WorkerOK(w)
  BY IsWorker DEF Keep, WorkerLoop
<1>2. PICK pc \in {"lookup", "done"} :
        /\ worker' = [worker EXCEPT ![w].pc = pc]
        /\ pc = "lookup" => worker[w].i < worker[w].n
  BY DEF Keep, WorkerLoop
<1> DEFINE e == [worker[w] EXCEPT !.pc = pc]
<1>3. /\ e \in Worker /\ e.pc = pc /\ e.i = worker[w].i /\ e.n = worker[w].n
      /\ e.id = worker[w].id /\ worker' = [worker EXCEPT ![w] = e]
  BY <1>1, <1>2 DEF Worker
<1> HIDE DEF e
<1>4. PICK f \in Worker : f = e
  BY <1>3
<1>5. UNCHANGED <<requests, asyncStores, heap, handler, client, received, crashed>>
  BY DEF Keep, WorkerLoop
<1>6. heap' \in Seq(Store) /\ worker[w].i <= worker[w].n
  BY <1>1, <1>5, Typed DEF WorkerOK
<1> QED
  BY <1>1, <1>2, <1>3, <1>4, <1>5, <1>6, WorkerMoves

LEMMA LookupCore ==
    ASSUME Core, NEW w \in Stores, Keep(WorkerLookup(w)) PROVE Core'
<1>1. /\ w \in Workers /\ worker[w].pc = "lookup" /\ worker[w] \in Worker /\ WorkerOK(w)
      /\ Up
  BY IsWorker DEF Keep, WorkerLookup
<1>2. worker[w].i < worker[w].n /\ worker[w].i \in Nat /\ worker[w].n \in Nat
  BY <1>1 DEF WorkerOK, Worker
<1>3. worker[w].id \in ReqIds
  BY <1>1 DEF Worker
<1>4. PICK s \in Workers \union {None} : s = asyncStores[worker[w].id]
  BY <1>3, Typed
<1>5. UNCHANGED <<requests, asyncStores, heap, handler, client, received>>
  BY DEF Keep, WorkerLookup
<1>6. CASE s # None
  <2>1. s \in Workers /\ s \in Nat /\ worker[s].id = worker[w].id
    BY <1>3, <1>4, <1>6, Typed DEF Core, EntryOK
  <2>2. worker' = [worker EXCEPT ![w].pc = "write", ![w].store = s] /\ UNCHANGED crashed
    BY <1>4, <1>6 DEF Keep, WorkerLookup
  <2> DEFINE e == [worker[w] EXCEPT !.pc = "write", !.store = s]
  <2>3. /\ e \in Worker /\ e.pc = "write" /\ e.i = worker[w].i /\ e.n = worker[w].n
        /\ e.id = worker[w].id /\ e.store = s /\ worker' = [worker EXCEPT ![w] = e]
    BY <1>1, <2>1, <2>2 DEF Worker
  <2> HIDE DEF e
  <2>4. PICK f \in Worker : f = e
    BY <2>3
  <2>5. heap' \in Seq(Store) /\ worker[w].i <= worker[w].n
    BY <1>2, <1>5, Typed
  <2> QED BY <1>1, <1>2, <1>5, <2>1, <2>2, <2>3, <2>4, <2>5, WorkerMoves
<1>7. CASE s = None
  <2>1. UNCHANGED worker /\ crashed' = "nil store"
    BY <1>4, <1>7 DEF Keep, WorkerLookup
  <2>2. ~Agreed(worker[w].id)
    <3>1. worker[w].n > 0
      BY <1>2
    <3>2. Lasts(w)
      BY <1>1 DEF Core
    <3> QED BY <1>4, <1>7, <3>1, <3>2 DEF Lasts
  <2>3. NilStoreHasCause'
    BY <1>5, <2>2 DEF NilStoreHasCause, Agreed, requests
  <2>4. UNCHANGED <<IdOf, RangeOf>> /\ ~Up' /\ Workers' = Workers
    BY <1>5, <2>1 DEF requests, Up, Workers
  <2>5. Types' /\ Resting'
    BY <1>5, <2>1, <2>4 DEF Core, Types, Resting
  <2>6. \A v \in Workers : WorkerOK(v)' /\ Lasts(v)'
    BY <1>5, <2>1, <2>4 DEF Core, WorkerOK, Lasts, Agreed
  <2>7. /\ \A r \in ReqIds : EntryOK(r)'
        /\ \A d \in Clients : HandlerOK(d)' /\ EndsAtZero(d)'
    BY <1>5, <2>1, <2>4 DEF Core, EntryOK, HandlerOK, EndsAtZero, Agreed
  <2> QED BY <2>3, <2>4, <2>5, <2>6, <2>7 DEF Core
<1> QED
  BY <1>6, <1>7

LEMMA WriteCore ==
    ASSUME Core, NEW w \in Stores, Keep(WorkerWrite(w)) PROVE Core'
<1>1. w \in Workers /\ worker[w].pc = "write" /\ worker[w] \in Worker /\ WorkerOK(w)
  BY IsWorker DEF Keep, WorkerWrite
<1>2. worker[w].i < worker[w].n /\ worker[w].i \in Nat /\ worker[w].n \in Nat
  BY <1>1 DEF WorkerOK, Worker
<1>3. PICK s \in Workers : s = worker[w].store /\ worker[s].id = worker[w].id
  BY <1>1 DEF WorkerOK
<1>4. PICK i \in Nat : i = worker[w].i
  BY <1>2
<1> DEFINE e == [worker[w] EXCEPT !.pc = "loop", !.i = i + 1, !.store = None]
           b == [heap[s] EXCEPT !.current = i, !.numbers = Append(heap[s].numbers, i)]
<1>5. UNCHANGED <<requests, asyncStores, handler, client, received, crashed>>
  BY DEF Keep, WorkerWrite
<1>6. /\ e \in Worker /\ e.pc = "loop" /\ e.i = i + 1 /\ e.n = worker[w].n
      /\ e.id = worker[w].id /\ worker' = [worker EXCEPT ![w] = e]
  <2>1. worker' = [worker EXCEPT ![w].pc = "loop", ![w].i = @ + 1, ![w].store = None]
    BY DEF Keep, WorkerWrite
  <2>2. worker' = [worker EXCEPT ![w] = e]
    BY <1>4, <2>1
  <2>3. e.pc = "loop" /\ e.i = i + 1 /\ e.n = worker[w].n /\ e.id = worker[w].id
    BY <1>1 DEF Worker
  <2>4. e \in Worker
    <3>1. \A j \in Nat :
            [worker[w] EXCEPT !.pc = "loop", !.i = j, !.store = None] \in Worker
      BY <1>1 DEF Worker
    <3>2. i + 1 \in Nat
      BY <1>4
    <3> QED BY <3>1, <3>2
  <2> QED BY <2>2, <2>3, <2>4
<1>7. b \in Store /\ b.current = i /\ b.requested = heap[s].requested
  <2>1. heap[s] \in Store
    BY Typed
  <2>2. Append(heap[s].numbers, i) \in Seq(Nat)
    BY <2>1, Added DEF Store
  <2>3. \A q \in Seq(Nat) :
          LET a == [heap[s] EXCEPT !.current = i, !.numbers = q] IN
          a \in Store /\ a.current = i /\ a.requested = heap[s].requested
    BY <2>1 DEF Store
  <2> QED BY <2>2, <2>3
<1>8. heap' = [heap EXCEPT ![s] = b]
  BY <1>3, <1>4 DEF Keep, WorkerWrite, Written
<1> HIDE DEF e, b
<1>9. /\ heap' \in Seq(Store) /\ Len(heap') = Len(heap) /\ heap'[s] = b
      /\ \A v \in Workers : v # s => heap'[v] = heap[v]
  <2>1. heap \in Seq(Store) /\ Workers = 1..Len(heap)
    BY Typed
  <2> QED BY <1>7, <1>8, <2>1, Put
<1>10. ASSUME NEW v \in Workers
       PROVE  /\ heap'[v].requested = heap[v].requested
              /\ \/ heap'[v].current = heap[v].current
                 \/ Agreed(worker[v].id) => heap'[v].current < worker[v].n
  <2>1. CASE v # s
    BY <1>9, <2>1
  <2>2. CASE v = s
    <3>1. Agreed(worker[s].id) => worker[s].n = worker[w].n
      BY <1>1, <1>3, SameNumber
    <3> QED BY <1>2, <1>4, <1>7, <1>9, <2>2, <3>1
  <2> QED BY <2>1, <2>2
<1>11. PICK f \in Worker : f = e
  BY <1>6
<1>12. e.i <= e.n
  BY <1>2, <1>4, <1>6
<1> QED
  BY <1>1, <1>5, <1>6, <1>9, <1>10, <1>11, <1>12, WorkerMoves

\* What Read of client c does.
ReadOf(c, s, h) ==
    /\ s \in Workers /\ s = handler[c].store /\ worker[s].id = IdOf[c]
    /\ h \in Handler /\ handler' = [handler EXCEPT ![c] = h]
    /\ h.pc \in {"remove", "reply"} /\ (h.pc = "remove" => h.end)
    /\ h.end => heap[s].current = heap[s].requested
    /\ h.numbers = heap[s].numbers
    /\ heap' \in Seq(Store) /\ Len(heap') = Len(heap)
    /\ heap'[s] = [heap[s] EXCEPT !.numbers = <<>>]
    /\ \A v \in Workers : v # s => heap'[v] = heap[v]
    /\ client[c] = "wait" /\ handler[c].pc = "read"
    /\ UNCHANGED <<requests, asyncStores, worker, client, received, crashed>>

LEMMA ReadIs ==
    ASSUME Core, NEW c \in Clients, Keep(Read(c)) PROVE \E s, h : ReadOf(c, s, h)
<1>1. Up /\ handler[c].pc = "read"
  BY DEF Keep, Read, At
<1>2. PICK s \in Workers : s = handler[c].store /\ worker[s].id = IdOf[c]
  BY <1>1 DEF Core, HandlerOK
<1>3. heap[s] \in Store /\ heap \in Seq(Store) /\ Workers = 1..Len(heap)
  BY Typed
<1>4. PICK end \in BOOLEAN : end <=> heap[s].current = heap[s].requested
  OBVIOUS
<1> DEFINE h == [pc |-> IF end THEN "remove" ELSE "reply", store |-> None,
                 numbers |-> heap[s].numbers, end |-> end]
           b == [heap[s] EXCEPT !.numbers = <<>>]
<1>5. h \in Handler
  BY <1>3 DEF Handler, Store
<1>6. handler' = [handler EXCEPT ![c] = h]
  <2>1. end = (heap[s].current = heap[s].requested)
    BY <1>4
  <2> QED BY <1>2, <2>1 DEF Keep, Read, EndReached
<1>7. heap' = [heap EXCEPT ![s] = b]
  BY <1>2 DEF Keep, Read
<1>8. b \in Store
  <2>1. \A q \in Seq(Nat) : [heap[s] EXCEPT !.numbers = q] \in Store
    BY <1>3 DEF Store
  <2>2. <<>> \in Seq(Nat)
    OBVIOUS
  <2> QED BY <2>1, <2>2
<1>9. /\ heap' \in Seq(Store) /\ Len(heap') = Len(heap) /\ heap'[s] = b
      /\ \A v \in Workers : v # s => heap'[v] = heap[v]
  BY <1>3, <1>7, <1>8, Put
<1>10. client[c] = "wait"
  BY <1>1, Waits
<1>11. UNCHANGED <<requests, asyncStores, worker, client, received, crashed>>
  BY DEF Keep, Read
<1>12. ReadOf(c, s, h)
  BY <1>1, <1>2, <1>4, <1>5, <1>6, <1>9, <1>10, <1>11 DEF ReadOf
<1> QED
  BY <1>12

LEMMA ReadCore ==
    ASSUME Core, NEW c \in Clients, Keep(Read(c)) PROVE Core'
<1>1. PICK s, h : ReadOf(c, s, h)
  BY ReadIs
<1>2. s \in Workers /\ worker[s].id = IdOf[c] /\ h \in Handler
  BY <1>1 DEF ReadOf
<1>3. h.end => ~Agreed(IdOf[c]) \/ RangeOf[c] = 0
  <2>1. WorkerOK(s) /\ Lasts(s) /\ worker[s].n \in Nat
    BY <1>2, Typed DEF Core, Worker
  <2>2. Agreed(IdOf[c]) => worker[s].n = RangeOf[c]
    BY <1>2, <2>1 DEF WorkerOK, Agreed
  <2>3. heap[s].requested = worker[s].n
    BY <2>1 DEF WorkerOK
  <2>4. Agreed(IdOf[c]) /\ worker[s].n > 0 => heap[s].current < worker[s].n
    BY <1>2, <2>1 DEF Lasts
  <2>5. heap[s].current \in Nat
    BY <1>2, Typed DEF Store
  <2>6. h.end => heap[s].current = heap[s].requested
    BY <1>1 DEF ReadOf
  <2> QED BY <2>1, <2>2, <2>3, <2>4, <2>5, <2>6
<1>4. /\ heap' \in Seq(Store) /\ Len(heap') = Len(heap)
      /\ \A w \in Workers : /\ heap'[w].requested = heap[w].requested
                            /\ heap'[w].current = heap[w].current
  <2>1. /\ heap' \in Seq(Store) /\ Len(heap') = Len(heap)
        /\ heap'[s] = [heap[s] EXCEPT !.numbers = <<>>]
        /\ \A v \in Workers : v # s => heap'[v] = heap[v]
    BY <1>1 DEF ReadOf
  <2>2. /\ heap'[s].requested = heap[s].requested /\ heap'[s].current = heap[s].current
    BY <1>2, <2>1, Typed DEF Store
  <2> QED BY <2>1, <2>2
<1>5. client' = [client EXCEPT ![c] = "wait"] /\ received' \in [Clients -> Seq(Nat)]
  BY <1>1, Typed DEF ReadOf
<1>6. /\ handler' = [handler EXCEPT ![c] = h] /\ h.pc \in {"remove", "reply"}
      /\ (h.pc = "remove" => h.end) /\ UNCHANGED <<requests, asyncStores, worker, crashed>>
  BY <1>1 DEF ReadOf
<1> QED
  BY <1>2, <1>3, <1>4, <1>5, <1>6, RequestTakes

LEMMA RaceCore ==
    ASSUME Core, crashed' \in {crashed, "map race"},
           UNCHANGED <<requests, server, handler, client, received>>
    PROVE Core'
<1>1. UNCHANGED <<IdOf, RangeOf, asyncStores, heap, worker>> /\ Workers' = Workers
  BY DEF requests, server, Workers
<1>2. Up' => Up
  BY DEF Up
<1>3. Types' /\ Resting' /\ NilStoreHasCause'
  BY <1>1, <1>2 DEF Core, Types, Resting, NilStoreHasCause
<1>4. \A v \in Workers : WorkerOK(v)' /\ Lasts(v)'
  BY <1>1 DEF Core, WorkerOK, Lasts, Agreed
<1>5. \A r \in ReqIds : EntryOK(r)'
  BY <1>1 DEF Core, EntryOK
<1>6. \A d \in Clients : HandlerOK(d)' /\ EndsAtZero(d)'
  BY <1>1 DEF Core, HandlerOK, EndsAtZero, Agreed
<1> QED
  BY <1>1, <1>3, <1>4, <1>5, <1>6 DEF Core

LEMMA PcCore ==
    ASSUME Core, NEW c \in Clients,
           \/ Keep(CheckStore(c)) \/ Keep(BeginAssign(c))
           \/ Keep(BeginDelete(c)) \/ Keep(EndDelete(c))
    PROVE  Core'
  BY HandlerPcSteps, HandlerPcCore

LEMMA NextCore == Core /\ [Next]_vars => Core'
<1> SUFFICES ASSUME Core, [Next]_vars PROVE Core'
  OBVIOUS
<1>1. CASE UNCHANGED vars
  BY <1>1, RaceCore DEF vars
<1>2. ASSUME NEW c \in Clients, Keep(ClientStep(c)) PROVE Core'
  BY <1>2, ClientCore
<1>3. ASSUME NEW c \in Clients, Keep(HandlerStep(c)) PROVE Core'
  <2>1. \/ Keep(CheckStore(c)) \/ Keep(BeginAssign(c)) \/ Keep(EndAssign(c))
        \/ Keep(Reload(c)) \/ Keep(Read(c)) \/ Keep(BeginDelete(c)) \/ Keep(EndDelete(c))
        \/ Keep(Reply(c))
    BY <1>3 DEF Keep, HandlerStep
  <2> QED BY <2>1, PcCore, AssignCore, ReloadCore, ReadCore, ReplyCore
<1>4. ASSUME NEW w \in Stores, Keep(WorkerStep(w)) PROVE Core'
  <2>1. Keep(WorkerLoop(w)) \/ Keep(WorkerLookup(w)) \/ Keep(WorkerWrite(w))
    BY <1>4 DEF Keep, WorkerStep
  <2> QED BY <2>1, LoopCore, LookupCore, WriteCore
<1>5. CASE Keep(RaceDetected)
  BY <1>5, RaceCore DEF Keep, RaceDetected
<1> QED
  BY <1>1, <1>2, <1>3, <1>4, <1>5 DEF Next

-------------------------------------------------------------------------------
(* A client with an id of its own. *)

LEMMA Moving ==
    ASSUME NEW r \in Seq(Nat), NEW h \in Seq(Nat), NEW n \in Seq(Nat), NEW i \in Nat
    PROVE  /\ (r \o <<>>) \o n = (r \o n) \o <<>>
           /\ (r \o h) \o n = ((r \o h) \o <<>>) \o n
           /\ (r \o h) \o Append(n, i) = Append((r \o h) \o n, i)
<1>1. /\ r \o <<>> = r /\ r \o n \in Seq(Nat) /\ r \o h \in Seq(Nat)
      /\ (r \o n) \o <<>> = r \o n /\ (r \o h) \o <<>> = r \o h
  BY ConcatEmptySeq, ConcatProperties
<1>2. PICK q \in Seq(Nat) : q = r \o h
  BY <1>1
<1>3. q \o Append(n, i) = Append(q \o n, i)
  OBVIOUS
<1> QED
  BY <1>1, <1>2, <1>3

LEMMA PrefixGrows ==
    ASSUME NEW k \in Nat PROVE Append(Prefix(k), k) = Prefix(k + 1)
  BY DEF Prefix

LEMMA NumbersTyped ==
    ASSUME Core, NEW c \in Clients, NEW w \in Workers
    PROVE  /\ received[c] \in Seq(Nat) /\ handler[c].numbers \in Seq(Nat)
           /\ heap[w].numbers \in Seq(Nat) /\ worker[w].i \in Nat
  BY Typed DEF Handler, Store, Worker

\* What the others and the workers of other ids do does not matter.
LEMMA OwnFrame ==
    ASSUME Core, NEW c \in Clients, Own(c), UNCHANGED <<IdOf, RangeOf>>,
           handler'[c] = handler[c], client'[c] = client[c], received'[c] = received[c],
           asyncStores'[IdOf[c]] = asyncStores[IdOf[c]],
           Workers \subseteq Workers',
           \A w \in Workers : worker'[w].id = worker[w].id,
           \A w \in Workers' \ Workers : worker'[w].id # IdOf[c],
           \A w \in Workers : worker[w].id = IdOf[c] =>
               worker'[w].i = worker[w].i /\ heap'[w].numbers = heap[w].numbers,
           Up' => Up
    PROVE  Own(c)'
<1>1. CASE Fresh(c)
  BY <1>1 DEF Own, Fresh
<1>2. ASSUME NEW w \in Workers, Served(c, w) PROVE Own(c)'
  <2>1. Numbers(w, c)' = Numbers(w, c) /\ worker'[w].i = worker[w].i
    BY <1>2 DEF Served, Numbers
  <2>2. Served(c, w)'
    BY <1>2, <2>1 DEF Served, Prefix
  <2> QED BY <2>2 DEF Own
<1> QED
  BY <1>1, <1>2 DEF Own

\* The client itself: nothing but its place changes.
LEMMA FreshMoves ==
    ASSUME Core, NEW c \in Clients, Fresh(c),
           UNCHANGED <<IdOf, RangeOf, asyncStores, worker, received>>,
           handler'[c].numbers = <<>>, ~handler'[c].end,
           handler'[c].pc \in {"idle", "check", "create", "assign"},
           client'[c] \in {"poll", "wait", "error"},
           client'[c] = "error" => ~Up'
    PROVE  Own(c)'
  BY DEF Fresh, Own, Workers

LEMMA ServedMoves ==
    ASSUME Core, NEW c \in Clients, NEW w \in Workers, Served(c, w),
           UNCHANGED <<IdOf, RangeOf, worker>>,
           Numbers(w, c)' = Numbers(w, c),
           handler'[c].pc \notin {"create", "assign"},
           handler'[c].pc \in {"idle", "check", "reload", "read"} => handler'[c].numbers = <<>>,
           \/ asyncStores'[IdOf[c]] = w
           \/ asyncStores'[IdOf[c]] = None
              /\ (client'[c] = "done" \/ (handler'[c].pc = "reply" /\ handler'[c].end)),
           client'[c] = "error" => ~Up'
    PROVE  Own(c)'
<1>1. Served(c, w)' /\ w \in Workers'
  BY DEF Served, Workers, Prefix
<1> QED
  BY <1>1 DEF Own

LEMMA OwnClient ==
    ASSUME Core, NEW c \in Clients, Own(c), Keep(ClientStep(c)) PROVE Own(c)'
<1>1. UNCHANGED <<IdOf, RangeOf, asyncStores, heap, worker, received, crashed>>
  BY DEF Keep, ClientStep, Poll, Rest, PollFails, requests, server
<1>2. handler[c] \in Handler /\ handler \in [Clients -> Handler] /\ c \in DOMAIN client
  BY Typed
<1>3. CASE Poll(c)
  <2>1. Up /\ client[c] = "poll" /\ handler[c] = Idle
    BY <1>3 DEF Poll, Core, Resting
  <2>2. client'[c] = "wait" /\ handler'[c] = [handler[c] EXCEPT !.pc = "check"]
    BY <1>2, <1>3 DEF Poll
  <2>3. /\ handler'[c].pc = "check" /\ handler'[c].numbers = <<>> /\ ~handler'[c].end
        /\ handler[c].pc = "idle" /\ handler[c].numbers = <<>>
    BY <2>1, <2>2 DEF Idle
  <2>4. CASE Fresh(c)
    BY <1>1, <2>2, <2>3, <2>4, FreshMoves
  <2>5. ASSUME NEW w \in Workers, Served(c, w) PROVE Own(c)'
    <3>1. asyncStores[IdOf[c]] = w
      BY <2>1, <2>3, <2>5 DEF Served
    <3>2. Numbers(w, c)' = Numbers(w, c)
      BY <1>1, <2>3 DEF Numbers
    <3> QED BY <1>1, <2>2, <2>3, <2>5, <3>1, <3>2, ServedMoves
  <2> QED BY <2>4, <2>5 DEF Own
<1>4. CASE Rest(c)
  <2>1. client[c] = "rest" /\ client'[c] = "poll" /\ UNCHANGED handler
    BY <1>2, <1>4 DEF Rest
  <2>2. ~Fresh(c)
    BY <2>1 DEF Fresh
  <2>3. ASSUME NEW w \in Workers, Served(c, w) PROVE Own(c)'
    <3>1. Numbers(w, c)' = Numbers(w, c)
      BY <1>1, <2>1 DEF Numbers
    <3> QED BY <1>1, <2>1, <2>3, <3>1, ServedMoves DEF Served
  <2> QED BY <2>2, <2>3 DEF Own
<1>5. CASE PollFails(c)
  <2>1. /\ client[c] \in {"poll", "wait"} /\ client'[c] = "error" /\ ~Up /\ ~Up'
        /\ UNCHANGED handler
    BY <1>1, <1>2, <1>5 DEF PollFails, Up
  <2>2. CASE Fresh(c)
    BY <1>1, <2>1, <2>2, FreshMoves DEF Fresh
  <2>3. ASSUME NEW w \in Workers, Served(c, w) PROVE Own(c)'
    <3>1. Numbers(w, c)' = Numbers(w, c)
      BY <1>1, <2>1 DEF Numbers
    <3> QED BY <1>1, <2>1, <2>3, <3>1, ServedMoves DEF Served
  <2> QED BY <2>2, <2>3 DEF Own
<1> QED
  BY <1>3, <1>4, <1>5 DEF Keep, ClientStep

\* A handler at work serves a client that waits and has no error.
LEMMA OwnPc ==
    ASSUME Core, NEW c \in Clients, Own(c),
           \/ Keep(CheckStore(c)) \/ Keep(BeginAssign(c))
           \/ Keep(BeginDelete(c)) \/ Keep(EndDelete(c))
    PROVE  Own(c)'
<1>1. /\ Up /\ handler[c].pc # "idle"
      /\ UNCHANGED <<requests, heap, worker, client, received, crashed>>
  BY HandlerPcSteps
<1>2. client[c] = "wait" /\ UNCHANGED <<IdOf, RangeOf>>
  BY <1>1, Waits DEF requests
<1>3. handler[c] \in Handler /\ handler \in [Clients -> Handler]
  BY Typed
<1>4. ASSUME NEW pc, handler' = [handler EXCEPT ![c].pc = pc]
      PROVE  /\ handler'[c].pc = pc /\ handler'[c].end = handler[c].end
             /\ handler'[c].numbers = handler[c].numbers
             /\ \A w \in Workers : Numbers(w, c)' = Numbers(w, c)
  <2>1. handler'[c] = [handler[c] EXCEPT !.pc = pc]
    BY <1>3, <1>4
  <2>2. /\ handler'[c].pc = pc /\ handler'[c].end = handler[c].end
        /\ handler'[c].numbers = handler[c].numbers
    BY <1>3, <2>1 DEF Handler
  <2> QED BY <1>1, <2>2 DEF Numbers
<1>5. CASE Keep(CheckStore(c))
  <2>1. /\ handler[c].pc = "check" /\ UNCHANGED asyncStores
        /\ handler' = [handler EXCEPT ![c].pc =
                         IF asyncStores[IdOf[c]] = None THEN "create" ELSE "reload"]
    BY <1>5 DEF Keep, CheckStore, At, server
  <2>2. CASE Fresh(c)
    <3>1. handler' = [handler EXCEPT ![c].pc = "create"]
      BY <2>1, <2>2 DEF Fresh
    <3> QED BY <1>1, <1>2, <1>4, <2>1, <2>2, <3>1, FreshMoves DEF Fresh
  <2>3. ASSUME NEW w \in Workers, Served(c, w) PROVE Own(c)'
    <3>1. asyncStores[IdOf[c]] = w /\ handler[c].numbers = <<>>
      BY <1>2, <2>1, <2>3 DEF Served
    <3>2. handler' = [handler EXCEPT ![c].pc = "reload"]
      BY <2>1, <3>1, Typed
    <3>3. handler'[c].pc = "reload" /\ handler'[c].numbers = <<>> /\ Numbers(w, c)' = Numbers(w, c)
      BY <1>4, <3>1, <3>2
    <3> QED BY <1>1, <1>2, <2>1, <2>3, <3>1, <3>3, ServedMoves
  <2> QED BY <2>2, <2>3 DEF Own
<1>6. CASE Keep(BeginAssign(c))
  <2>1. /\ handler[c].pc = "create" /\ UNCHANGED asyncStores
        /\ handler' = [handler EXCEPT ![c].pc = "assign"]
    BY <1>6 DEF Keep, BeginAssign, At, server
  <2>2. Fresh(c)
    BY <2>1 DEF Own, Served
  <2> QED BY <1>1, <1>2, <1>4, <2>1, <2>2, FreshMoves DEF Fresh
<1>7. CASE Keep(BeginDelete(c))
  <2>1. /\ handler[c].pc = "remove" /\ UNCHANGED asyncStores
        /\ handler' = [handler EXCEPT ![c].pc = "delete"]
    BY <1>7 DEF Keep, BeginDelete, At, server
  <2>2. PICK w \in Workers : Served(c, w)
    BY <2>1 DEF Own, Fresh
  <2>3. asyncStores[IdOf[c]] = w
    BY <1>2, <2>1, <2>2 DEF Served
  <2>4. handler'[c].pc = "delete" /\ Numbers(w, c)' = Numbers(w, c)
    BY <1>4, <2>1
  <2> QED BY <1>1, <1>2, <2>1, <2>2, <2>3, <2>4, ServedMoves
<1>8. CASE Keep(EndDelete(c))
  <2>1. /\ handler[c].pc = "delete" /\ asyncStores' = [asyncStores EXCEPT ![IdOf[c]] = None]
        /\ handler' = [handler EXCEPT ![c].pc = "reply"]
    BY <1>8 DEF Keep, EndDelete, At
  <2>2. PICK w \in Workers : Served(c, w)
    BY <2>1 DEF Own, Fresh
  <2>3. handler[c].end
    BY <2>1 DEF Core, HandlerOK
  <2>4. handler'[c].pc = "reply" /\ handler'[c].end /\ Numbers(w, c)' = Numbers(w, c)
    BY <1>4, <2>1, <2>3
  <2>5. asyncStores'[IdOf[c]] = None
    BY <2>1, Typed
  <2> QED BY <1>1, <1>2, <2>2, <2>4, <2>5, ServedMoves
<1> QED
  BY <1>5, <1>6, <1>7, <1>8

LEMMA OwnAssign ==
    ASSUME Core, NEW c \in Clients, Own(c), Keep(EndAssign(c)) PROVE Own(c)'
<1>1. PICK k \in Nat : k = Len(worker) + 1
  BY Typed
<1>2. /\ Up /\ handler[c].pc = "assign" /\ UNCHANGED <<IdOf, RangeOf, client, received, crashed>>
      /\ handler' = [handler EXCEPT ![c].pc = "reload"]
  BY DEF Keep, EndAssign, At, requests
<1>3. Fresh(c)
  BY <1>2 DEF Own, Served
<1> DEFINE s == [current |-> 0, requested |-> RangeOf[c], numbers |-> <<>>]
           e == [pc |-> "loop", i |-> 0, n |-> RangeOf[c], id |-> IdOf[c], store |-> None]
<1>4. /\ heap' = Append(heap, s) /\ worker' = Append(worker, e)
      /\ asyncStores' = [asyncStores EXCEPT ![IdOf[c]] = k]
  BY <1>1, Typed DEF Keep, EndAssign
<1>5. s \in Store /\ s.numbers = <<>>
  BY Typed DEF Store
<1>6. e \in Worker /\ e.i = 0 /\ e.id = IdOf[c]
  BY Typed DEF Worker
<1> HIDE DEF s, e
<1>7. heap'[k] = s
  BY <1>1, <1>4, <1>5, Typed, Added
<1>8. /\ Len(worker') = k /\ worker'[k] = e
      /\ \A v \in Workers : worker'[v] = worker[v]
  <2>1. worker \in Seq(Worker) /\ Workers = 1..Len(worker)
    BY Typed
  <2> QED BY <1>1, <1>4, <1>6, <2>1, Added
<1>9. Workers' = Workers \union {k} /\ k \in Workers'
  <2>1. Len(worker) \in Nat /\ Workers = 1..Len(worker) /\ Workers' = 1..k
    BY <1>8, Typed DEF Workers
  <2> QED BY <1>1, <2>1
<1>10. handler'[c].pc = "reload" /\ handler'[c].numbers = <<>>
  <2>1. handler'[c] = [handler[c] EXCEPT !.pc = "reload"] /\ handler[c] \in Handler
    BY <1>2, Typed
  <2> QED BY <1>3, <2>1 DEF Handler, Fresh
<1>11. received'[c] \o handler'[c].numbers \o heap'[k].numbers = <<>>
  BY <1>2, <1>3, <1>5, <1>7, <1>10 DEF Fresh
<1>12. Served(c, k)'
  <2>1. \A v \in Workers' : worker'[v].id = IdOf'[c] => v = k
    BY <1>2, <1>3, <1>8, <1>9 DEF Fresh
  <2>2. asyncStores'[IdOf'[c]] = k
    BY <1>2, <1>4, Typed
  <2>3. [j \in 1..0 |-> j - 1] = <<>>
    OBVIOUS
  <2> QED BY <1>2, <1>6, <1>8, <1>10, <1>11, <2>1, <2>2, <2>3 DEF Served, Numbers, Prefix
<1>13. client'[c] # "error"
  BY <1>2, Waits
<1> QED
  BY <1>9, <1>12, <1>13 DEF Own

LEMMA OwnReload ==
    ASSUME Core, NEW c \in Clients, Own(c), Keep(Reload(c)) PROVE Own(c)'
<1>1. /\ Up /\ handler[c].pc = "reload"
      /\ UNCHANGED <<IdOf, RangeOf, asyncStores, heap, worker, received, crashed>>
  BY DEF Keep, Reload, At, server, requests
<1>2. client[c] = "wait"
  BY <1>1, Waits
<1>3. PICK w \in Workers : Served(c, w)
  BY <1>1 DEF Own, Fresh
<1>4. asyncStores[IdOf[c]] = w /\ w # None /\ handler[c].numbers = <<>>
  BY <1>1, <1>2, <1>3, Typed DEF Served
<1>5. handler' = [handler EXCEPT ![c].pc = "read", ![c].store = w] /\ UNCHANGED client
  BY <1>4 DEF Keep, Reload
<1>6. handler'[c].pc = "read" /\ handler'[c].numbers = handler[c].numbers
  <2>1. handler[c] \in Handler
    BY Typed
  <2>2. handler'[c] = [handler[c] EXCEPT !.pc = "read", !.store = w]
    BY <1>5, Typed
  <2> QED BY <2>1, <2>2 DEF Handler
<1>7. Numbers(w, c)' = Numbers(w, c)
  BY <1>1, <1>6 DEF Numbers
<1> QED
  BY <1>1, <1>2, <1>3, <1>4, <1>5, <1>6, <1>7, ServedMoves

LEMMA OwnRead ==
    ASSUME Core, NEW c \in Clients, Own(c), Keep(Read(c)) PROVE Own(c)'
<1>1. PICK s, h : ReadOf(c, s, h)
  BY ReadIs
<1>2. /\ s \in Workers /\ worker[s].id = IdOf[c]
      /\ client[c] = "wait" /\ handler[c].pc = "read"
      /\ UNCHANGED <<IdOf, RangeOf, asyncStores, worker, client, received, crashed>>
  BY <1>1 DEF ReadOf, requests
<1>3. Served(c, s)
  BY <1>2 DEF Own, Fresh, Served
<1>4. handler[c].numbers = <<>> /\ asyncStores[IdOf[c]] = s
  BY <1>2, <1>3 DEF Served
<1>5. /\ handler'[c].pc \in {"remove", "reply"}
      /\ handler'[c].numbers = heap[s].numbers /\ heap'[s].numbers = <<>>
  <2>1. /\ h \in Handler /\ handler' = [handler EXCEPT ![c] = h]
        /\ h.pc \in {"remove", "reply"} /\ h.numbers = heap[s].numbers
        /\ heap'[s] = [heap[s] EXCEPT !.numbers = <<>>]
    BY <1>1 DEF ReadOf
  <2>2. handler'[c] = h
    BY <2>1, Typed
  <2>3. heap[s] \in Store
    BY <1>2, Typed
  <2> QED BY <2>1, <2>2, <2>3 DEF Store
<1>6. Numbers(s, c)' = Numbers(s, c)
  BY <1>2, <1>4, <1>5, NumbersTyped, Moving DEF Numbers
<1> QED
  BY <1>2, <1>3, <1>4, <1>5, <1>6, ServedMoves

LEMMA OwnReply ==
    ASSUME Core, NEW c \in Clients, Own(c), Keep(Reply(c)) PROVE Own(c)'
<1>1. /\ Up /\ handler[c].pc = "reply" /\ handler' = [handler EXCEPT ![c] = Idle]
      /\ UNCHANGED <<IdOf, RangeOf, asyncStores, heap, worker, crashed>>
      /\ received' = [received EXCEPT ![c] = received[c] \o handler[c].numbers]
      /\ client' = [client EXCEPT ![c] = IF handler[c].end THEN "done" ELSE "rest"]
  BY DEF Keep, Reply, At, server, requests
<1>2. client[c] = "wait"
  BY <1>1, Waits
<1>3. PICK w \in Workers : Served(c, w)
  BY <1>1 DEF Own, Fresh
<1>4. /\ handler'[c].pc = "idle" /\ handler'[c].numbers = <<>>
      /\ received'[c] = received[c] \o handler[c].numbers
      /\ client'[c] = IF handler[c].end THEN "done" ELSE "rest"
  BY <1>1, Typed DEF Idle
<1>5. Numbers(w, c)' = Numbers(w, c)
  <2>1. /\ received[c] \in Seq(Nat) /\ handler[c].numbers \in Seq(Nat)
        /\ heap[w].numbers \in Seq(Nat) /\ 0 \in Nat
    BY NumbersTyped
  <2>2. received[c] \o handler[c].numbers \o heap[w].numbers
          = received[c] \o handler[c].numbers \o <<>> \o heap[w].numbers
    BY <2>1, Moving
  <2> QED BY <1>1, <1>4, <2>2 DEF Numbers
<1>6. \/ asyncStores'[IdOf[c]] = w
      \/ asyncStores'[IdOf[c]] = None /\ client'[c] = "done"
  BY <1>1, <1>2, <1>3, <1>4 DEF Served
<1> QED
  BY <1>1, <1>3, <1>4, <1>5, <1>6, ServedMoves

LEMMA OwnHandler ==
    ASSUME Core, NEW c \in Clients, Own(c), Keep(HandlerStep(c)) PROVE Own(c)'
<1>1. \/ Keep(CheckStore(c)) \/ Keep(BeginAssign(c)) \/ Keep(EndAssign(c))
      \/ Keep(Reload(c)) \/ Keep(Read(c)) \/ Keep(BeginDelete(c)) \/ Keep(EndDelete(c))
      \/ Keep(Reply(c))
  BY DEF Keep, HandlerStep
<1> QED
  BY <1>1, OwnPc, OwnAssign, OwnReload, OwnRead, OwnReply

\* A request touches nothing of one with another id.
LEMMA OwnOther ==
    ASSUME Core, NEW c \in Clients, OwnId(c), Own(c), NEW d \in Clients, d # c,
           Keep(ClientStep(d)) \/ Keep(HandlerStep(d))
    PROVE  Own(c)'
<1>1. IdOf[d] # IdOf[c] /\ UNCHANGED <<IdOf, RangeOf, crashed>> /\ (Up' => Up)
  BY DEF OwnId, Keep, requests, ClientStep, HandlerStep, Poll, Rest, PollFails, CheckStore,
     BeginAssign, EndAssign, Reload, Read, BeginDelete, EndDelete, Reply, server, Up
<1>2. handler'[c] = handler[c] /\ client'[c] = client[c]
  BY Typed DEF Keep, ClientStep, HandlerStep, Poll, Rest, PollFails, CheckStore,
     BeginAssign, EndAssign, Reload, Read, BeginDelete, EndDelete, Reply
<1>3. received'[c] = received[c] /\ asyncStores'[IdOf[c]] = asyncStores[IdOf[c]]
  BY <1>1, Typed DEF Keep, ClientStep, HandlerStep, Poll, Rest, PollFails, CheckStore,
     BeginAssign, EndAssign, Reload, Read, BeginDelete, EndDelete, Reply, server
<1>4. CASE Keep(EndAssign(d))
  <2>1. PICK k \in Nat : k = Len(worker) + 1
    BY Typed
  <2> DEFINE s == [current |-> 0, requested |-> RangeOf[d], numbers |-> <<>>]
             e == [pc |-> "loop", i |-> 0, n |-> RangeOf[d], id |-> IdOf[d], store |-> None]
  <2>2. heap' = Append(heap, s) /\ worker' = Append(worker, e)
    BY <1>4 DEF Keep, EndAssign
  <2>3. s \in Store
    BY Typed DEF Store
  <2>4. e \in Worker /\ e.id = IdOf[d]
    BY Typed DEF Worker
  <2> HIDE DEF s, e
  <2>5. \A v \in Workers : heap'[v] = heap[v]
    BY <2>2, <2>3, Typed, Added
  <2>6. /\ Len(worker') = k /\ worker'[k] = e
        /\ \A v \in Workers : worker'[v] = worker[v]
    <3>1. worker \in Seq(Worker) /\ Workers = 1..Len(worker)
      BY Typed
    <3> QED BY <2>1, <2>2, <2>4, <3>1, Added
  <2>7. Workers' = Workers \union {k}
    <3>1. Len(worker) \in Nat /\ Workers = 1..Len(worker) /\ Workers' = 1..k
      BY <2>6, Typed DEF Workers
    <3> QED BY <2>1, <3>1
  <2> QED BY <1>1, <1>2, <1>3, <2>4, <2>5, <2>6, <2>7, OwnFrame
<1>5. CASE Keep(Read(d))
  <2>1. PICK s, h : ReadOf(d, s, h)
    BY <1>5, ReadIs
  <2>2. /\ worker[s].id = IdOf[d] /\ UNCHANGED worker
        /\ \A v \in Workers : v # s => heap'[v] = heap[v]
    BY <2>1 DEF ReadOf
  <2>3. Workers' = Workers
    BY <2>2 DEF Workers
  <2> QED BY <1>1, <1>2, <1>3, <2>2, <2>3, OwnFrame
<1>6. CASE UNCHANGED <<heap, worker>>
  <2>1. Workers' = Workers
    BY <1>6 DEF Workers
  <2> QED BY <1>1, <1>2, <1>3, <1>6, <2>1, OwnFrame
<1> QED
  BY <1>4, <1>5, <1>6 DEF Keep, ClientStep, HandlerStep, Poll, Rest, PollFails, CheckStore,
     BeginAssign, Reload, BeginDelete, EndDelete, Reply, server

\* The place of a worker does not matter, only what it has written.
LEMMA OwnWorker ==
    ASSUME Core, NEW c \in Clients, OwnId(c), Own(c), NEW w \in Stores, Keep(WorkerStep(w))
    PROVE  Own(c)'
<1>1. PICK pc \in {"loop", "lookup", "write"} : Working(w, pc)
  BY DEF Keep, WorkerStep, WorkerLoop, WorkerLookup, WorkerWrite
<1>2. w \in Workers /\ worker[w] \in Worker /\ WorkerOK(w) /\ Up
  BY <1>1, IsWorker
<1>3. /\ UNCHANGED <<IdOf, RangeOf, asyncStores, handler, client, received>>
      /\ Up' => Up
  BY <1>2 DEF Keep, WorkerStep, WorkerLoop, WorkerLookup, WorkerWrite, requests
<1>4. CASE Keep(WorkerLoop(w)) \/ Keep(WorkerLookup(w))
  <2>1. UNCHANGED heap
    BY <1>4 DEF Keep, WorkerLoop, WorkerLookup
  <2>2. \E e \in Worker : worker' = [worker EXCEPT ![w] = e] /\ e.id = worker[w].id
                          /\ e.i = worker[w].i
    <3>1. CASE UNCHANGED worker
      BY <1>2, <3>1, Typed
    <3>2. ASSUME NEW pc1 \in {"lookup", "done"}, worker' = [worker EXCEPT ![w].pc = pc1]
          PROVE  \E e \in Worker : worker' = [worker EXCEPT ![w] = e] /\ e.id = worker[w].id
                          /\ e.i = worker[w].i
      <4>1. [worker[w] EXCEPT !.pc = pc1] \in Worker
        BY <1>2 DEF Worker
      <4>2. /\ [worker[w] EXCEPT !.pc = pc1].id = worker[w].id
            /\ [worker[w] EXCEPT !.pc = pc1].i = worker[w].i
        BY <1>2 DEF Worker
      <4> QED BY <3>2, <4>1, <4>2
    <3>3. ASSUME NEW s \in Nat \union {None},
                 worker' = [worker EXCEPT ![w].pc = "write", ![w].store = s]
          PROVE  \E e \in Worker : worker' = [worker EXCEPT ![w] = e] /\ e.id = worker[w].id
                          /\ e.i = worker[w].i
      <4>1. [worker[w] EXCEPT !.pc = "write", !.store = s] \in Worker
        BY <1>2 DEF Worker
      <4>2. /\ [worker[w] EXCEPT !.pc = "write", !.store = s].id = worker[w].id
            /\ [worker[w] EXCEPT !.pc = "write", !.store = s].i = worker[w].i
        BY <1>2 DEF Worker
      <4> QED BY <3>3, <4>1, <4>2
    <3>4. CASE Keep(WorkerLoop(w))
      BY <3>2, <3>4 DEF Keep, WorkerLoop
    <3>5. CASE Keep(WorkerLookup(w))
      <4>1. worker[w].id \in ReqIds
        BY <1>2 DEF Worker
      <4>2. asyncStores[worker[w].id] \in Nat \union {None}
        BY <4>1, Typed
      <4> QED BY <3>1, <3>3, <3>5, <4>2 DEF Keep, WorkerLookup
    <3> QED BY <1>4, <3>4, <3>5
  <2>3. /\ Len(worker') = Len(worker)
        /\ \A v \in Workers : worker'[v].id = worker[v].id /\ worker'[v].i = worker[v].i
    BY <1>2, <2>2, Typed, Put
  <2>4. Workers' = Workers
    BY <2>3 DEF Workers
  <2> QED BY <1>3, <2>1, <2>3, <2>4, OwnFrame
<1>5. CASE Keep(WorkerWrite(w))
  <2>1. PICK s \in Workers : s = worker[w].store /\ worker[s].id = worker[w].id
    BY <1>2, <1>5 DEF WorkerOK, Keep, WorkerWrite, Working
  <2>2. PICK i \in Nat : i = worker[w].i
    BY <1>2 DEF Worker
  <2>3. worker' = [worker EXCEPT ![w] =
                     [worker[w] EXCEPT !.pc = "loop", !.i = i + 1, !.store = None]]
    BY <1>5, <2>2 DEF Keep, WorkerWrite
  <2>4. heap' = [heap EXCEPT ![s] = Written(heap[s], i)]
    BY <1>5, <2>1, <2>2 DEF Keep, WorkerWrite
  <2>5. /\ \A v \in Workers : worker'[v].id = worker[v].id
        /\ \A v \in Workers : v # w => worker'[v].i = worker[v].i
        /\ worker'[w].i = i + 1
    BY <1>2, <2>3, Typed DEF Worker
  <2>6. Len(worker') = Len(worker) /\ UNCHANGED crashed
    BY <1>5, <2>3, Typed DEF Keep, WorkerWrite
  <2>7. Workers' = Workers
    BY <2>6 DEF Workers
  <2>8. \A v \in Workers : v # s => heap'[v] = heap[v]
    BY <2>4, Typed
  <2>9. heap'[s].numbers = Append(heap[s].numbers, i)
    <3>1. heap[s] \in Store /\ s \in DOMAIN heap
      BY Typed
    <3>2. heap'[s] = Written(heap[s], i)
      BY <2>4, <3>1
    <3> QED BY <3>1, <3>2 DEF Written, Store
  <2>10. CASE worker[w].id # IdOf[c]
    BY <1>3, <2>1, <2>5, <2>7, <2>8, <2>10, OwnFrame
  <2>11. CASE worker[w].id = IdOf[c]
    <3>1. Served(c, w) /\ s = w
      BY <1>2, <2>1, <2>11 DEF Own, Fresh, Served
    <3>2. Numbers(w, c)' = Append(Numbers(w, c), i)
      <4>1. /\ received[c] \in Seq(Nat) /\ handler[c].numbers \in Seq(Nat)
            /\ heap[w].numbers \in Seq(Nat)
        BY <1>2, NumbersTyped
      <4>2. PICK q \in Seq(Nat) : q = heap[w].numbers
        BY <4>1
      <4>3. (received[c] \o handler[c].numbers) \o Append(q, i)
              = Append((received[c] \o handler[c].numbers) \o q, i)
        BY <2>2, <4>1, <4>2, Moving
      <4> QED BY <1>3, <2>9, <3>1, <4>2, <4>3 DEF Numbers
    <3>3. Numbers(w, c)' = Prefix(i + 1)
      BY <2>2, <3>1, <3>2, PrefixGrows DEF Served
    <3>4. Served(c, w)'
      BY <1>3, <2>5, <2>7, <3>1, <3>3 DEF Served, Prefix
    <3> QED BY <1>2, <1>3, <2>7, <3>4 DEF Own
  <2> QED BY <2>10, <2>11
<1> QED
  BY <1>4, <1>5 DEF Keep, WorkerStep

LEMMA InitIInv == Init => IInv
<1> SUFFICES ASSUME Init PROVE IInv
  OBVIOUS
<1>1. Len(worker) = 0
  BY DEF Init
<1>2. ASSUME NEW c \in Clients PROVE Own(c)
  BY <1>1 DEF Init, Own, Fresh, Workers, Idle
<1> QED
  BY <1>2, InitCore DEF IInv

LEMMA NextIInv == IInv /\ [Next]_vars => IInv'
<1> SUFFICES ASSUME IInv, [Next]_vars PROVE IInv'
  OBVIOUS
<1>1. Core /\ Core'
  BY NextCore DEF IInv
<1>2. UNCHANGED requests
  BY DEF Next, Keep, vars
<1>3. ASSUME NEW c \in Clients, OwnId(c)' PROVE Own(c)'
  <2>1. OwnId(c) /\ Own(c)
    BY <1>2, <1>3 DEF IInv, OwnId, requests
  <2>2. CASE UNCHANGED <<requests, server, handler, client, received>> /\ (Up' => Up)
    <3>1. Workers' = Workers
      BY <2>2 DEF server, Workers
    <3> QED BY <1>1, <2>1, <2>2, <3>1, OwnFrame DEF server, requests
  <2>3. CASE UNCHANGED vars
    BY <2>2, <2>3 DEF vars, Up
  <2>4. CASE Keep(RaceDetected)
    BY <2>2, <2>4 DEF Keep, RaceDetected, Up
  <2>5. ASSUME NEW d \in Clients, Keep(ClientStep(d)) \/ Keep(HandlerStep(d)) PROVE Own(c)'
    BY <1>1, <2>1, <2>5, OwnClient, OwnHandler, OwnOther
  <2>6. ASSUME NEW w \in Stores, Keep(WorkerStep(w)) PROVE Own(c)'
    BY <1>1, <2>1, <2>6, OwnWorker
  <2> QED BY <2>3, <2>4, <2>5, <2>6 DEF Next
<1> QED
  BY <1>1, <1>3 DEF IInv

LEMMA Invariant == SafeSpec => []IInv
  BY InitIInv, NextIInv, PTL DEF SafeSpec

-------------------------------------------------------------------------------
(* Theorems. *)

\* Every variable keeps its type, and a handler at work serves a client that waits.
THEOREM TypeCorrect == SafeSpec => []TypeOK
<1>1. IInv => TypeOK
  <2> SUFFICES ASSUME IInv PROVE TypeOK
    OBVIOUS
  <2>1. Core /\ Types
    BY DEF IInv, Core
  <2>2. asyncStores \in [ReqIds -> Stores \union {None}]
    <3>1. Workers \subseteq Stores
      <4>1. Len(worker) \in Nat /\ Len(worker) <= MaxStores
        BY <2>1, Typed DEF Types
      <4> QED BY <4>1, ConstantsAssumption DEF ConstantsAssumption, Workers, Stores
    <3> QED BY <2>1, <3>1 DEF Types
  <2>3. \A w \in DOMAIN worker : worker[w].i <= worker[w].n
    BY <2>1, Typed DEF Core, WorkerOK
  <2> QED BY <2>1, <2>2, <2>3 DEF Core, Types, Resting, TypeOK
<1> QED
  BY <1>1, Invariant, PTL

\* A client with an id of its own gets every number once and in order, and all of them
\* before the end, whatever the other clients, the workers and races do.
THEOREM NumbersArriveOnce == SafeSpec => []NothingLostOrRepeated
<1>1. IInv => NothingLostOrRepeated
  <2> SUFFICES ASSUME IInv, NEW c \in Clients, OwnId(c)
               PROVE  /\ \A w \in DOMAIN worker :
                           worker[w].id = IdOf[c] => Numbers(w, c) = Prefix(worker[w].i)
                      /\ client[c] = "done" => received[c] = Prefix(RangeOf[c])
    BY DEF NothingLostOrRepeated
  <2>1. Core /\ Own(c)
    BY DEF IInv
  <2>2. DOMAIN worker = Workers
    BY <2>1, Typed
  <2>3. CASE Fresh(c)
    BY <2>2, <2>3 DEF Fresh
  <2>4. ASSUME NEW w \in Workers, Served(c, w), client[c] = "done"
        PROVE  received[c] = Prefix(RangeOf[c])
    <3>1. Agreed(IdOf[c])
      BY DEF OwnId, Agreed
    <3>2. RangeOf[c] = 0
      BY <2>1, <2>4, <3>1 DEF Core, EndsAtZero
    <3>3. worker[w].n = 0 /\ worker[w].i \in Nat /\ worker[w].i <= 0
      BY <2>1, <2>4, <3>1, <3>2, NumbersTyped DEF Core, WorkerOK, Agreed, Served
    <3>4. Numbers(w, c) = Prefix(0) /\ Prefix(0) = <<>>
      BY <2>4, <3>3 DEF Served, Prefix
    <3>5. /\ received[c] \in Seq(Nat) /\ handler[c].numbers \in Seq(Nat)
          /\ heap[w].numbers \in Seq(Nat)
      BY <2>1, NumbersTyped
    <3>6. received[c] \o handler[c].numbers \in Seq(Nat)
      BY <3>5, ConcatProperties
    <3>7. received[c] \o handler[c].numbers = <<>>
      <4>1. (received[c] \o handler[c].numbers) \o heap[w].numbers = <<>>
        BY <3>4 DEF Numbers
      <4>2. PICK q \in Seq(Nat) : q = received[c] \o handler[c].numbers
        BY <3>6
      <4>3. q \o heap[w].numbers = <<>>
        BY <4>1, <4>2
      <4>4. q = <<>>
        BY <3>5, <4>3, ConcatEqualIffEmpty
      <4> QED BY <4>2, <4>4
    <3>8. received[c] = <<>>
      BY <3>5, <3>7, ConcatEqualIffEmpty
    <3> QED BY <3>2, <3>4, <3>8
  <2>5. ASSUME NEW w \in Workers, Served(c, w)
        PROVE  \A v \in Workers : worker[v].id = IdOf[c] => Numbers(v, c) = Prefix(worker[v].i)
    BY <2>5 DEF Served
  <2> QED BY <2>1, <2>2, <2>3, <2>4, <2>5 DEF Own
<1> QED
  BY <1>1, Invariant, PTL

\* Its polls fail only with the whole server, and the server dies of a missing entry only
\* when two requests share an id and not a number.
THEOREM StoresAreNotTaken == SafeSpec => []StoresStay
<1>1. IInv => StoresStay
  BY DEF IInv, Core, Own, NilStoreHasCause, StoresStay
<1> QED
  BY <1>1, Invariant, PTL
===============================================================================
