------------------------------ MODULE BooksClients ------------------------------
(***************************************************************************)
(* The clients of books-app and the calls they make: the Go gRPC and REST  *)
(* clients and the two shell scripts under test/, each a fixed list of     *)
(* calls, against the Go servers over one database.  A call is in flight   *)
(* on its own: its statement may run after its caller has ended.           *)
(***************************************************************************)
EXTENDS BookProto

CONSTANTS Isbns, Names, Publishers, Reviews, NoBook, EmptyString,   \* see BookStore
          Clients,
          Crews,       \* the kinds that the clients of a behaviour may have
          MaxFaults    \* bound on failed statements, panics, stalls, kills and crashes

ASSUME ClientsAssumption ==
    MaxFaults \in Nat /\ Nil \notin Clients /\ 12345 .. 12348 \subseteq Isbns

Store == INSTANCE BookStore

VARIABLES
    db,       \* the tables
    up,       \* is a server process running
    client,   \* a client's kind, the place in its list of calls and its status
    call,     \* a client's call in flight
    faults,
    row,      \* history: who inserted the row of 12348, was it updated since
    seen,     \* history: row, when a client's ListBooks was served
    removed   \* history: the clients whose RemoveBook was carried out

vars == <<db, up, client, call, faults, row, seen, removed>>

-------------------------------------------------------------------------------
(* What the clients do. *)

Call(method, request) == [method |-> method, request |-> request]

Titled(name, publisher) == [isbn |-> 12348, name |-> name, publisher |-> publisher]

Isbn(i) == [isbn |-> i]

AtomicHabits == Titled("atomic habits", "random house business books")

\* Mutant: a run that removes the book first, so that it can be added.
GrpcClientRemovesFirst ==
    <<Call("RemoveBook", Isbn(12348)), Call("AddBook", AtomicHabits),
      Call("ListBooks", Empty), Call("GetBook", Isbn(12345)),
      Call("UpdateBook", [AtomicHabits EXCEPT !.name = "atomic habits vol-2"])>>

GrpcClient ==
    <<Call("AddBook", AtomicHabits),
      Call("ListBooks", Empty),
      Call("GetBook", Isbn(12345)),
      Call("UpdateBook", [AtomicHabits EXCEPT !.name = "atomic habits vol-2"]),
      Call("RemoveBook", Isbn(12348))>>

\* /books/all matches no route.
RestClient ==
    <<Call("AddBook", Titled("Sample Book", "Sample Publisher")),
      Call("UpdateBook", Titled("Sample Book Vol2", "Sample Publisher")),
      Call("NoRoute", Empty),
      Call("GetBook", Isbn(12345)),
      Call("RemoveBook", Isbn(12348))>>

Rated(reviewer, comment, rating) ==
    [isbn |-> 12347, reviewer |-> reviewer, comment |-> comment, rating |-> rating]

Grpcurl ==
    <<Call("ListBooks", Empty),
      Call("GetBook", Isbn(12345)),
      Call("AddBook", Titled("test name", "test publisher")),
      Call("UpdateBook", Titled("test name", "new publisher")),
      Call("RemoveBook", Isbn(12348)),
      Call("SubmitReviews", Rated("hitesh pattanayak", "good book", 5)),
      Call("SubmitReviews", Rated("another person", "great book", 4)),
      Call("GetBookReviews", Isbn(12347)),
      Call("GetBookInfoWithReviews", Isbn(12347))>>

\* The isbn of its books is a string, which does not decode into an int.
Curl ==
    <<Call("ListBooks", Empty),
      Call("GetBook", Isbn(12346)),
      Call("BadRequest", Empty),
      Call("BadRequest", Empty),
      Call("RemoveBook", Isbn(12348))>>

Script == [grpc |-> GrpcClient, rest |-> RestClient, grpcurl |-> Grpcurl, curl |-> Curl]

Kinds == DOMAIN Script

ASSUME CrewsAssumption == Crews \subseteq [Clients -> Kinds]

OverRest(c) == client[c].kind \in {"rest", "curl"}

IsShell(c) == client[c].kind \in {"grpcurl", "curl"}

Running(c) == client[c].status = "running"

Finished(c) == client[c].at > Len(Script[client[c].kind])

Current(c) == Script[client[c].kind][client[c].at]

Method(c) == Current(c).method

ServerOf(c) ==
    IF OverRest(c) THEN "rest"
    ELSE IF Method(c) \in DOMAIN BookService THEN "books"
    ELSE IF Method(c) \in DOMAIN ReviewService THEN "reviews"
    ELSE "info"

Servers == {"books", "rest", "reviews", "info"}

-------------------------------------------------------------------------------
(* The handlers: what a call does to the tables and what it answers.          *)

DBBook(req) == [name |-> req.name, publisher |-> req.publisher]

DBReview(req) == [reviewer |-> req.reviewer, comment |-> req.comment, rating |-> req.rating]

Effect(method, req, d) ==
    CASE method = "AddBook"       -> Store!AddBook(d, req.isbn, DBBook(req))
      [] method = "UpdateBook"    -> Store!UpdateBook(d, req.isbn, DBBook(req))
      [] method = "RemoveBook"    -> Store!RemoveBook(d, req.isbn)
      [] method = "SubmitReviews" -> Store!AddReview(d, req.isbn, DBReview(req))
      [] OTHER                    -> d

BookMessage(d, i) ==
    [isbn      |-> IF Store!Stored(d, i) THEN i ELSE 0,
     name      |-> Store!GetBook(d, i).name,
     publisher |-> Store!GetBook(d, i).publisher]

\* In the order of the isbns, as good as any: the list has no order of its own.
Listing(d, i) == IF Store!Stored(d, i) THEN <<BookMessage(d, i)>> ELSE <<>>

BookMessages(d) ==
    Listing(d, 12345) \o Listing(d, 12346) \o Listing(d, 12347) \o Listing(d, 12348)

Answer(method, req, d) ==
    CASE method = "GetBook"        -> BookMessage(d, req.isbn)
      [] method = "ListBooks"      -> [books |-> BookMessages(d)]
      [] method = "GetBookReviews" -> [reviews |-> Store!GetAllReviews(d, req.isbn)]
      [] OTHER                     -> [status |-> "done"]

\* A failed query leaves what it reads into empty, as tables without rows do.
NoRows == [books |-> [i \in Isbns |-> NoBook], reviews |-> [i \in Isbns |-> <<>>]]

\* How a handler ends: with an answer or an error, or by a panic.
Outcome(code, message) == [code |-> code, message |-> message, logged |-> "nothing"]

Panic == Outcome("panic", Nil)

Failed(method, req) ==
    IF method = "ListBooks" THEN Outcome("Unknown", Nil)
    ELSE Outcome("OK", Answer(method, req, NoRows))

\* The interceptors around a gRPC handler: the logger outside, the recovery inside.
Recovery(o) == IF o.code = "panic" THEN [o EXCEPT !.code = "Unknown"] ELSE o

Logging(o) == IF o.code = "panic" THEN o ELSE [o EXCEPT !.logged = o.code]

\* Mutant: the interceptors added in the other order.
InterceptorsSwapped(o) == Recovery(Logging(o))

Interceptors(o) == Logging(Recovery(o))

-------------------------------------------------------------------------------

Idle == [stage |-> "idle"]
Stalled == [stage |-> "stalled"]
Broken == [stage |-> "broken"]   \* the caller gets an error of the transport

Sent(body) == [stage |-> "sent", body |-> body]

Answered(o) == [stage |-> "answered", outcome |-> o]

Set(c, k) == call' = [call EXCEPT ![c] = k]

\* net/http aborts the connection of a handler that panics; no client reads more of
\* a body than to print it.
Finish(c, o) ==
    IF OverRest(c)
    THEN Set(c, IF o.code = "panic" THEN Broken ELSE Answered([o EXCEPT !.message = Nil]))
    ELSE \E i \in {Interceptors(o)} :
           Set(c, Answered(IF i.code # "OK" THEN i
                           ELSE [i EXCEPT !.message = Response(Method(c), @)]))

\* The isbn is 12348 in every call that adds, updates or removes a book.
NoRow == [by |-> Nil, updated |-> FALSE]

RecordRow(c) ==
    /\ row' = IF ~Store!Stored(db', 12348) THEN NoRow
              ELSE IF ~Store!Stored(db, 12348) THEN [by |-> c, updated |-> FALSE]
              ELSE [row EXCEPT !.updated = @ \/ db'.books[12348] # db.books[12348]]
    /\ removed' = IF Method(c) = "RemoveBook" THEN removed \union {c} ELSE removed
    /\ seen' = IF Method(c) = "ListBooks" /\ client[c].kind = "grpc"
               THEN [seen EXCEPT ![c] = row] ELSE seen

Seed(i) ==
    CASE i = 12345 -> [name |-> "da vinci code", publisher |-> "doubleday"]
      [] i = 12346 -> [name |-> "the best laid plans", publisher |-> "harper"]
      [] i = 12347 -> [name |-> "modern api design using grpc", publisher |-> "ava orange"]
      [] OTHER     -> NoBook

ASSUME ContentsAssumption ==
    /\ NoBook \notin Store!Book
    /\ \A i \in Isbns : Seed(i) \in Store!Book \union {NoBook}
    /\ \A k \in Kinds : \A n \in 1 .. Len(Script[k]) :
         /\ Script[k][n].method = "AddBook" => DBBook(Script[k][n].request) \in Store!Book
         /\ Script[k][n].method = "SubmitReviews" =>
              DBReview(Script[k][n].request) \in Reviews

Fault == faults < MaxFaults /\ faults' = faults + 1

Init ==
    /\ db = [NoRows EXCEPT !.books = [i \in Isbns |-> Seed(i)]]
    /\ up = [s \in Servers |-> TRUE]
    /\ \E kind \in Crews :
         client = [c \in Clients |->
             [kind |-> kind[c], at |-> 1, status |-> "off", verified |-> FALSE]]
    /\ call = [c \in Clients |-> Idle]
    /\ faults = 0
    /\ row = NoRow
    /\ seen = [c \in Clients |-> NoRow]
    /\ removed = {}

-------------------------------------------------------------------------------
(* The clients. *)

Status(c, s) == client' = [client EXCEPT ![c].status = s]

\* The programs read their configuration first; without it they end.
Start(c) ==
    /\ client[c].status = "off"
    /\ \/ Status(c, "running") /\ UNCHANGED faults
       \/ ~IsShell(c) /\ Fault /\ Status(c, "dead")
    /\ UNCHANGED <<db, up, call, row, seen, removed>>

\* Dial does not wait: a server that is down is found out by the first call.
Send(c) ==
    /\ Running(c) /\ ~Finished(c)
    /\ call[c] = Idle
    /\ Set(c, IF ~up[ServerOf(c)] THEN Broken
              ELSE IF OverRest(c) THEN Sent(Current(c).request)
              ELSE Sent(Request(Method(c), Current(c).request)))
    /\ UNCHANGED <<db, up, client, faults, row, seen, removed>>

\* A call that got no answer, or over gRPC an error.
IsError(c) ==
    \/ call[c].stage = "broken"
    \/ call[c].stage = "answered" /\ ~OverRest(c) /\ call[c].outcome.code # "OK"

Found(books) ==
    \E k \in DOMAIN books : books[k] = AtomicHabits

\* Every error ends a program; a script goes on with its next line.
Receive(c) ==
    /\ Running(c)
    /\ call[c].stage \in {"answered", "broken"}
    /\ IF IsError(c) /\ ~IsShell(c) THEN Status(c, "dead")
       ELSE client' = [client EXCEPT
                ![c].at = @ + 1,
                ![c].verified =
                    \/ @
                    \/ /\ client[c].kind = "grpc" /\ Method(c) = "ListBooks"
                       /\ Found(ReadResponse("ListBooks", call[c].outcome.message).books)]
    /\ Set(c, Idle)
    /\ UNCHANGED <<db, up, faults, row, seen, removed>>

\* The call of a client that ends may have reached the server, or never does.
Orphan(c) == UNCHANGED call \/ Set(c, Idle)

\* Mutant: a client without the timeout of one second.
TimeoutNever(c) ==
    /\ client[c].kind = "rest" /\ Running(c)
    /\ call[c].stage = "broken"
    /\ Orphan(c)
    /\ Status(c, "dead")
    /\ UNCHANGED <<db, up, faults, row, seen, removed>>

\* The REST client waits one second for an answer.
Timeout(c) ==
    /\ client[c].kind = "rest" /\ Running(c)
    /\ call[c] # Idle
    /\ Orphan(c)
    /\ Status(c, "dead")
    /\ UNCHANGED <<db, up, faults, row, seen, removed>>

Kill(c) ==
    /\ Fault
    /\ Running(c)
    /\ Orphan(c)
    /\ Status(c, "dead")
    /\ UNCHANGED <<db, up, row, seen, removed>>

-------------------------------------------------------------------------------
(* The servers. *)

Receiving(c) == call[c].stage = "sent" /\ up[ServerOf(c)]

Received(c) ==
    IF OverRest(c) THEN call[c].body ELSE ReadRequest(Method(c), call[c].body)

Execute(c) ==
    /\ Receiving(c) /\ ServerOf(c) # "info"
    /\ \E req \in {Received(c)} :
         /\ db' = Effect(Method(c), req, db)
         /\ Finish(c, Outcome("OK", Answer(Method(c), req, db)))
    /\ RecordRow(c)
    /\ UNCHANGED <<up, client, faults>>

HasStatement(c) == Method(c) \notin {"NoRoute", "BadRequest"}

\* The statement fails, which only ListBooks looks at, or the handler panics.
ExecuteFails(c) ==
    /\ Fault
    /\ Receiving(c) /\ ServerOf(c) # "info" /\ HasStatement(c)
    /\ Finish(c, Failed(Method(c), Received(c))) \/ Finish(c, Panic)
    /\ UNCHANGED <<db, up, client, row, seen, removed>>

\* The statement waits, for a lock or for a database that does not answer.
Stall(c) ==
    /\ Fault
    /\ Receiving(c) /\ HasStatement(c)
    /\ Set(c, Stalled)
    /\ UNCHANGED <<db, up, client, row, seen, removed>>

\* grpc-book-info-server asks the books server and then the review server; an
\* error of either is its answer.
Half(isbn, book) == [stage |-> "half", isbn |-> isbn, book |-> book]

Asked(method, isbn) ==
    ReadResponse(method, Response(method, Answer(method, Isbn(isbn), db)))

InfoGetBook(c) ==
    /\ Receiving(c) /\ ServerOf(c) = "info"
    /\ \E i \in {Received(c).isbn} :
         IF up["books"] THEN Set(c, Half(i, Asked("GetBook", i)))
         ELSE Finish(c, Outcome("Unavailable", Nil))
    /\ UNCHANGED <<db, up, client, faults, row, seen, removed>>

InfoGetReviews(c) ==
    /\ call[c].stage = "half" /\ up["info"]
    /\ \/ /\ up["reviews"]
          /\ \E reviews \in {Asked("GetBookReviews", call[c].isbn).reviews} :
               Finish(c, Outcome("OK",
                   [isbn |-> call[c].isbn, name |-> call[c].book.name,
                    publisher |-> call[c].book.publisher, reviews |-> reviews]))
       \/ /\ ~up["reviews"] \/ ~Running(c)   \* a caller that has gone cancels both calls
          /\ Finish(c, Outcome(IF Running(c) THEN "Unavailable" ELSE "Canceled", Nil))
    /\ UNCHANGED <<db, up, client, faults, row, seen, removed>>

\* A crash breaks the calls of the server; an answer may have left before.
AtServer(s) == {c \in Clients : call[c] # Idle /\ ServerOf(c) = s}

Crash(s) ==
    /\ Fault
    /\ up[s]
    /\ up' = [up EXCEPT ![s] = FALSE]
    /\ \E left \in SUBSET {c \in AtServer(s) : call[c].stage = "answered"} :
         call' = [c \in Clients |-> IF c \in AtServer(s) \ left THEN Broken ELSE call[c]]
    /\ UNCHANGED <<db, client, row, seen, removed>>

Restart(s) ==
    /\ ~up[s]
    /\ up' = [up EXCEPT ![s] = TRUE]
    /\ UNCHANGED <<db, client, call, faults, row, seen, removed>>

-------------------------------------------------------------------------------

ClientStep(c) == Start(c) \/ Send(c) \/ Receive(c) \/ Timeout(c)

Handle(c) == Execute(c) \/ InfoGetBook(c) \/ InfoGetReviews(c)

Next ==
    \/ \E c \in Clients :
         ClientStep(c) \/ Handle(c) \/ Kill(c) \/ ExecuteFails(c) \/ Stall(c)
    \/ \E s \in Servers : Crash(s) \/ Restart(s)

\* The programs run, and a server that is up handles what it gets.
Fairness == \A c \in Clients : WF_vars(ClientStep(c)) /\ WF_vars(Handle(c))

Spec == Init /\ [][Next]_vars /\ Fairness

-------------------------------------------------------------------------------
(* Properties. *)

\* The tables stay well formed, and a client that waits for an answer, or ended
\* while it did, is at a call of its list.
TypeOK ==
    /\ db \in Store!Tables
    /\ up \in [Servers -> BOOLEAN]
    /\ faults \in 0 .. MaxFaults
    /\ removed \subseteq Clients
    /\ \A c \in Clients :
         /\ client[c].kind \in Kinds /\ client[c].status \in {"off", "running", "dead"}
         /\ client[c].at \in 1 .. Len(Script[client[c].kind]) + 1
         /\ call[c] # Idle => ~Finished(c) /\ client[c].status # "off"

\* The "verified" of the gRPC client, which says that the book it sent was added:
\* it is printed exactly when the listed row was inserted by a gRPC client and not
\* updated since. The client need not be the one that inserted it: its own AddBook
\* is reported as a success when an earlier run, perhaps one that ended halfway,
\* left the row behind.
VerifiedMeansFreshRow ==
    \A c \in Clients :
        client[c].kind = "grpc" /\ client[c].at > 2 =>
            (client[c].verified <=>
                /\ seen[c].by # Nil /\ client[seen[c].by].kind = "grpc"
                /\ ~seen[c].updated)

\* The clients clean up: however their calls interleave, and however late the call
\* of a client that gave up is carried out, a row of 12348 that is stored was
\* inserted by a client whose own RemoveBook never was carried out. So when every
\* client finished its list and no statement failed there is no such row.
LeftoverIsUnfinished == Store!Stored(db, 12348) => row.by # Nil /\ row.by \notin removed

\* Every gRPC call that a server ends is logged with the code its caller gets, those
\* whose handler panicked and those whose caller has gone included.
EveryCallIsLogged ==
    \A c \in Clients :
        call[c].stage = "answered" /\ ~OverRest(c) =>
            call[c].outcome.logged = call[c].outcome.code

\* Every run ends, except that a client without a timeout waits as long as its
\* statement does: only the REST client has one.
EveryRunEnds ==
    \A c \in Clients :
        Running(c) ~> \/ Finished(c) \/ client[c].status = "dead"
                      \/ call[c] = Stalled /\ client[c].kind # "rest"
===============================================================================
