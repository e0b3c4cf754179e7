--------------------------- MODULE BooksClientsProofs ---------------------------
(***************************************************************************)
(* What the clients leave behind, what the servers log and what the gRPC   *)
(* client verifies, for any number of clients and faults.                  *)
(***************************************************************************)
EXTENDS BooksClients, WireProofs

Shape ==
    /\ client = [c \in Clients |-> client[c]]
    /\ call = [c \in Clients |-> call[c]]
    /\ \A c \in Clients :
         /\ client[c] = [kind |-> client[c].kind, at |-> client[c].at,
                         status |-> client[c].status, verified |-> client[c].verified]
         /\ client[c].kind \in Kinds /\ client[c].at \in Nat \ {0}

Body(c) ==
    IF OverRest(c) THEN Current(c).request ELSE Request(Method(c), Current(c).request)

\* A call in flight is the one its client is at.
InFlight(c) == call[c].stage = "sent" => ~Finished(c) /\ call[c].body = Body(c)

Logged(c) ==
    call[c].stage = "answered" /\ ~OverRest(c) =>
        call[c].outcome.logged = call[c].outcome.code

AreTables(d) ==
    /\ d = [books |-> d.books, reviews |-> d.reviews]
    /\ d.books = [i \in Isbns |-> d.books[i]]
    /\ d.reviews = [i \in Isbns |-> d.reviews[i]]

\* A client whose RemoveBook was carried out is at that call or past it: its AddBook
\* comes before. The book has no review that could keep its row.
Cleaned ==
    /\ AreTables(db)
    /\ db.reviews[12348] = <<>>
    /\ removed \subseteq Clients
    /\ \A c \in removed : client[c].at >= 5
    /\ Store!Stored(db, 12348) => row.by \in Clients \ removed

IInv == Shape /\ (\A c \in Clients : InFlight(c) /\ Logged(c)) /\ Cleaned

-------------------------------------------------------------------------------
(* The lists of calls. *)

\* What the n-th call of a list is when it changes the tables.
IsBook(r) == r = [isbn |-> 12348, name |-> r.name, publisher |-> r.publisher]

IsReview(r) ==
    r = [isbn |-> 12347, reviewer |-> r.reviewer, comment |-> r.comment, rating |-> r.rating]

Listed(e, n) ==
    /\ e.method = "AddBook" => n < 5 /\ IsBook(e.request)
    /\ e.method = "UpdateBook" => IsBook(e.request)
    /\ e.method = "RemoveBook" => n = 5 /\ e.request = [isbn |-> 12348]
    /\ e.method = "SubmitReviews" => IsReview(e.request)

LEMMA ListedBook ==
    ASSUME NEW n, NEW name, NEW publisher
    PROVE  Listed(Call("UpdateBook", Titled(name, publisher)), n)
BY DEF Listed, Call, Titled, IsBook

LEMMA ListedNewBook ==
    ASSUME NEW n \in {1, 3}, NEW name, NEW publisher
    PROVE  Listed(Call("AddBook", Titled(name, publisher)), n)
BY DEF Listed, Call, Titled, IsBook

LEMMA ListedNewName ==
    ASSUME NEW n, NEW r, IsBook(r), NEW new
    PROVE  Listed(Call("UpdateBook", [r EXCEPT !.name = new]), n)
<1> DEFINE s == [r EXCEPT !.name = new]
<1>1. s = [isbn |-> 12348, name |-> new, publisher |-> r.publisher]
    BY DEF IsBook
<1>2. IsBook(s)
    BY <1>1 DEF IsBook
<1> HIDE DEF s
<1>3. Listed(Call("UpdateBook", s), n)
    BY <1>2 DEF Listed, Call
<1> QED BY <1>3 DEF s

LEMMA ListedRemoval == Listed(Call("RemoveBook", Isbn(12348)), 5)
BY DEF Listed, Call, Isbn

LEMMA ListedReview ==
    ASSUME NEW n, NEW reviewer, NEW comment, NEW rating
    PROVE  Listed(Call("SubmitReviews", Rated(reviewer, comment, rating)), n)
BY DEF Listed, Call, Rated, IsReview

LEMMA ListedOther ==
    ASSUME NEW n, NEW request,
           NEW method \in {"GetBook", "ListBooks", "GetBookReviews", "NoRoute",
                           "BadRequest", "GetBookInfoWithReviews"}
    PROVE  Listed(Call(method, request), n)
BY DEF Listed, Call

LEMMA Lists ==
    ASSUME NEW k \in Kinds, NEW n \in Nat, n > 0, ~(n > Len(Script[k]))
    PROVE  Listed(Script[k][n], n)
<1>1. k \in {"grpc", "rest", "grpcurl", "curl"}
    BY DEF Kinds, Script
<1>2. CASE k = "grpc"
    <2>1. Script[k] = GrpcClient
        BY <1>2 DEF Script
    <2>2. Len(GrpcClient) = 5
        BY DEF GrpcClient
    <2>3. n \in {1, 2, 3, 4, 5}
        BY <2>1, <2>2
    <2>4. Listed(GrpcClient[1], 1)
        <3>1. GrpcClient[1] =
                  Call("AddBook", Titled("atomic habits", "random house business books"))
            BY DEF GrpcClient, AtomicHabits
        <3> QED BY <3>1, 1 \in {1, 3}, ListedNewBook
    <2>5. Listed(GrpcClient[2], 2)
        BY ListedOther DEF GrpcClient
    <2>6. Listed(GrpcClient[3], 3)
        BY ListedOther DEF GrpcClient
    <2>7. Listed(GrpcClient[4], 4)
        <3>1. GrpcClient[4] =
                  Call("UpdateBook",
                       [AtomicHabits EXCEPT !.name = "atomic habits vol-2"])
            BY DEF GrpcClient
        <3>2. IsBook(AtomicHabits)
            BY DEF IsBook, AtomicHabits, Titled
        <3> QED BY <3>1, <3>2, ListedNewName
    <2>8. Listed(GrpcClient[5], 5)
        BY ListedRemoval DEF GrpcClient
    <2> QED BY <2>1, <2>3, <2>4, <2>5, <2>6, <2>7, <2>8
<1>3. CASE k = "rest"
    <2>1. Script[k] = RestClient
        BY <1>3 DEF Script
    <2>2. Len(RestClient) = 5
        BY DEF RestClient
    <2>3. n \in {1, 2, 3, 4, 5}
        BY <2>1, <2>2
    <2>4. Listed(RestClient[1], 1)
        <3>1. RestClient[1] =
                  Call("AddBook", Titled("Sample Book", "Sample Publisher"))
            BY DEF RestClient
        <3> QED BY <3>1, 1 \in {1, 3}, ListedNewBook
    <2>5. Listed(RestClient[2], 2)
        <3>1. RestClient[2] =
                  Call("UpdateBook", Titled("Sample Book Vol2", "Sample Publisher"))
            BY DEF RestClient
        <3> QED BY <3>1, ListedBook
    <2>6. Listed(RestClient[3], 3)
        BY ListedOther DEF RestClient
    <2>7. Listed(RestClient[4], 4)
        BY ListedOther DEF RestClient
    <2>8. Listed(RestClient[5], 5)
        BY ListedRemoval DEF RestClient
    <2> QED BY <2>1, <2>3, <2>4, <2>5, <2>6, <2>7, <2>8
<1>4. CASE k = "grpcurl"
    <2>1. Script[k] = Grpcurl
        BY <1>4 DEF Script
    <2>2. Len(Grpcurl) = 9
        BY DEF Grpcurl
    <2>3. n \in {1, 2, 3, 4, 5, 6, 7, 8, 9}
        BY <2>1, <2>2
    <2>4. Listed(Grpcurl[1], 1)
        BY ListedOther DEF Grpcurl
    <2>5. Listed(Grpcurl[2], 2)
        BY ListedOther DEF Grpcurl
    <2>6. Listed(Grpcurl[3], 3)
        <3>1. Grpcurl[3] =
                  Call("AddBook", Titled("test name", "test publisher"))
            BY DEF Grpcurl
        <3> QED BY <3>1, 3 \in {1, 3}, ListedNewBook
    <2>7. Listed(Grpcurl[4], 4)
        <3>1. Grpcurl[4] =
                  Call("UpdateBook", Titled("test name", "new publisher"))
            BY DEF Grpcurl
        <3> QED BY <3>1, ListedBook
    <2>8. Listed(Grpcurl[5], 5)
        BY ListedRemoval DEF Grpcurl
    <2>9. Listed(Grpcurl[6], 6)
        <3>1. Grpcurl[6] =
                  Call("SubmitReviews", Rated("hitesh pattanayak", "good book", 5))
            BY DEF Grpcurl
        <3> QED BY <3>1, ListedReview
    <2>10. Listed(Grpcurl[7], 7)
        <3>1. Grpcurl[7] =
                  Call("SubmitReviews", Rated("another person", "great book", 4))
            BY DEF Grpcurl
        <3> QED BY <3>1, ListedReview
    <2>11. Listed(Grpcurl[8], 8)
        BY ListedOther DEF Grpcurl
    <2>12. Listed(Grpcurl[9], 9)
        BY ListedOther DEF Grpcurl
    <2> QED BY <2>1, <2>3, <2>4, <2>5, <2>6, <2>7, <2>8, <2>9, <2>10, <2>11, <2>12
<1>5. CASE k = "curl"
    <2>1. Script[k] = Curl
        BY <1>5 DEF Script
    <2>2. Len(Curl) = 5
        BY DEF Curl
    <2>3. n \in {1, 2, 3, 4, 5}
        BY <2>1, <2>2
    <2>4. Listed(Curl[1], 1)
        BY ListedOther DEF Curl
    <2>5. Listed(Curl[2], 2)
        BY ListedOther DEF Curl
    <2>6. Listed(Curl[3], 3)
        BY ListedOther DEF Curl
    <2>7. Listed(Curl[4], 4)
        BY ListedOther DEF Curl
    <2>8. Listed(Curl[5], 5)
        BY ListedRemoval DEF Curl
    <2> QED BY <2>1, <2>3, <2>4, <2>5, <2>6, <2>7, <2>8
<1> QED BY <1>1, <1>2, <1>3, <1>4, <1>5

-------------------------------------------------------------------------------
(* The calls that change the tables. *)

LEMMA BookArrives ==
    ASSUME NEW m \in {"AddBook", "UpdateBook"}, NEW r, IsBook(r)
    PROVE  ReadRequest(m, Request(m, r)) = r
<1>1. Types(m).in = Book
    BY DEF Types, BookService, Unary
<1>2. WellFormed(Book, r)
    BY DEF WellFormed, Distinct, Of, Fits, IsBook, Book, Int32, String, Field
<1> QED BY <1>1, <1>2, RoundTrip DEF ReadRequest, Request

LEMMA RemovalArrives ==
    ASSUME NEW r, r = [isbn |-> 12348]
    PROVE  ReadRequest("RemoveBook", Request("RemoveBook", r)) = r
<1>1. Types("RemoveBook").in = RemoveBookRequest
    BY DEF Types, BookService, Unary
<1>2. WellFormed(RemoveBookRequest, r)
    BY DEF WellFormed, Distinct, Of, Fits, RemoveBookRequest, Int32, Field
<1> QED BY <1>1, <1>2, RoundTrip DEF ReadRequest, Request

LEMMA ReviewArrives ==
    ASSUME NEW r, IsReview(r)
    PROVE  ReadRequest("SubmitReviews", Request("SubmitReviews", r)) = r
<1>1. Types("SubmitReviews").in = SubmitReviewRequest
    BY DEF Types, BookService, ReviewService, Unary
<1>2. WellFormed(SubmitReviewRequest, r)
    BY DEF WellFormed, Distinct, Of, Fits, IsReview, SubmitReviewRequest, Int32, String,
           Field
<1> QED BY <1>1, <1>2, RoundTrip DEF ReadRequest, Request

\* What a server reads is what the list has.
LEMMA Arrives ==
    ASSUME IInv, NEW c \in Clients, call[c].stage = "sent"
    PROVE  /\ Listed(Current(c), client[c].at)
           /\ Method(c) \in {"AddBook", "UpdateBook", "RemoveBook", "SubmitReviews"} =>
                  Received(c) = Current(c).request
<1>1. ~Finished(c) /\ call[c].body = Body(c)
    BY DEF IInv, InFlight
<1>2. Listed(Current(c), client[c].at)
    BY <1>1, Lists DEF IInv, Shape, Finished, Current
<1>3. ASSUME Method(c) \in {"AddBook", "UpdateBook", "RemoveBook", "SubmitReviews"}
      PROVE  Received(c) = Current(c).request
    <2>1. CASE OverRest(c)
        BY <1>1, <2>1 DEF Received, Body
    <2>2. CASE ~OverRest(c)
        <3>1. Received(c) = ReadRequest(Method(c), Request(Method(c), Current(c).request))
            BY <1>1, <2>2 DEF Received, Body
        <3>2. CASE Method(c) \in {"AddBook", "UpdateBook"}
            BY <1>2, <3>1, <3>2, BookArrives DEF Listed, Method
        <3>3. CASE Method(c) = "RemoveBook"
            BY <1>2, <3>1, <3>3, RemovalArrives DEF Listed, Method
        <3>4. CASE Method(c) = "SubmitReviews"
            BY <1>2, <3>1, <3>4, ReviewArrives DEF Listed, Method
        <3> QED BY <1>3, <3>2, <3>3, <3>4
    <2> QED BY <2>1, <2>2
<1> QED BY <1>2, <1>3

LEMMA StoreEffects ==
    ASSUME NEW d, AreTables(d), NEW b
    PROVE  /\ AreTables(Store!AddBook(d, 12348, b))
           /\ Store!AddBook(d, 12348, b).reviews = d.reviews
           /\ AreTables(Store!UpdateBook(d, 12348, b))
           /\ Store!UpdateBook(d, 12348, b).reviews = d.reviews
           /\ ~Store!Stored(d, 12348) => Store!UpdateBook(d, 12348, b) = d
           /\ AreTables(Store!RemoveBook(d, 12348))
           /\ Store!RemoveBook(d, 12348).reviews = d.reviews
           /\ d.reviews[12348] = <<>> => ~Store!Stored(Store!RemoveBook(d, 12348), 12348)
           /\ AreTables(Store!AddReview(d, 12347, b))
           /\ Store!AddReview(d, 12347, b).books = d.books
           /\ Store!AddReview(d, 12347, b).reviews[12348] = d.reviews[12348]
<1>1. 12348 \in Isbns /\ 12347 \in Isbns
    BY ClientsAssumption
<1>2. ASSUME NEW x
      PROVE  /\ AreTables([d EXCEPT !.books[12348] = x])
             /\ [d EXCEPT !.books[12348] = x].reviews = d.reviews
             /\ [d EXCEPT !.books[12348] = x].books[12348] = x
    BY <1>1 DEF AreTables
<1>3. ASSUME NEW x
      PROVE  /\ AreTables([d EXCEPT !.reviews[12347] = x])
             /\ [d EXCEPT !.reviews[12347] = x].books = d.books
             /\ [d EXCEPT !.reviews[12347] = x].reviews[12348] = d.reviews[12348]
    BY <1>1 DEF AreTables
<1>4. /\ AreTables(Store!AddBook(d, 12348, b))
      /\ Store!AddBook(d, 12348, b).reviews = d.reviews
    BY <1>2 DEF Store!AddBook
<1>5. /\ AreTables(Store!UpdateBook(d, 12348, b))
      /\ Store!UpdateBook(d, 12348, b).reviews = d.reviews
      /\ ~Store!Stored(d, 12348) => Store!UpdateBook(d, 12348, b) = d
    BY <1>2 DEF Store!UpdateBook
<1>6. /\ AreTables(Store!RemoveBook(d, 12348))
      /\ Store!RemoveBook(d, 12348).reviews = d.reviews
      /\ d.reviews[12348] = <<>> => ~Store!Stored(Store!RemoveBook(d, 12348), 12348)
    BY <1>2 DEF Store!RemoveBook, Store!Stored
<1>7. /\ AreTables(Store!AddReview(d, 12347, b))
      /\ Store!AddReview(d, 12347, b).books = d.books
      /\ Store!AddReview(d, 12347, b).reviews[12348] = d.reviews[12348]
    BY <1>3 DEF Store!AddReview
<1> QED BY <1>4, <1>5, <1>6, <1>7

\* The row of 12348 after a call was carried out.
LEMMA ExecuteCleans ==
    ASSUME IInv, NEW c \in Clients, Execute(c)
    PROVE  Cleaned'
<1>1. /\ call[c].stage = "sent" /\ UNCHANGED client
      /\ db' = Effect(Method(c), Received(c), db)
      /\ RecordRow(c)
    BY DEF Execute, Receiving
<1>2. Listed(Current(c), client[c].at) /\ Cleaned
    BY <1>1, Arrives DEF IInv
<1>3. /\ row' = IF ~Store!Stored(db', 12348) THEN NoRow
                ELSE IF ~Store!Stored(db, 12348) THEN [by |-> c, updated |-> FALSE]
                ELSE [row EXCEPT !.updated = @ \/ db'.books[12348] # db.books[12348]]
      /\ removed' = IF Method(c) = "RemoveBook" THEN removed \union {c} ELSE removed
    BY <1>1 DEF RecordRow
<1>4. Store!Stored(db, 12348) => row.by \in Clients \ removed
    BY <1>2 DEF Cleaned
<1>5. ASSUME Store!Stored(db', 12348), Store!Stored(db, 12348) PROVE row'.by = row.by
    BY <1>3, <1>5
<1>6. CASE Method(c) = "AddBook"
    <2>1. client[c].at < 5 /\ Received(c).isbn = 12348
        BY <1>1, <1>2, <1>6, Arrives DEF Listed, Method, IsBook
    <2>2. c \notin removed
        <3>1. client[c].at \in Nat
            BY DEF IInv, Shape
        <3>2. c \in removed => client[c].at >= 5
            BY <1>2 DEF Cleaned
        <3> QED BY <2>1, <3>1, <3>2
    <2>3. db' = Store!AddBook(db, 12348, DBBook(Received(c)))
        BY <1>1, <1>6, <2>1 DEF Effect
    <2>4. AreTables(db') /\ db'.reviews = db.reviews
        BY <1>2, <2>3, StoreEffects DEF Cleaned
    <2>5. Store!Stored(db', 12348) => row'.by \in Clients \ removed
        BY <1>3, <1>4, <1>5, <2>2
    <2>6. removed' = removed
        BY <1>3, <1>6
    <2> QED BY <1>1, <1>2, <2>4, <2>5, <2>6 DEF Cleaned
<1>7. CASE Method(c) = "UpdateBook"
    <2>1. Received(c).isbn = 12348
        BY <1>1, <1>2, <1>7, Arrives DEF Listed, Method, IsBook
    <2>2. db' = Store!UpdateBook(db, 12348, DBBook(Received(c)))
        BY <1>1, <1>7, <2>1 DEF Effect
    <2>3. /\ AreTables(db') /\ db'.reviews = db.reviews
          /\ ~Store!Stored(db, 12348) => db' = db
        BY <1>2, <2>2, StoreEffects DEF Cleaned
    <2>4. Store!Stored(db', 12348) => row'.by \in Clients \ removed
        BY <1>4, <1>5, <2>3
    <2>5. removed' = removed
        BY <1>3, <1>7
    <2> QED BY <1>1, <1>2, <2>3, <2>4, <2>5 DEF Cleaned
<1>8. CASE Method(c) = "RemoveBook"
    <2>1. client[c].at = 5 /\ Received(c).isbn = 12348
        BY <1>1, <1>2, <1>8, Arrives DEF Listed, Method
    <2>2. db' = Store!RemoveBook(db, 12348)
        BY <1>1, <1>8, <2>1 DEF Effect
    <2>3. /\ AreTables(db') /\ db'.reviews = db.reviews
          /\ ~Store!Stored(db', 12348)
        BY <1>2, <2>2, StoreEffects DEF Cleaned
    <2>4. removed' = removed \union {c}
        BY <1>3, <1>8
    <2> QED BY <1>1, <1>2, <2>1, <2>3, <2>4 DEF Cleaned
<1>9. CASE Method(c) = "SubmitReviews"
    <2>1. Received(c).isbn = 12347
        BY <1>1, <1>2, <1>9, Arrives DEF Listed, Method, IsReview
    <2>2. db' = Store!AddReview(db, 12347, DBReview(Received(c)))
        BY <1>1, <1>9, <2>1 DEF Effect
    <2>3. /\ AreTables(db') /\ db'.books = db.books
          /\ db'.reviews[12348] = db.reviews[12348]
        BY <1>2, <2>2, StoreEffects DEF Cleaned
    <2>4. Store!Stored(db', 12348) <=> Store!Stored(db, 12348)
        BY <2>3 DEF Store!Stored
    <2>5. removed' = removed
        BY <1>3, <1>9
    <2> QED BY <1>1, <1>2, <1>4, <1>5, <2>3, <2>4, <2>5 DEF Cleaned
<1>10. CASE Method(c) \notin {"AddBook", "UpdateBook", "RemoveBook", "SubmitReviews"}
    <2>1. db' = db /\ removed' = removed
        BY <1>1, <1>3, <1>10 DEF Effect
    <2> QED BY <1>1, <1>2, <1>4, <1>5, <2>1 DEF Cleaned
<1> QED BY <1>6, <1>7, <1>8, <1>9, <1>10

-------------------------------------------------------------------------------

LEMMA InitIInv == Init => IInv
<1> SUFFICES ASSUME Init PROVE IInv
    OBVIOUS
<1>1. PICK kind \in Crews : client = [c \in Clients |->
            [kind |-> kind[c], at |-> 1, status |-> "off", verified |-> FALSE]]
    BY DEF Init
<1>2. Shape
    <2>1. \A c \in Clients : kind[c] \in Kinds
        BY <1>1, CrewsAssumption
    <2>2. call = [c \in Clients |-> call[c]]
        BY DEF Init
    <2>3. client = [c \in Clients |-> client[c]]
        BY <1>1
    <2>4. ASSUME NEW c \in Clients
          PROVE  client[c] = [kind |-> kind[c], at |-> 1, status |-> "off",
                              verified |-> FALSE]
        BY <1>1
    <2> QED BY <2>1, <2>2, <2>3, <2>4 DEF Shape
<1>3. ASSUME NEW c \in Clients PROVE InFlight(c) /\ Logged(c)
    BY DEF Init, Idle, InFlight, Logged
<1>4. Cleaned
    <2>1. 12348 \in Isbns
        BY ClientsAssumption
    <2>2. /\ db.books = [i \in Isbns |-> Seed(i)] /\ db.reviews = [i \in Isbns |-> <<>>]
          /\ db = [books |-> db.books, reviews |-> db.reviews]
        BY DEF Init, NoRows
    <2>3. ~Store!Stored(db, 12348)
        <3>1. Seed(12348) = NoBook
            BY DEF Seed
        <3> QED BY <2>1, <2>2, <3>1 DEF Store!Stored
    <2> QED BY <2>1, <2>2, <2>3 DEF Init, Cleaned, AreTables
<1> QED BY <1>2, <1>3, <1>4 DEF IInv

\* A step after which the client is still at the same call, or has none in flight.
LEMMA CallStep ==
    ASSUME IInv, NEW c \in Clients, NEW k, Set(c, k) \/ (UNCHANGED call /\ k = call[c]),
           \A d \in Clients : client'[d].kind = client[d].kind,
           \A d \in Clients \ {c} : client'[d].at = client[d].at,
           client'[c].at = client[c].at \/ k.stage \notin {"sent", "answered"},
           Shape', Cleaned',
           k.stage = "sent" => k = call[c] \/ (~Finished(c) /\ k.body = Body(c)),
           k.stage = "answered" /\ ~OverRest(c) =>
               k = call[c] \/ k.outcome.logged = k.outcome.code
    PROVE  IInv'
<1>1. call'[c] = k /\ \A d \in Clients \ {c} : call'[d] = call[d]
    BY DEF Set, IInv, Shape
<1>2. ASSUME NEW d \in Clients, client'[d].at = client[d].at
      PROVE  /\ Finished(d)' <=> Finished(d)
             /\ Body(d)' = Body(d) /\ (OverRest(d)' <=> OverRest(d))
    BY <1>2 DEF Finished, Body, OverRest, Current, Method, Script, Request, Types
<1>3. ASSUME NEW d \in Clients PROVE InFlight(d)' /\ Logged(d)'
    <2>1. InFlight(d) /\ Logged(d) /\ (OverRest(d)' <=> OverRest(d))
        BY DEF IInv, OverRest
    <2>2. CASE d = c
        <3>1. InFlight(c)'
            BY <1>1, <1>2, <2>1, <2>2 DEF InFlight
        <3>2. Logged(c)'
            BY <1>1, <2>1, <2>2 DEF Logged
        <3> QED BY <2>2, <3>1, <3>2
    <2>3. CASE d # c
        BY <1>1, <1>2, <2>1, <2>3 DEF InFlight, Logged
    <2> QED BY <2>2, <2>3
<1> QED BY <1>3 DEF IInv

\* A step that leaves the tables and the clients alone.
LEMMA CallOnly ==
    ASSUME IInv, NEW c \in Clients, NEW k, Set(c, k), UNCHANGED <<client, db, row, removed>>,
           k.stage = "sent" => ~Finished(c) /\ k.body = Body(c),
           k.stage = "answered" /\ ~OverRest(c) => k.outcome.logged = k.outcome.code
    PROVE  IInv'
<1>1. Shape'
    BY DEF IInv, Shape, Set
<1>2. Cleaned'
    BY DEF IInv, Cleaned, AreTables, Store!Stored
<1> QED BY <1>1, <1>2, CallStep

\* The interceptors log what the caller gets.
LEMMA Finishes ==
    ASSUME NEW c \in Clients, NEW code, NEW message, Finish(c, Outcome(code, message))
    PROVE  \E k : /\ Set(c, k) /\ k.stage # "sent"
                  /\ k.stage = "answered" /\ ~OverRest(c) =>
                         k.outcome.logged = k.outcome.code
<1> DEFINE o == Outcome(code, message)
<1>1. CASE OverRest(c)
    <2>1. \E k \in {Broken, Answered([o EXCEPT !.message = Nil])} : Set(c, k)
        BY <1>1 DEF Finish
    <2> QED BY <1>1, <2>1 DEF Broken, Answered
<1>2. CASE ~OverRest(c)
    <2>1. PICK i \in {Interceptors(o)} :
            Set(c, Answered(IF i.code # "OK" THEN i
                            ELSE [i EXCEPT !.message = Response(Method(c), @)]))
        BY <1>2 DEF Finish
    <2>2. \E x, m : i = [code |-> x, message |-> m, logged |-> x]
        <3>1. o = [code |-> code, message |-> message, logged |-> "nothing"]
            BY DEF Outcome
        <3>2. CASE code = "panic"
            <4>1. Recovery(o) =
                      [code |-> "Unknown", message |-> message, logged |-> "nothing"]
                BY <3>1, <3>2 DEF Recovery
            <4>2. Logging(Recovery(o)) =
                      [code |-> "Unknown", message |-> message, logged |-> "Unknown"]
                BY <4>1 DEF Logging
            <4> QED BY <2>1, <4>2 DEF Interceptors
        <3>3. CASE code # "panic"
            <4>1. Recovery(o) = o
                BY <3>1, <3>3 DEF Recovery
            <4>2. Logging(o) = [code |-> code, message |-> message, logged |-> code]
                BY <3>1, <3>3 DEF Logging
            <4> QED BY <2>1, <4>1, <4>2 DEF Interceptors
        <3> QED BY <3>2, <3>3
    <2>3. ASSUME NEW r
          PROVE  [i EXCEPT !.message = r].logged = [i EXCEPT !.message = r].code
        BY <2>2
    <2> QED BY <2>1, <2>2, <2>3 DEF Answered
<1> QED BY <1>1, <1>2

LEMMA FinishOnly ==
    ASSUME IInv, NEW c \in Clients, NEW code, NEW message,
           Finish(c, Outcome(code, message)), UNCHANGED <<client, db, row, removed>>
    PROVE  IInv'
<1>1. PICK k : /\ Set(c, k) /\ k.stage # "sent"
               /\ k.stage = "answered" /\ ~OverRest(c) =>
                      k.outcome.logged = k.outcome.code
    BY Finishes
<1> QED BY <1>1, CallOnly

\* The status of a client changes, and its call is kept or lost.
LEMMA Leaves ==
    ASSUME IInv, NEW c \in Clients, NEW s, Status(c, s), Orphan(c),
           UNCHANGED <<db, row, removed>>
    PROVE  IInv'
<1>1. /\ client' = [d \in Clients |-> client'[d]]
      /\ \A d \in Clients \ {c} : client'[d] = client[d]
      /\ client'[c] = [client[c] EXCEPT !.status = s]
    BY DEF IInv, Shape, Status
<1>2. client'[c] = [kind |-> client[c].kind, at |-> client[c].at, status |-> s,
                   verified |-> client[c].verified]
    BY <1>1 DEF IInv, Shape
<1>3. Shape'
    <2>1. call' = [d \in Clients |-> call'[d]]
        BY DEF IInv, Shape, Orphan, Set
    <2> QED BY <1>1, <1>2, <2>1 DEF IInv, Shape
<1>4. Cleaned'
    BY <1>1, <1>2 DEF IInv, Cleaned, AreTables, Store!Stored
<1>5. /\ \A d \in Clients : client'[d].kind = client[d].kind
      /\ \A d \in Clients \ {c} : client'[d].at = client[d].at
      /\ client'[c].at = client[c].at
    BY <1>1, <1>2
<1>6. CASE UNCHANGED call
    BY <1>3, <1>4, <1>5, <1>6, CallStep
<1>7. CASE Set(c, Idle)
    BY <1>3, <1>4, <1>5, <1>7, CallStep DEF Idle
<1> QED BY <1>6, <1>7 DEF Orphan

LEMMA ReceiveIInv ==
    ASSUME IInv, NEW c \in Clients, Receive(c) PROVE IInv'
<1>1. Set(c, Idle) /\ UNCHANGED <<db, row, removed>>
    BY DEF Receive
<1>2. CASE IsError(c) /\ ~IsShell(c)
    <2>1. Status(c, "dead")
        BY <1>2 DEF Receive
    <2> QED BY <1>1, <2>1, Leaves DEF Orphan
<1>3. CASE ~(IsError(c) /\ ~IsShell(c))
    <2>1. \E v : client' = [client EXCEPT ![c].at = @ + 1, ![c].verified = v]
        BY <1>3 DEF Receive
    <2>2. PICK v : client' = [client EXCEPT ![c].at = @ + 1, ![c].verified = v]
        BY <2>1
    <2>3. /\ client' = [d \in Clients |-> client'[d]]
          /\ \A d \in Clients \ {c} : client'[d] = client[d]
          /\ client'[c] = [client[c] EXCEPT !.at = @ + 1, !.verified = v]
        BY <2>2 DEF IInv, Shape
    <2>4. client'[c] = [kind |-> client[c].kind, at |-> client[c].at + 1,
                       status |-> client[c].status, verified |-> v]
        BY <2>3 DEF IInv, Shape
    <2>5. client[c].at \in Nat \ {0} /\ client'[c].at = client[c].at + 1
        BY <2>4 DEF IInv, Shape
    <2>6. Shape'
        <3>1. call' = [d \in Clients |-> call'[d]]
            BY <1>1 DEF IInv, Shape, Set
        <3>2. client'[c].kind = client[c].kind /\ client'[c].kind \in Kinds
            BY <2>4 DEF IInv, Shape
        <3>3. client'[c].at \in Nat \ {0}
            BY <2>5
        <3>4. client'[c] = [kind |-> client'[c].kind, at |-> client'[c].at,
                           status |-> client'[c].status, verified |-> client'[c].verified]
            BY <2>4
        <3> QED BY <2>3, <3>1, <3>2, <3>3, <3>4 DEF IInv, Shape
    <2>7. Cleaned'
        <3>1. ASSUME NEW d \in removed PROVE client'[d].at >= 5
            <4>1. client[d].at >= 5 /\ d \in Clients
                BY DEF IInv, Cleaned
            <4>2. CASE d = c
                BY <2>5, <4>1, <4>2
            <4>3. CASE d # c
                BY <2>3, <4>1, <4>3
            <4> QED BY <4>2, <4>3
        <3> QED BY <1>1, <3>1 DEF IInv, Cleaned, AreTables, Store!Stored
    <2>8. \A d \in Clients : client'[d].kind = client[d].kind
        BY <2>3, <2>4
    <2> QED BY <1>1, <2>3, <2>6, <2>7, <2>8, CallStep DEF Idle
<1> QED BY <1>2, <1>3

LEMMA CrashIInv ==
    ASSUME IInv, NEW s \in Servers, Crash(s) PROVE IInv'
<1>1. /\ UNCHANGED <<client, db, row, removed>>
      /\ call' = [c \in Clients |-> call'[c]]
      /\ \A c \in Clients : call'[c] \in {call[c], Broken}
    BY DEF Crash
<1>2. Shape'
    BY <1>1 DEF IInv, Shape
<1>3. Cleaned'
    BY <1>1 DEF IInv, Cleaned, AreTables, Store!Stored
<1>4. ASSUME NEW c \in Clients PROVE InFlight(c)' /\ Logged(c)'
    <2>1. InFlight(c) /\ Logged(c)
        BY DEF IInv
    <2>2. /\ Finished(c)' <=> Finished(c)
          /\ Body(c)' = Body(c) /\ (OverRest(c)' <=> OverRest(c))
        BY <1>1 DEF Finished, Body, OverRest, Current, Method, Script, Request, Types
    <2>3. CASE call'[c] = call[c]
        BY <2>1, <2>2, <2>3 DEF InFlight, Logged
    <2>4. CASE call'[c] = Broken
        BY <2>4 DEF InFlight, Logged, Broken
    <2> QED BY <1>1, <2>3, <2>4
<1> QED BY <1>2, <1>3, <1>4 DEF IInv

LEMMA Still ==
    ASSUME IInv, UNCHANGED <<client, call, db, row, removed>> PROVE IInv'
<1>1. Shape' /\ Cleaned'
    <2>1. Shape'
        BY DEF IInv, Shape
    <2>2. Cleaned'
        BY DEF IInv, Cleaned, AreTables, Store!Stored
    <2> QED BY <2>1, <2>2
<1>2. ASSUME NEW c \in Clients PROVE InFlight(c)' /\ Logged(c)'
    BY DEF IInv, InFlight, Logged, Finished, Body, OverRest, Current, Method, Script,
           Request, Types
<1> QED BY <1>1, <1>2 DEF IInv

LEMMA ExecuteIInv ==
    ASSUME IInv, NEW c \in Clients, Execute(c) PROVE IInv'
<1>1. UNCHANGED client
    BY DEF Execute
<1>2. PICK k : /\ Set(c, k) /\ k.stage # "sent"
               /\ k.stage = "answered" /\ ~OverRest(c) =>
                      k.outcome.logged = k.outcome.code
    BY Finishes DEF Execute
<1>3. Shape'
    BY <1>1, <1>2 DEF IInv, Shape, Set
<1> QED BY <1>1, <1>2, <1>3, ExecuteCleans, CallStep

LEMMA SendIInv ==
    ASSUME IInv, NEW c \in Clients, Send(c) PROVE IInv'
<1>1. ~Finished(c) /\ UNCHANGED <<client, db, row, removed>>
    BY DEF Send
<1>2. CASE ~up[ServerOf(c)]
    BY <1>1, <1>2, CallOnly DEF Send, Broken
<1>3. CASE up[ServerOf(c)]
    <2>1. Set(c, Sent(Body(c)))
        BY <1>3 DEF Send, Body
    <2> QED BY <1>1, <2>1, CallOnly DEF Sent
<1> QED BY <1>2, <1>3

LEMMA NextIInv == IInv /\ [Next]_vars => IInv'
<1> SUFFICES ASSUME IInv, [Next]_vars PROVE IInv'
    OBVIOUS
<1>1. ASSUME NEW c \in Clients, ClientStep(c) PROVE IInv'
    <2>1. CASE Start(c)
        BY <2>1, Leaves DEF Start, Orphan
    <2>2. CASE Send(c)
        BY <2>2, SendIInv
    <2>3. CASE Receive(c)
        BY <2>3, ReceiveIInv
    <2>4. CASE Timeout(c)
        BY <2>4, Leaves DEF Timeout
    <2> QED BY <1>1, <2>1, <2>2, <2>3, <2>4 DEF ClientStep
<1>2. ASSUME NEW c \in Clients, Handle(c) PROVE IInv'
    <2>1. CASE Execute(c)
        BY <2>1, ExecuteIInv
    <2>2. CASE InfoGetBook(c)
        <3>1. PICK i \in {Received(c).isbn} :
                IF up["books"] THEN Set(c, Half(i, Asked("GetBook", i)))
                ELSE Finish(c, Outcome("Unavailable", Nil))
            BY <2>2 DEF InfoGetBook
        <3>2. UNCHANGED <<client, db, row, removed>>
            BY <2>2 DEF InfoGetBook
        <3>3. CASE up["books"]
            <4>1. Half(i, Asked("GetBook", i)).stage = "half"
                BY DEF Half
            <4> QED BY <3>1, <3>2, <3>3, <4>1, CallOnly
        <3>4. CASE ~up["books"]
            BY <3>1, <3>2, <3>4, FinishOnly
        <3> QED BY <3>3, <3>4
    <2>3. CASE InfoGetReviews(c)
        <3>1. \E code, message : Finish(c, Outcome(code, message))
            BY <2>3 DEF InfoGetReviews
        <3>2. UNCHANGED <<client, db, row, removed>>
            BY <2>3 DEF InfoGetReviews
        <3> QED BY <3>1, <3>2, FinishOnly
    <2> QED BY <1>2, <2>1, <2>2, <2>3 DEF Handle
<1>3. ASSUME NEW c \in Clients, Kill(c) PROVE IInv'
    BY <1>3, Leaves DEF Kill
<1>4. ASSUME NEW c \in Clients, ExecuteFails(c) PROVE IInv'
    <2>1. \E code, message : Finish(c, Outcome(code, message))
        <3>1. \E code, message : Failed(Method(c), Received(c)) = Outcome(code, message)
            BY DEF Failed
        <3> QED BY <1>4, <3>1 DEF ExecuteFails, Panic
    <2>2. UNCHANGED <<client, db, row, removed>>
        BY <1>4 DEF ExecuteFails
    <2> QED BY <2>1, <2>2, FinishOnly
<1>5. ASSUME NEW c \in Clients, Stall(c) PROVE IInv'
    BY <1>5, CallOnly DEF Stall, Stalled
<1>6. ASSUME NEW s \in Servers, Crash(s) PROVE IInv'
    BY <1>6, CrashIInv
<1>7. ASSUME NEW s \in Servers, Restart(s) PROVE IInv'
    BY <1>7, Still DEF Restart
<1>8. CASE UNCHANGED vars
    BY <1>8, Still DEF vars
<1> QED BY <1>1, <1>2, <1>3, <1>4, <1>5, <1>6, <1>7, <1>8 DEF Next

-------------------------------------------------------------------------------

\* Every gRPC call that a server ends is logged with the code its caller gets: the
\* recovery interceptor runs inside the logging one.
THEOREM EveryCallLogged == Spec => []EveryCallIsLogged
<1>1. IInv => EveryCallIsLogged
    BY DEF IInv, Logged, EveryCallIsLogged
<1> QED BY InitIInv, NextIInv, <1>1, PTL DEF Spec

\* Whatever the interleaving, and however late a call is carried out, a row of 12348
\* that is left behind is that of a client whose RemoveBook never was.
THEOREM ClientsCleanUp == Spec => []LeftoverIsUnfinished
<1>1. IInv => LeftoverIsUnfinished
    <2> SUFFICES ASSUME IInv, Store!Stored(db, 12348)
                 PROVE  row.by # Nil /\ row.by \notin removed
        BY DEF LeftoverIsUnfinished
    <2>1. row.by \in Clients \ removed
        BY DEF IInv, Cleaned
    <2> QED BY <2>1, ClientsAssumption
<1> QED BY InitIInv, NextIInv, <1>1, PTL DEF Spec


-------------------------------------------------------------------------------
(* What the gRPC client verifies, and the types.                              *)

\* The row is the book that the gRPC client adds: nobody else adds it, and an update
\* of any book changes its name for good.
Fresh(r) == r.by # Nil /\ client[r.by].kind = "grpc" /\ ~r.updated

IsRow(r) ==
    /\ r = [by |-> r.by, updated |-> r.updated]
    /\ r.by \in Clients \union {Nil} /\ r.updated \in BOOLEAN

HoldsAtomicHabits(d) == Store!Stored(d, 12348) /\ d.books[12348] = DBBook(AtomicHabits)

\* A call in flight is at its client's place in the list.
Placed(c) ==
    /\ client[c].status \in {"off", "running", "dead"}
    /\ client[c].at \in 1 .. Len(Script[client[c].kind]) + 1
    /\ call[c] # Idle => ~Finished(c) /\ client[c].status # "off"
    /\ call[c].stage = "half" => ServerOf(c) = "info"

GotAnswer(c) == call[c].stage = "answered" /\ call[c].outcome.code = "OK"

FoundIn(message) == Found(ReadResponse("ListBooks", message).books)

\* What the client finds is decided when its ListBooks is carried out.
Verifies(c) ==
    client[c].kind = "grpc" =>
        /\ client[c].verified \in BOOLEAN
        /\ client[c].at <= 2 => ~client[c].verified
        /\ client[c].at > 2 => (client[c].verified <=> Fresh(seen[c]))
        /\ client[c].at = 2 /\ GotAnswer(c) =>
             (FoundIn(call[c].outcome.message) <=> Fresh(seen[c]))

Rows ==
    /\ IsRow(row) /\ (Fresh(row) <=> HoldsAtomicHabits(db))
    /\ seen = [c \in Clients |-> seen[c]] /\ \A c \in Clients : IsRow(seen[c])

ShownInv ==
    /\ db \in Store!Tables
    /\ up \in [Servers -> BOOLEAN] /\ faults \in 0 .. MaxFaults
    /\ Rows
    /\ \A c \in Clients : Placed(c) /\ Verifies(c)
-------------------------------------------------------------------------------

LEMMA CallFields ==
    ASSUME NEW e, NEW m, NEW r, e = Call(m, r) PROVE e.method = m /\ e.request = r
    BY DEF Call

LEMMA GrpcMethods ==
    /\ Script["grpc"] = GrpcClient /\ Len(GrpcClient) = 5
    /\ GrpcClient[1].method = "AddBook" /\ GrpcClient[2].method = "ListBooks"
    /\ GrpcClient[3].method = "GetBook" /\ GrpcClient[4].method = "UpdateBook"
    /\ GrpcClient[5].method = "RemoveBook"
<1>1. Script["grpc"] = GrpcClient
    BY DEF Script
<1>2. Len(GrpcClient) = 5
    BY DEF GrpcClient
<1>3. \E r : GrpcClient[1] = Call("AddBook", r)
    <2>1. GrpcClient[1] = Call("AddBook", AtomicHabits)
        BY DEF GrpcClient
    <2> QED BY <2>1, Zenon
<1>4. \E r : GrpcClient[2] = Call("ListBooks", r)
    BY DEF GrpcClient
<1>5. \E r : GrpcClient[3] = Call("GetBook", r)
    BY DEF GrpcClient
<1>6. \E r : GrpcClient[4] = Call("UpdateBook", r)
    <2>1. GrpcClient[4] =
              Call("UpdateBook", [AtomicHabits EXCEPT !.name = "atomic habits vol-2"])
        BY DEF GrpcClient
    <2> QED BY <2>1, Zenon
<1>7. \E r : GrpcClient[5] = Call("RemoveBook", r)
    BY DEF GrpcClient
<1> QED BY <1>1, <1>2, <1>3, <1>4, <1>5, <1>6, <1>7, CallFields

LEMMA RestMethods ==
    /\ Script["rest"] = RestClient /\ Len(RestClient) = 5
    /\ RestClient[1].method = "AddBook" /\ RestClient[2].method = "UpdateBook"
    /\ RestClient[3].method = "NoRoute" /\ RestClient[4].method = "GetBook"
    /\ RestClient[5].method = "RemoveBook"
<1>1. Script["rest"] = RestClient
    BY DEF Script
<1>2. Len(RestClient) = 5
    BY DEF RestClient
<1>3. \E r : RestClient[1] = Call("AddBook", r)
    <2>1. RestClient[1] = Call("AddBook", Titled("Sample Book", "Sample Publisher"))
        BY DEF RestClient
    <2> QED BY <2>1, Zenon
<1>4. \E r : RestClient[2] = Call("UpdateBook", r)
    <2>1. RestClient[2] = Call("UpdateBook", Titled("Sample Book Vol2", "Sample Publisher"))
        BY DEF RestClient
    <2> QED BY <2>1, Zenon
<1>5. \E r : RestClient[3] = Call("NoRoute", r)
    BY DEF RestClient
<1>6. \E r : RestClient[4] = Call("GetBook", r)
    BY DEF RestClient
<1>7. \E r : RestClient[5] = Call("RemoveBook", r)
    BY DEF RestClient
<1> QED BY <1>1, <1>2, <1>3, <1>4, <1>5, <1>6, <1>7, CallFields

LEMMA GrpcurlMethods ==
    /\ Script["grpcurl"] = Grpcurl /\ Len(Grpcurl) = 9
    /\ Grpcurl[1].method = "ListBooks" /\ Grpcurl[2].method = "GetBook"
    /\ Grpcurl[3].method = "AddBook" /\ Grpcurl[4].method = "UpdateBook"
    /\ Grpcurl[5].method = "RemoveBook" /\ Grpcurl[6].method = "SubmitReviews"
    /\ Grpcurl[7].method = "SubmitReviews" /\ Grpcurl[8].method = "GetBookReviews"
    /\ Grpcurl[9].method = "GetBookInfoWithReviews"
<1>1. Script["grpcurl"] = Grpcurl
    BY DEF Script
<1>2. Len(Grpcurl) = 9
    BY DEF Grpcurl
<1>3. \E r : Grpcurl[1] = Call("ListBooks", r)
    BY DEF Grpcurl
<1>4. \E r : Grpcurl[2] = Call("GetBook", r)
    BY DEF Grpcurl
<1>5. Grpcurl[3] = Call("AddBook", Titled("test name", "test publisher"))
    BY DEF Grpcurl
<1>6. Grpcurl[4] = Call("UpdateBook", Titled("test name", "new publisher"))
    BY DEF Grpcurl
<1>7. \E r : Grpcurl[5] = Call("RemoveBook", r)
    BY DEF Grpcurl
<1>8. Grpcurl[6] = Call("SubmitReviews", Rated("hitesh pattanayak", "good book", 5))
    BY DEF Grpcurl
<1>9. Grpcurl[7] = Call("SubmitReviews", Rated("another person", "great book", 4))
    BY DEF Grpcurl
<1>10. \E r : Grpcurl[8] = Call("GetBookReviews", r)
    BY DEF Grpcurl
<1>11. \E r : Grpcurl[9] = Call("GetBookInfoWithReviews", r)
    BY DEF Grpcurl
<1>12. \E r : Grpcurl[3] = Call("AddBook", r)
    BY <1>5, Zenon
<1>13. \E r : Grpcurl[4] = Call("UpdateBook", r)
    BY <1>6, Zenon
<1>14. \E r : Grpcurl[6] = Call("SubmitReviews", r)
    BY <1>8, Zenon
<1>15. \E r : Grpcurl[7] = Call("SubmitReviews", r)
    BY <1>9, Zenon
<1> QED BY <1>1, <1>2, <1>3, <1>4, <1>7, <1>10, <1>11, <1>12, <1>13, <1>14, <1>15, CallFields

LEMMA CurlMethods ==
    /\ Script["curl"] = Curl /\ Len(Curl) = 5
    /\ Curl[1].method = "ListBooks" /\ Curl[2].method = "GetBook"
    /\ Curl[3].method = "BadRequest" /\ Curl[4].method = "BadRequest"
    /\ Curl[5].method = "RemoveBook"
<1>1. Script["curl"] = Curl
    BY DEF Script
<1>2. Len(Curl) = 5
    BY DEF Curl
<1>3. \E r : Curl[1] = Call("ListBooks", r)
    BY DEF Curl
<1>4. \E r : Curl[2] = Call("GetBook", r)
    BY DEF Curl
<1>5. \E r : Curl[3] = Call("BadRequest", r)
    BY DEF Curl
<1>6. \E r : Curl[4] = Call("BadRequest", r)
    BY DEF Curl
<1>7. \E r : Curl[5] = Call("RemoveBook", r)
    BY DEF Curl
<1> QED BY <1>1, <1>2, <1>3, <1>4, <1>5, <1>6, <1>7, CallFields

LEMMA AddedRequests ==
    /\ GrpcClient[1].request = AtomicHabits
    /\ DBBook(RestClient[1].request) =
           [name |-> "Sample Book", publisher |-> "Sample Publisher"]
    /\ DBBook(Grpcurl[3].request) = [name |-> "test name", publisher |-> "test publisher"]
<1>1. GrpcClient[1] = Call("AddBook", AtomicHabits)
    BY DEF GrpcClient
<1>2. RestClient[1] = Call("AddBook", Titled("Sample Book", "Sample Publisher"))
    BY DEF RestClient
<1>3. Grpcurl[3] = Call("AddBook", Titled("test name", "test publisher"))
    BY DEF Grpcurl
<1>4. ASSUME NEW name, NEW publisher
      PROVE  DBBook(Titled(name, publisher)) = [name |-> name, publisher |-> publisher]
    BY DEF DBBook, Titled
<1>5. GrpcClient[1].request = AtomicHabits
    BY <1>1, CallFields
<1>6. RestClient[1].request = Titled("Sample Book", "Sample Publisher")
    BY <1>2, CallFields
<1>7. Grpcurl[3].request = Titled("test name", "test publisher")
    BY <1>3, CallFields
<1> QED BY <1>4, <1>5, <1>6, <1>7

LEMMA OtherBook ==
    ASSUME NEW a, NEW b, NEW p, NEW q, a # b
    PROVE  [name |-> a, publisher |-> p] # [name |-> b, publisher |-> q]
<1>1. [name |-> a, publisher |-> p].name = a
    OBVIOUS
<1>2. [name |-> b, publisher |-> q].name = b
    OBVIOUS
<1> QED BY <1>1, <1>2

\* Only the gRPC client adds the book it looks for.
LEMMA AddedBooks ==
    ASSUME NEW k \in Kinds, NEW n \in Nat, n > 0, ~(n > Len(Script[k])),
           Script[k][n].method = "AddBook"
    PROVE  DBBook(Script[k][n].request) = DBBook(AtomicHabits) <=> k = "grpc"
<1>1. k \in {"grpc", "rest", "grpcurl", "curl"}
    BY DEF Kinds, Script
<1>2. DBBook(AtomicHabits) =
          [name |-> "atomic habits", publisher |-> "random house business books"]
    BY DEF DBBook, AtomicHabits, Titled
<1>3. CASE k = "grpc"
    <2>1. n \in {1, 2, 3, 4, 5}
        BY <1>3, GrpcMethods
    <2>2. n = 1
        BY <1>3, <2>1, GrpcMethods
    <2> QED BY <1>3, <2>2, GrpcMethods, AddedRequests
<1>4. CASE k = "rest"
    <2>1. n \in {1, 2, 3, 4, 5}
        BY <1>4, RestMethods
    <2>2. n = 1
        BY <1>4, <2>1, RestMethods
    <2>3. DBBook(Script[k][n].request) =
              [name |-> "Sample Book", publisher |-> "Sample Publisher"]
        BY <1>4, <2>2, RestMethods, AddedRequests
    <2>4. "Sample Book" # "atomic habits"
        OBVIOUS
    <2>5. DBBook(Script[k][n].request) # DBBook(AtomicHabits)
        BY <1>2, <2>3, <2>4, OtherBook, Zenon
    <2> QED BY <1>4, <2>5
<1>5. CASE k = "grpcurl"
    <2>1. n \in {1, 2, 3, 4, 5, 6, 7, 8, 9}
        BY <1>5, GrpcurlMethods
    <2>2. n = 3
        BY <1>5, <2>1, GrpcurlMethods
    <2>3. DBBook(Script[k][n].request) =
              [name |-> "test name", publisher |-> "test publisher"]
        BY <1>5, <2>2, GrpcurlMethods, AddedRequests
    <2>4. "test name" # "atomic habits"
        OBVIOUS
    <2>5. DBBook(Script[k][n].request) # DBBook(AtomicHabits)
        BY <1>2, <2>3, <2>4, OtherBook, Zenon
    <2> QED BY <1>5, <2>5
<1>6. CASE k = "curl"
    <2>1. n \in {1, 2, 3, 4, 5}
        BY <1>6, CurlMethods
    <2> QED BY <1>6, <2>1, CurlMethods
<1> QED BY <1>1, <1>3, <1>4, <1>5, <1>6

LEMMA GrpcCalls ==
    ASSUME NEW n \in 1 .. 5
    PROVE  /\ GrpcClient[n].method = "ListBooks" <=> n = 2
           /\ GrpcClient[n].method \in DOMAIN BookService
<1>1. n \in {1, 2, 3, 4, 5}
    OBVIOUS
<1>2. DOMAIN BookService = {"AddBook", "ListBooks", "GetBook", "UpdateBook", "RemoveBook"}
    BY DEF BookService
<1> QED BY <1>1, <1>2, GrpcMethods

-------------------------------------------------------------------------------
(* The list of books. *)

NamedIsbns == 12345 .. 12348

Has(q, x) == \E k \in DOMAIN q : q[k] = x

LEMMA FoundInConcat ==
    ASSUME NEW S, NEW s \in Seq(S), NEW t \in Seq(S), NEW x
    PROVE  Has(s \o t, x) <=> Has(s, x) \/ Has(t, x)
<1>1. /\ Len(s) \in Nat /\ Len(t) \in Nat
      /\ DOMAIN s = 1 .. Len(s) /\ DOMAIN t = 1 .. Len(t)
    OBVIOUS
<1>2. DOMAIN (s \o t) = 1 .. Len(s) + Len(t)
    OBVIOUS
<1>3. \A k \in 1 .. Len(s) : (s \o t)[k] = s[k]
    OBVIOUS
<1>4. \A k \in 1 .. Len(t) : (s \o t)[Len(s) + k] = t[k]
    OBVIOUS
<1>5. \A a, b \in Nat : \A k \in 1 .. a + b :
        k \in 1 .. a \/ (k - a \in 1 .. b /\ a + (k - a) = k)
    OBVIOUS
<1>6. \A a, b \in Nat : (\A k \in 1 .. a : k \in 1 .. a + b)
                     /\ (\A k \in 1 .. b : a + k \in 1 .. a + b)
    OBVIOUS
<1>7. ASSUME NEW k \in DOMAIN (s \o t), (s \o t)[k] = x
      PROVE  (\E j \in DOMAIN s : s[j] = x) \/ (\E j \in DOMAIN t : t[j] = x)
    <2>1. k \in 1 .. Len(s)
              \/ (k - Len(s) \in 1 .. Len(t) /\ Len(s) + (k - Len(s)) = k)
        BY <1>1, <1>2, <1>5, <1>7
    <2> QED BY <1>1, <1>3, <1>4, <1>7, <2>1
<1>8. ASSUME NEW k \in DOMAIN s, s[k] = x PROVE \E j \in DOMAIN (s \o t) : (s \o t)[j] = x
    BY <1>1, <1>2, <1>3, <1>6, <1>8
<1>9. ASSUME NEW k \in DOMAIN t, t[k] = x PROVE \E j \in DOMAIN (s \o t) : (s \o t)[j] = x
    BY <1>1, <1>2, <1>4, <1>6, <1>9
<1> QED BY <1>7, <1>8, <1>9, Zenon DEF Has

LEMMA ListingIsSeq ==
    ASSUME NEW d, NEW i \in Isbns
    PROVE  /\ Listing(d, i) \in Seq({BookMessage(d, j) : j \in Isbns})
           /\ \A x : Has(Listing(d, i), x)
                       <=> Store!Stored(d, i) /\ x = BookMessage(d, i)
<1>1. CASE Store!Stored(d, i)
    <2>1. Listing(d, i) = <<BookMessage(d, i)>>
        BY <1>1 DEF Listing
    <2>2. ASSUME NEW m
          PROVE  /\ \A S : m \in S => <<m>> \in Seq(S)
                 /\ \A x : Has(<<m>>, x) <=> x = m
        BY DEF Has
    <2>3. BookMessage(d, i) \in {BookMessage(d, j) : j \in Isbns}
        OBVIOUS
    <2> QED BY <1>1, <2>1, <2>2, <2>3
<1>2. CASE ~Store!Stored(d, i)
    <2>1. Listing(d, i) = <<>>
        BY <1>2 DEF Listing
    <2>2. \A x : ~Has(<<>>, x)
        BY DEF Has
    <2> QED BY <1>2, <2>1, <2>2
<1> QED BY <1>1, <1>2

LEMMA FoundInFour ==
    ASSUME NEW S, NEW s \in Seq(S), NEW t \in Seq(S), NEW u \in Seq(S), NEW v \in Seq(S)
    PROVE  /\ s \o t \o u \o v \in Seq(S)
           /\ \A x : Has(s \o t \o u \o v, x)
                       <=> Has(s, x) \/ Has(t, x) \/ Has(u, x) \/ Has(v, x)
<1>1. s \o t \in Seq(S) /\ s \o t \o u \in Seq(S) /\ s \o t \o u \o v \in Seq(S)
    OBVIOUS
<1>2. \A a, b \in Seq(S) : \A x : Has(a \o b, x) <=> Has(a, x) \/ Has(b, x)
    BY FoundInConcat
<1>3. ASSUME NEW x
      PROVE  Has(s \o t \o u \o v, x) <=> Has(s, x) \/ Has(t, x) \/ Has(u, x) \/ Has(v, x)
    <2>1. Has(s \o t, x) <=> Has(s, x) \/ Has(t, x)
        BY <1>2
    <2>2. Has((s \o t) \o u, x) <=> Has(s \o t, x) \/ Has(u, x)
        BY <1>1, <1>2, Zenon
    <2>3. Has(((s \o t) \o u) \o v, x) <=> Has((s \o t) \o u, x) \/ Has(v, x)
        BY <1>1, <1>2, Zenon
    <2> QED BY <2>1, <2>2, <2>3
<1> QED BY <1>1, <1>3

LEMMA FoundInList ==
    ASSUME NEW d
    PROVE  /\ BookMessages(d) \in Seq({BookMessage(d, j) : j \in Isbns})
           /\ \A x : Has(BookMessages(d), x)
                       <=> \E i \in NamedIsbns :
                             Store!Stored(d, i) /\ x = BookMessage(d, i)
<1> DEFINE S == {BookMessage(d, j) : j \in Isbns}
           l(i) == Listing(d, i)
<1>1. 12345 \in Isbns /\ 12346 \in Isbns /\ 12347 \in Isbns /\ 12348 \in Isbns
    BY ClientsAssumption
<1>2. \A i \in Isbns : l(i) \in Seq(S)
    BY ListingIsSeq
<1>3. l(12345) \in Seq(S) /\ l(12346) \in Seq(S) /\ l(12347) \in Seq(S) /\ l(12348) \in Seq(S)
    BY <1>1, <1>2
<1>4. \A i \in Isbns : \A x : Has(l(i), x) <=> Store!Stored(d, i) /\ x = BookMessage(d, i)
    BY ListingIsSeq
<1>5. BookMessages(d) = l(12345) \o l(12346) \o l(12347) \o l(12348)
    BY DEF BookMessages
<1> HIDE DEF S, l
<1>6. ASSUME NEW s \in Seq(S), NEW t \in Seq(S), NEW u \in Seq(S), NEW v \in Seq(S)
      PROVE  /\ s \o t \o u \o v \in Seq(S)
             /\ \A x : Has(s \o t \o u \o v, x)
                         <=> Has(s, x) \/ Has(t, x) \/ Has(u, x) \/ Has(v, x)
    BY FoundInFour
<1>7. /\ BookMessages(d) \in Seq(S)
      /\ \A x : Has(BookMessages(d), x) <=>
              Has(l(12345), x) \/ Has(l(12346), x) \/ Has(l(12347), x) \/ Has(l(12348), x)
    BY <1>3, <1>5, <1>6
<1>8. \A i : i \in NamedIsbns <=> i \in {12345, 12346, 12347, 12348}
    BY DEF NamedIsbns
<1>9. \A x : Has(BookMessages(d), x) <=>
              \E i \in NamedIsbns : Store!Stored(d, i) /\ x = BookMessage(d, i)
    <2> TAKE x
    <2>1. (\E i \in NamedIsbns : Store!Stored(d, i) /\ x = BookMessage(d, i))
            <=> \E i \in {12345, 12346, 12347, 12348} : Has(l(i), x)
        BY <1>1, <1>4, <1>8
    <2> QED BY <1>7, <2>1
<1> QED BY <1>7, <1>9 DEF S

\* The gRPC client finds its book exactly when the row is that book.
LEMMA FoundMeansHeld ==
    ASSUME NEW d \in Store!Tables
    PROVE  Found(BookMessages(d)) <=> HoldsAtomicHabits(d)
<1>1. Found(BookMessages(d)) <=>
        \E i \in NamedIsbns : Store!Stored(d, i) /\ AtomicHabits = BookMessage(d, i)
    <2>1. Found(BookMessages(d)) <=> Has(BookMessages(d), AtomicHabits)
        BY DEF Found, Has
    <2>2. \A x : Has(BookMessages(d), x) <=>
            \E i \in NamedIsbns : Store!Stored(d, i) /\ x = BookMessage(d, i)
        BY FoundInList, Zenon
    <2> QED BY <2>1, <2>2
<1>2. ASSUME NEW i \in NamedIsbns, Store!Stored(d, i)
      PROVE  AtomicHabits = BookMessage(d, i)
               <=> i = 12348 /\ d.books[12348] = DBBook(AtomicHabits)
    <2>1. d.books[i] \in Store!Book
        BY <1>2, ClientsAssumption DEF NamedIsbns, Store!Tables, Store!Stored
    <2>2. PICK n, p : d.books[i] = [name |-> n, publisher |-> p]
        <3>1. \A N, P : \A b \in [name : N, publisher : P] :
                b = [name |-> b.name, publisher |-> b.publisher]
            OBVIOUS
        <3>2. d.books[i] \in
                  [name : Names \union {Store!PublisherLiteral}, publisher : Publishers]
            BY <2>1 DEF Store!Book
        <3> QED BY <3>1, <3>2, Zenon
    <2>3. BookMessage(d, i) = [isbn |-> i, name |-> n, publisher |-> p]
        BY <1>2, <2>2 DEF BookMessage, Store!GetBook
    <2>4. ASSUME NEW a, NEW b
          PROVE  Titled(a, b) = [isbn |-> i, name |-> n, publisher |-> p]
                   <=> i = 12348 /\ [name |-> n, publisher |-> p] = DBBook(Titled(a, b))
        BY DEF Titled, DBBook
    <2>5. AtomicHabits = [isbn |-> i, name |-> n, publisher |-> p]
            <=> i = 12348 /\ [name |-> n, publisher |-> p] = DBBook(AtomicHabits)
        <3> DEFINE a == "atomic habits"
                   b == "random house business books"
        <3>1. AtomicHabits = Titled(a, b)
            BY DEF AtomicHabits
        <3> HIDE DEF a, b
        <3> QED BY <2>4, <3>1
    <2>6. AtomicHabits = BookMessage(d, i)
            <=> i = 12348 /\ d.books[i] = DBBook(AtomicHabits)
        BY <2>2, <2>3, <2>5
    <2> QED BY <2>6
<1>3. 12348 \in NamedIsbns
    BY DEF NamedIsbns
<1> QED BY <1>1, <1>2, <1>3 DEF HoldsAtomicHabits

LEMMA ListArrives ==
    ASSUME NEW d
    PROVE  ReadResponse("ListBooks", Response("ListBooks", [books |-> BookMessages(d)])).books
               = BookMessages(d)
<1> DEFINE m == [books |-> BookMessages(d)]
<1>1. Types("ListBooks").out = ListBooksRespose
    BY DEF Types, BookService, Unary
<1>2. Distinct(ListBooksRespose) /\ Distinct(Book)
    BY DEF Distinct, ListBooksRespose, Messages, Book, Int32, String, Field
<1>3. BookMessages(d) \in Seq({BookMessage(d, j) : j \in Isbns})
    BY FoundInList
<1>4. /\ Len(BookMessages(d)) \in Nat
      /\ BookMessages(d) = [j \in 1 .. Len(BookMessages(d)) |-> BookMessages(d)[j]]
      /\ \A j \in 1 .. Len(BookMessages(d)) :
           BookMessages(d)[j] \in {BookMessage(d, i) : i \in Isbns}
    BY <1>3
<1>5. \A i : Of(Book, BookMessage(d, i))
    BY DEF Of, Book, BookMessage
<1>6. Fits(ListBooksRespose["books"], m["books"])
    BY <1>2, <1>4, <1>5 DEF Fits, ListBooksRespose, Messages, Field
<1>7. Of(ListBooksRespose, m) /\ DOMAIN ListBooksRespose = {"books"}
    BY DEF Of, ListBooksRespose
<1>8. WellFormed(ListBooksRespose, m)
    BY <1>2, <1>6, <1>7 DEF WellFormed
<1> HIDE DEF m
<1>9. ReadResponse("ListBooks", Response("ListBooks", m)) = m
    BY <1>1, <1>8, RoundTrip DEF ReadResponse, Response
<1> QED BY <1>9 DEF m

-------------------------------------------------------------------------------
(* The tables. *)

LEMMA BookShape ==
    ASSUME NEW b \in Store!Book
    PROVE  /\ b = [name |-> b.name, publisher |-> b.publisher]
           /\ b.name \in Names \union {Store!PublisherLiteral} /\ b.publisher \in Publishers
           /\ \A n : [b EXCEPT !.name = n] = [name |-> n, publisher |-> b.publisher]
<1>1. b \in [name : Names \union {Store!PublisherLiteral}, publisher : Publishers]
    BY DEF Store!Book
<1> QED BY <1>1

LEMMA TableUpdates ==
    ASSUME NEW d \in Store!Tables, NEW i \in Isbns
    PROVE  /\ \A b \in Store!Book \union {NoBook} :
                 /\ [d EXCEPT !.books[i] = b] \in Store!Tables
                 /\ [d EXCEPT !.books[i] = b].books[i] = b
           /\ \A r \in Reviews :
                 [d EXCEPT !.reviews[i] = Append(@, r)] \in Store!Tables
<1>0. d = [books |-> d.books, reviews |-> d.reviews]
    BY DEF Store!Tables
<1>1. /\ d.books \in [Isbns -> Store!Book \union {NoBook}]
      /\ d.reviews \in [Isbns -> Seq(Reviews)]
    BY DEF Store!Tables
<1>2. ASSUME NEW b \in Store!Book \union {NoBook}
      PROVE  /\ [d EXCEPT !.books[i] = b] \in Store!Tables
             /\ [d EXCEPT !.books[i] = b].books[i] = b
    <2> DEFINE e == [d EXCEPT !.books[i] = b]
    <2>1. e = [books |-> [d.books EXCEPT ![i] = b], reviews |-> d.reviews]
        BY <1>0
    <2>2. /\ [d.books EXCEPT ![i] = b] \in [Isbns -> Store!Book \union {NoBook}]
          /\ [d.books EXCEPT ![i] = b][i] = b
        BY <1>1
    <2> HIDE DEF e
    <2>3. e \in Store!Tables /\ e.books[i] = b
        BY <1>1, <2>1, <2>2 DEF Store!Tables
    <2> QED BY <2>3 DEF e
<1>3. ASSUME NEW r \in Reviews
      PROVE  [d EXCEPT !.reviews[i] = Append(@, r)] \in Store!Tables
    <2>1. [d EXCEPT !.reviews[i] = Append(@, r)] =
              [books |-> d.books, reviews |-> [d.reviews EXCEPT ![i] = Append(@, r)]]
        BY <1>0
    <2>2. [d.reviews EXCEPT ![i] = Append(@, r)] \in [Isbns -> Seq(Reviews)]
        <3>1. d.reviews[i] \in Seq(Reviews)
            BY <1>1
        <3>2. Append(d.reviews[i], r) \in Seq(Reviews)
            BY <3>1
        <3> QED BY <1>1, <3>2
    <2> QED BY <1>1, <2>1, <2>2 DEF Store!Tables
<1> QED BY <1>2, <1>3

\* What a call does to the row of an isbn.
RowStays(i, d, e) == e.books[i] = d.books[i]
RowIsUpdated(i, d, e) == Store!Stored(d, i) /\ e.books[i].name = "publisher"
RowIsAdded(i, d, e, b) == ~Store!Stored(d, i) /\ e.books[i] = b

LEMMA StoreRows ==
    ASSUME NEW d \in Store!Tables, NEW i \in Isbns, NEW j \in Isbns
    PROVE  /\ \A b \in Store!Book :
                 /\ Store!AddBook(d, i, b) \in Store!Tables
                 /\ \/ RowStays(i, d, Store!AddBook(d, i, b))
                    \/ RowIsAdded(i, d, Store!AddBook(d, i, b), b)
           /\ \A b : /\ Store!UpdateBook(d, i, b) \in Store!Tables
                     /\ \/ RowStays(i, d, Store!UpdateBook(d, i, b))
                        \/ RowIsUpdated(i, d, Store!UpdateBook(d, i, b))
           /\ Store!RemoveBook(d, i) \in Store!Tables
           /\ \A r \in Reviews : /\ Store!AddReview(d, j, r) \in Store!Tables
                                 /\ RowStays(i, d, Store!AddReview(d, j, r))
<1>2. /\ d.books \in [Isbns -> Store!Book \union {NoBook}]
      /\ d.reviews \in [Isbns -> Seq(Reviews)]
    BY DEF Store!Tables
<1>3. ASSUME NEW b \in Store!Book
      PROVE  /\ Store!AddBook(d, i, b) \in Store!Tables
             /\ \/ RowStays(i, d, Store!AddBook(d, i, b))
                \/ RowIsAdded(i, d, Store!AddBook(d, i, b), b)
    <2>1. CASE Store!Stored(d, i)
        BY <2>1 DEF Store!AddBook, RowStays
    <2>2. CASE ~Store!Stored(d, i)
        <3>1. Store!AddBook(d, i, b) = [d EXCEPT !.books[i] = b]
            BY <2>2 DEF Store!AddBook
        <3>2. /\ [d EXCEPT !.books[i] = b] \in Store!Tables
              /\ [d EXCEPT !.books[i] = b].books[i] = b
            BY TableUpdates
        <3> QED BY <2>2, <3>1, <3>2, Zenon DEF RowIsAdded
    <2> QED BY <2>1, <2>2
<1>4. ASSUME NEW b
      PROVE  /\ Store!UpdateBook(d, i, b) \in Store!Tables
             /\ \/ RowStays(i, d, Store!UpdateBook(d, i, b))
                \/ RowIsUpdated(i, d, Store!UpdateBook(d, i, b))
    <2>1. CASE ~Store!Stored(d, i)
        BY <2>1 DEF Store!UpdateBook, RowStays
    <2>2. CASE Store!Stored(d, i)
        <3> DEFINE x == [name |-> "publisher", publisher |-> d.books[i].publisher]
        <3>1. d.books[i] \in Store!Book
            BY <1>2, <2>2 DEF Store!Stored
        <3>2. [d.books[i] EXCEPT !.name = "publisher"] = x
            BY <3>1, BookShape
        <3>3. x \in Store!Book /\ x.name = "publisher"
            BY <3>1, BookShape DEF Store!Book, Store!PublisherLiteral
        <3>4. Store!UpdateBook(d, i, b) =
                  [d EXCEPT !.books[i] =
                      [d.books[i] EXCEPT !.name = "publisher"]]
            BY <2>2 DEF Store!UpdateBook, Store!PublisherLiteral, Store!Tables
        <3> HIDE DEF x
        <3>5. Store!UpdateBook(d, i, b) = [d EXCEPT !.books[i] = x]
            BY <3>2, <3>4
        <3>6. /\ [d EXCEPT !.books[i] = x] \in Store!Tables
              /\ [d EXCEPT !.books[i] = x].books[i] = x
            BY <3>3, TableUpdates
        <3> QED BY <2>2, <3>3, <3>5, <3>6, Zenon DEF RowIsUpdated
    <2> QED BY <2>1, <2>2
<1>5. Store!RemoveBook(d, i) \in Store!Tables
    <2>1. [d EXCEPT !.books[i] = NoBook] \in Store!Tables
        BY TableUpdates
    <2> QED BY <2>1 DEF Store!RemoveBook
<1>6. ASSUME NEW r \in Reviews
      PROVE  /\ Store!AddReview(d, j, r) \in Store!Tables
             /\ RowStays(i, d, Store!AddReview(d, j, r))
    <2>1. CASE ~Store!Stored(d, j)
        BY <2>1 DEF Store!AddReview, RowStays
    <2>2. CASE Store!Stored(d, j)
        <3>1. Store!AddReview(d, j, r) = [d EXCEPT !.reviews[j] = Append(@, r)]
            BY <2>2 DEF Store!AddReview
        <3>2. [d EXCEPT !.reviews[j] = Append(@, r)] \in Store!Tables
            BY TableUpdates
        <3>3. [d EXCEPT !.reviews[j] = Append(@, r)].books = d.books
            <4>1. d = [books |-> d.books, reviews |-> d.reviews]
                BY DEF Store!Tables
            <4> QED BY <4>1
        <3> QED BY <3>1, <3>2, <3>3, Zenon DEF RowStays
    <2> QED BY <2>1, <2>2
<1> QED BY <1>3, <1>4, <1>5, <1>6

\* What an executed call leaves in the tables.
LEMMA ExecuteRow ==
    ASSUME IInv, ShownInv, NEW c \in Clients, Execute(c)
    PROVE  /\ db' \in Store!Tables
           /\ \/ RowStays(12348, db, db') \/ RowIsUpdated(12348, db, db')
              \/ ~Store!Stored(db', 12348)
              \/ /\ Method(c) = "AddBook"
                 /\ RowIsAdded(12348, db, db', DBBook(Current(c).request))
<1>0. 12347 \in Isbns /\ 12348 \in Isbns
    BY ClientsAssumption
<1>1. /\ call[c].stage = "sent"
      /\ db' = Effect(Method(c), Received(c), db)
    BY DEF Execute, Receiving
<1>2. Listed(Current(c), client[c].at)
    BY <1>1, Arrives
<1>3. db \in Store!Tables
    BY DEF ShownInv
<1>4. client[c].kind \in Kinds /\ client[c].at \in 1 .. Len(Script[client[c].kind])
    <2>1. ~Finished(c) /\ client[c].kind \in Kinds /\ Placed(c)
        BY <1>1 DEF IInv, Shape, InFlight, ShownInv
    <2>2. \A a, n : a \in 1 .. n + 1 /\ ~(a > n) /\ n \in Int => a \in 1 .. n
        OBVIOUS
    <2>3. Len(Script[client[c].kind]) \in Int
        <3>1. client[c].kind \in {"grpc", "rest", "grpcurl", "curl"}
            BY <2>1 DEF Kinds, Script
        <3> QED BY <3>1, GrpcMethods, RestMethods, GrpcurlMethods, CurlMethods
    <2> QED BY <2>1, <2>2, <2>3 DEF Finished, Placed
<1>5. /\ Method(c) = "AddBook" => DBBook(Current(c).request) \in Store!Book
      /\ Method(c) = "SubmitReviews" => DBReview(Current(c).request) \in Reviews
    BY <1>4, ContentsAssumption DEF Method, Current
<1>6. CASE Method(c) = "AddBook"
    <2>1. Received(c) = Current(c).request /\ Received(c).isbn = 12348
        BY <1>1, <1>2, <1>6, Arrives DEF Listed, Method, IsBook
    <2>2. db' = Store!AddBook(db, 12348, DBBook(Current(c).request))
        BY <1>1, <1>6, <2>1 DEF Effect
    <2> QED BY <1>3, <1>5, <1>6, <2>2, <1>0, StoreRows
<1>7. CASE Method(c) = "UpdateBook"
    <2>1. Received(c).isbn = 12348
        BY <1>1, <1>2, <1>7, Arrives DEF Listed, Method, IsBook
    <2>2. db' = Store!UpdateBook(db, 12348, DBBook(Received(c)))
        BY <1>1, <1>7, <2>1 DEF Effect
    <2> QED BY <1>3, <2>2, <1>0, StoreRows
<1>8. CASE Method(c) = "RemoveBook"
    <2>1. Received(c).isbn = 12348
        BY <1>1, <1>2, <1>8, Arrives DEF Listed, Method
    <2>2. db' = Store!RemoveBook(db, 12348)
        BY <1>1, <1>8, <2>1 DEF Effect
    <2>3. ~Store!Stored(db', 12348)
        BY <2>2, StoreEffects DEF IInv, Cleaned
    <2> QED BY <1>3, <2>2, <2>3, <1>0, StoreRows
<1>9. CASE Method(c) = "SubmitReviews"
    <2>1. Received(c) = Current(c).request /\ Received(c).isbn = 12347
        BY <1>1, <1>2, <1>9, Arrives DEF Listed, Method, IsReview
    <2>2. db' = Store!AddReview(db, 12347, DBReview(Current(c).request))
        BY <1>1, <1>9, <2>1 DEF Effect
    <2> QED BY <1>3, <1>5, <1>9, <2>2, <1>0, StoreRows
<1>10. CASE Method(c) \notin {"AddBook", "UpdateBook", "RemoveBook", "SubmitReviews"}
    <2>1. db' = db
        BY <1>1, <1>10 DEF Effect
    <2> QED BY <1>3, <2>1 DEF RowStays
<1> QED BY <1>6, <1>7, <1>8, <1>9, <1>10

-------------------------------------------------------------------------------
(* The row and what was seen of it. *)

KindsStay == \A c \in Clients : client'[c].kind = client[c].kind

LEMMA FreshStays ==
    ASSUME KindsStay, NEW r, IsRow(r) PROVE Fresh(r)' <=> Fresh(r)
    BY DEF KindsStay, IsRow, Fresh

LEMMA NothingFresh == IsRow(NoRow) /\ ~Fresh(NoRow)
    BY DEF IsRow, Fresh, NoRow

\* The row is looked at when it was inserted by a gRPC client and not updated since.
LEMMA ExecuteFresh ==
    ASSUME IInv, ShownInv, NEW c \in Clients, Execute(c)
    PROVE  /\ IsRow(row)' /\ (Fresh(row)' <=> HoldsAtomicHabits(db)')
           /\ db' = db => (Fresh(row)' <=> Fresh(row))
<1>1. /\ IsRow(row) /\ (Fresh(row) <=> HoldsAtomicHabits(db))
      /\ Store!Stored(db, 12348) => row.by \in Clients
    BY DEF ShownInv, Rows, IInv, Cleaned
<1>2. RecordRow(c) /\ UNCHANGED client /\ call[c].stage = "sent"
    BY DEF Execute, Receiving
<1>3. KindsStay
    BY <1>2 DEF KindsStay
<1>4. row' = IF ~Store!Stored(db', 12348) THEN NoRow
             ELSE IF ~Store!Stored(db, 12348) THEN [by |-> c, updated |-> FALSE]
             ELSE [row EXCEPT !.updated = @ \/ db'.books[12348] # db.books[12348]]
    BY <1>2 DEF RecordRow
<1>5. /\ Fresh(row)' <=> row'.by # Nil /\ client[row'.by].kind = "grpc" /\ ~row'.updated
      /\ HoldsAtomicHabits(db)' <=>
           Store!Stored(db', 12348) /\ db'.books[12348] = DBBook(AtomicHabits)
      /\ IsRow(row)' <=> /\ row' = [by |-> row'.by, updated |-> row'.updated]
                         /\ row'.by \in Clients \union {Nil} /\ row'.updated \in BOOLEAN
    <2>1. DBBook(AtomicHabits)' = DBBook(AtomicHabits)
        BY DEF DBBook, AtomicHabits, Titled
    <2> QED BY <1>2, <2>1 DEF Fresh, HoldsAtomicHabits, IsRow, Store!Stored
<1>6. CASE ~Store!Stored(db', 12348)
    <2>1. row' = [by |-> Nil, updated |-> FALSE]
        BY <1>4, <1>6 DEF NoRow
    <2>2. ~Fresh(row)' /\ IsRow(row)' /\ ~HoldsAtomicHabits(db)'
        BY <1>5, <1>6, <2>1
    <2>3. db' = db => ~Fresh(row)
        BY <1>1, <1>6 DEF HoldsAtomicHabits
    <2> QED BY <2>2, <2>3
<1>7. CASE Store!Stored(db', 12348) /\ ~Store!Stored(db, 12348)
    <2>1. row' = [by |-> c, updated |-> FALSE]
        BY <1>4, <1>7
    <2>2. /\ Method(c) = "AddBook"
          /\ RowIsAdded(12348, db, db', DBBook(Current(c).request))
        BY <1>7, ExecuteRow DEF RowStays, RowIsUpdated, Store!Stored
    <2>3. db'.books[12348] = DBBook(Current(c).request)
        BY <2>2 DEF RowIsAdded
    <2>4. DBBook(Current(c).request) = DBBook(AtomicHabits) <=> client[c].kind = "grpc"
        <3>1. ~Finished(c) /\ client[c].kind \in Kinds /\ client[c].at \in Nat \ {0}
            BY <1>2 DEF IInv, Shape, InFlight
        <3>2. Script[client[c].kind][client[c].at].method = "AddBook"
            BY <2>2 DEF Method, Current
        <3>3. client[c].at > 0
            BY <3>1
        <3> QED BY <3>1, <3>2, <3>3, AddedBooks DEF Current, Finished
    <2>5. IsRow(row)' /\ (Fresh(row)' <=> HoldsAtomicHabits(db)')
        BY <1>5, <1>7, <2>1, <2>3, <2>4, ClientsAssumption
    <2>6. db' # db
        BY <1>7
    <2> QED BY <2>5, <2>6
<1>8. CASE Store!Stored(db', 12348) /\ Store!Stored(db, 12348)
    <2> DEFINE u == row.updated \/ db'.books[12348] # db.books[12348]
    <2>1. row' = [row EXCEPT !.updated = u]
        BY <1>4, <1>8
    <2>2. u \in BOOLEAN
        OBVIOUS
    <2>3. u <=> row.updated \/ db'.books[12348] # db.books[12348]
        OBVIOUS
    <2> HIDE DEF u
    <2>4. row' = [by |-> row.by, updated |-> u]
        BY <1>1, <2>1 DEF IsRow
    <2>5. row'.by = row.by /\ row'.updated = u
        BY <2>4
    <2>6. IsRow(row)'
        BY <1>1, <1>5, <2>2, <2>4, <2>5 DEF IsRow
    <2>7. Fresh(row) <=> row.by # Nil /\ client[row.by].kind = "grpc" /\ ~row.updated
        BY DEF Fresh
    <2>8. CASE db'.books[12348] = db.books[12348]
        <3>1. HoldsAtomicHabits(db)' <=> HoldsAtomicHabits(db)
            BY <1>5, <1>8, <2>8 DEF HoldsAtomicHabits
        <3>2. Fresh(row)' <=> Fresh(row)
            BY <1>5, <2>3, <2>5, <2>7, <2>8
        <3> QED BY <1>1, <2>6, <3>1, <3>2
    <2>9. CASE db'.books[12348] # db.books[12348]
        <3>1. RowIsUpdated(12348, db, db')
            BY <1>8, <2>9, ExecuteRow DEF RowStays, RowIsAdded
        <3>2. db'.books[12348].name = "publisher"
            BY <3>1 DEF RowIsUpdated
        <3>3. db'.books[12348] # DBBook(AtomicHabits)
            <4>1. DBBook(AtomicHabits).name = AtomicHabits.name
                BY DEF DBBook
            <4>2. AtomicHabits.name = "atomic habits"
                BY DEF AtomicHabits, Titled
            <4>3. "publisher" # "atomic habits"
                OBVIOUS
            <4>4. \A b : b.name = "publisher" => b # DBBook(AtomicHabits)
                BY <4>1, <4>2, <4>3, Zenon
            <4> QED BY <3>2, <4>4
        <3>4. ~HoldsAtomicHabits(db)' /\ ~Fresh(row)'
            BY <1>5, <2>3, <2>5, <2>9, <3>3
        <3>5. db' # db
            BY <2>9
        <3> QED BY <2>6, <3>4, <3>5
    <2> QED BY <2>8, <2>9
<1> QED BY <1>6, <1>7, <1>8

LEMMA ExecuteRows ==
    ASSUME IInv, ShownInv, NEW c \in Clients, Execute(c)
    PROVE  Rows'
<1>1. RecordRow(c)
    BY DEF Execute
<1>2. \A d \in Clients : IsRow(seen[d])
    BY DEF ShownInv, Rows
<1>3. IsRow(row) /\ seen = [d \in Clients |-> seen[d]]
    BY DEF ShownInv, Rows
<1>4. seen' = [d \in Clients |-> seen'[d]] /\ \A d \in Clients : seen'[d] \in {seen[d], row}
    BY <1>1, <1>3 DEF RecordRow
<1>5. \A d \in Clients : IsRow(seen[d])'
    <2> SUFFICES ASSUME NEW d \in Clients PROVE IsRow(seen[d])'
        OBVIOUS
    <2> QED BY <1>2, <1>3, <1>4 DEF IsRow
<1> QED BY <1>4, <1>5, ExecuteFresh DEF Rows

\* A step that leaves a client where it is.
LEMMA ClientKeeps ==
    ASSUME IInv, ShownInv, KindsStay, NEW d \in Clients,
           client'[d].at = client[d].at, client'[d].verified = client[d].verified,
           client'[d].status \in {"off", "running", "dead"},
           seen'[d] = seen[d],
           call'[d] # Idle => ~Finished(d) /\ client'[d].status # "off",
           call'[d].stage = "half" => ServerOf(d) = "info",
           \/ call'[d] = call[d]
           \/ call'[d].stage = "answered" => call'[d].outcome.code # "OK"
           \/ client[d].kind # "grpc" \/ client[d].at # 2
    PROVE  Placed(d)' /\ Verifies(d)'
<1>1. client'[d].kind = client[d].kind
    BY DEF KindsStay
<1>2. /\ Finished(d)' <=> Finished(d)
      /\ ServerOf(d)' = ServerOf(d)
    BY <1>1 DEF Finished, ServerOf, Method, Current, OverRest, Script, BookService,
                ReviewService
<1>3. Placed(d) /\ Verifies(d)
    BY DEF ShownInv
<1>4. Placed(d)'
    <2>1. 1 .. Len(Script[client'[d].kind]) + 1 = 1 .. Len(Script[client[d].kind]) + 1
        BY <1>1
    <2>2. client'[d].at \in 1 .. Len(Script[client'[d].kind]) + 1
        BY <1>3, <2>1 DEF Placed
    <2> QED BY <1>2, <2>2 DEF Placed, Idle, Script
<1>5. ASSUME client'[d].kind = "grpc" PROVE Verifies(d)'
    <2>1. Fresh(seen[d])' <=> Fresh(seen[d])
        <3>1. IsRow(seen[d])
            BY DEF ShownInv, Rows
        <3> QED BY <3>1 DEF KindsStay, IsRow, Fresh
    <2>2. /\ client[d].verified \in BOOLEAN
          /\ client[d].at <= 2 => ~client[d].verified
          /\ client[d].at > 2 => (client[d].verified <=> Fresh(seen[d]))
          /\ client[d].at = 2 /\ GotAnswer(d) =>
               (FoundIn(call[d].outcome.message) <=> Fresh(seen[d]))
        BY <1>1, <1>3, <1>5 DEF Verifies
    <2>3. ASSUME client'[d].at = 2, GotAnswer(d)'
          PROVE  FoundIn(call[d].outcome.message)' <=> Fresh(seen[d])
        <3>1. call'[d] = call[d]
            BY <1>1, <1>5, <2>3 DEF GotAnswer
        <3>2. GotAnswer(d)
            BY <2>3, <3>1 DEF GotAnswer
        <3>3. FoundIn(call[d].outcome.message)' <=> FoundIn(call[d].outcome.message)
            BY <3>1
        <3> QED BY <2>2, <2>3, <3>2, <3>3
    <2> QED BY <2>1, <2>2, <2>3 DEF Verifies
<1> QED BY <1>4, <1>5 DEF Verifies

\* A step that leaves the tables and their history alone.
LEMMA RowsStay ==
    ASSUME ShownInv, KindsStay, UNCHANGED <<db, row, seen>>
    PROVE  Rows'
<1>1. IsRow(row) /\ (Fresh(row) <=> HoldsAtomicHabits(db))
    BY DEF ShownInv, Rows
<1>2. Fresh(row)' <=> Fresh(row)
    BY <1>1 DEF KindsStay, IsRow, Fresh
<1>3. HoldsAtomicHabits(db)' <=> HoldsAtomicHabits(db)
    BY DEF HoldsAtomicHabits, Store!Stored, DBBook, AtomicHabits, Titled
<1>4. IsRow(row)' /\ \A c \in Clients : IsRow(seen[c])'
    <2>1. \A c \in Clients : IsRow(seen[c])
        BY DEF ShownInv, Rows
    <2> QED BY <1>1, <2>1 DEF IsRow
<1>5. seen' = [c \in Clients |-> seen'[c]]
    BY DEF ShownInv, Rows
<1> QED BY <1>1, <1>2, <1>3, <1>4, <1>5 DEF Rows

\* What comes of a handler.
LEMMA FinishCall ==
    ASSUME IInv, NEW c \in Clients, NEW code, NEW message,
           Finish(c, Outcome(code, message))
    PROVE  /\ \A d \in Clients \ {c} : call'[d] = call[d]
           /\ call'[c].stage \in {"answered", "broken"}
           /\ ~OverRest(c) /\ code # "OK" =>
                (call'[c].stage = "answered" => call'[c].outcome.code # "OK")
           /\ ~OverRest(c) /\ code = "OK" =>
                call'[c] = Answered([code |-> "OK", message |-> Response(Method(c), message),
                                     logged |-> "OK"])
<1> DEFINE o == Outcome(code, message)
<1>1. ASSUME NEW k, Set(c, k)
      PROVE  call'[c] = k /\ \A d \in Clients \ {c} : call'[d] = call[d]
    BY <1>1 DEF Set, IInv, Shape
<1>2. CASE OverRest(c)
    <2>1. \E k \in {Broken, Answered([o EXCEPT !.message = Nil])} : Set(c, k)
        BY <1>2 DEF Finish
    <2>2. PICK k \in {Broken, Answered([o EXCEPT !.message = Nil])} : Set(c, k)
        BY <2>1
    <2>3. k.stage \in {"answered", "broken"}
        BY DEF Broken, Answered
    <2> QED BY <1>1, <1>2, <2>2, <2>3
<1>3. CASE ~OverRest(c)
    <2>1. PICK i \in {Interceptors(o)} :
            Set(c, Answered(IF i.code # "OK" THEN i
                            ELSE [i EXCEPT !.message = Response(Method(c), @)]))
        BY <1>3 DEF Finish
    <2>2. o = [code |-> code, message |-> message, logged |-> "nothing"]
        BY DEF Outcome
    <2> HIDE DEF o
    <2>3. CASE code = "OK"
        <3>1. Recovery(o) = o
            BY <2>2, <2>3 DEF Recovery
        <3>2. i = [code |-> "OK", message |-> message, logged |-> "OK"]
            BY <2>1, <2>2, <2>3, <3>1 DEF Interceptors, Logging
        <3> DEFINE r == Response(Method(c), message)
        <3>3. [i EXCEPT !.message = Response(Method(c), @)] = [i EXCEPT !.message = r]
            BY <3>2
        <3> HIDE DEF r
        <3>4. [i EXCEPT !.message = r] = [code |-> "OK", message |-> r, logged |-> "OK"]
            BY <3>2
        <3>5. i.code = "OK"
            BY <3>2
        <3>6. Set(c, Answered([code |-> "OK", message |-> r, logged |-> "OK"]))
            BY <2>1, <3>3, <3>4, <3>5
        <3>7. call'[c] = Answered([code |-> "OK", message |-> r, logged |-> "OK"])
            BY <1>1, <3>6
        <3>8. call'[c].stage = "answered"
            BY <3>7 DEF Answered
        <3> QED BY <1>1, <1>3, <2>3, <3>6, <3>7, <3>8 DEF r
    <2>4. CASE code # "OK"
        <3>1. i.code # "OK"
            <4>1. CASE code = "panic"
                <5>1. Recovery(o) =
                          [code |-> "Unknown", message |-> message, logged |-> "nothing"]
                    BY <2>2, <4>1 DEF Recovery
                <5>2. Logging(Recovery(o)) =
                          [code |-> "Unknown", message |-> message, logged |-> "Unknown"]
                    BY <5>1 DEF Logging
                <5> QED BY <2>1, <5>2 DEF Interceptors
            <4>2. CASE code # "panic"
                <5>1. Recovery(o) = o
                    BY <2>2, <4>2 DEF Recovery
                <5>2. Logging(o) = [code |-> code, message |-> message, logged |-> code]
                    BY <2>2, <4>2 DEF Logging
                <5> QED BY <2>1, <2>4, <5>1, <5>2 DEF Interceptors
            <4> QED BY <4>1, <4>2
        <3>2. Set(c, Answered(i))
            BY <2>1, <3>1
        <3>3. call'[c].stage = "answered" /\ call'[c].outcome = i
            BY <1>1, <3>2 DEF Answered
        <3> QED BY <1>1, <1>3, <2>4, <3>1, <3>2, <3>3
    <2> QED BY <2>3, <2>4
<1> QED BY <1>2, <1>3

-------------------------------------------------------------------------------
(* The steps. *)

\* What a step leaves of a client, when it neither advances it nor answers its list.
Keeps(d) ==
    /\ client'[d].at = client[d].at /\ client'[d].verified = client[d].verified
    /\ client'[d].status \in {"off", "running", "dead"}
    /\ seen'[d] = seen[d]
    /\ call'[d] # Idle => ~Finished(d) /\ client'[d].status # "off"
    /\ call'[d].stage = "half" => ServerOf(d) = "info"
    /\ \/ call'[d] = call[d]
       \/ call'[d].stage = "answered" => call'[d].outcome.code # "OK"
       \/ client[d].kind # "grpc" \/ client[d].at # 2

LEMMA Same ==
    ASSUME ShownInv, NEW d \in Clients,
           client'[d] = client[d], call'[d] = call[d], seen'[d] = seen[d]
    PROVE  Keeps(d)
BY DEF ShownInv, Placed, Keeps

LEMMA AllKeep ==
    ASSUME IInv, ShownInv, KindsStay, UNCHANGED <<db, row, seen>>,
           up' \in [Servers -> BOOLEAN], faults' \in 0 .. MaxFaults,
           \A d \in Clients : Keeps(d)
    PROVE  ShownInv'
<1>1. \A d \in Clients : Placed(d)' /\ Verifies(d)'
    BY ClientKeeps DEF Keeps
<1>2. Rows'
    BY RowsStay
<1>3. db' \in Store!Tables
    BY DEF ShownInv
<1>4. (Store!Tables)' = Store!Tables
    BY DEF Store!Tables, Store!Book, Store!PublisherLiteral
<1>5. Servers' = Servers
    BY DEF Servers
<1> QED BY <1>1, <1>2, <1>3, <1>4, <1>5 DEF ShownInv

LEMMA FaultIsCounted ==
    ASSUME ShownInv, Fault \/ UNCHANGED faults
    PROVE  faults' \in 0 .. MaxFaults
<1>1. \A f, g, m : m \in Nat /\ f \in 0 .. m /\ f < m /\ g = f + 1 => g \in 0 .. m
    OBVIOUS
<1> QED BY <1>1, ClientsAssumption DEF ShownInv, Fault

\* A step of one client's call: the clients, the tables and their history stay.
LEMMA CallMoves ==
    ASSUME IInv, ShownInv, NEW c \in Clients, UNCHANGED <<client, db, up, row, seen>>,
           Fault \/ UNCHANGED faults,
           \A d \in Clients \ {c} : call'[d] = call[d],
           ~Finished(c), client[c].status # "off",
           call'[c].stage = "half" => ServerOf(c) = "info",
           \/ call'[c].stage = "answered" => call'[c].outcome.code # "OK"
           \/ client[c].kind # "grpc" \/ client[c].at # 2
    PROVE  ShownInv'
<1>1. KindsStay
    BY DEF KindsStay
<1>2. Keeps(c)
    BY DEF Keeps, ShownInv, Placed
<1>3. \A d \in Clients \ {c} : Keeps(d)
    BY Same
<1>4. up' \in [Servers -> BOOLEAN]
    BY DEF ShownInv
<1>5. faults' \in 0 .. MaxFaults
    BY FaultIsCounted
<1>6. \A d \in Clients : Keeps(d)
    BY <1>2, <1>3
<1> QED BY <1>1, <1>4, <1>5, <1>6, AllKeep

\* The status of a client changes, and its call is kept or lost.
LEMMA StatusMoves ==
    ASSUME IInv, ShownInv, NEW c \in Clients, NEW s \in {"running", "dead"},
           Status(c, s), Orphan(c), UNCHANGED <<db, up, row, seen>>,
           Fault \/ UNCHANGED faults
    PROVE  ShownInv'
<1>1. /\ \A d \in Clients \ {c} : client'[d] = client[d]
      /\ client'[c] = [client[c] EXCEPT !.status = s]
    BY DEF IInv, Shape, Status
<1>2. client'[c] = [kind |-> client[c].kind, at |-> client[c].at, status |-> s,
                   verified |-> client[c].verified]
    BY <1>1 DEF IInv, Shape
<1>3. KindsStay
    BY <1>1, <1>2 DEF KindsStay
<1>4. /\ \A d \in Clients \ {c} : call'[d] = call[d]
      /\ call'[c] \in {call[c], Idle}
    BY DEF Orphan, Set, IInv, Shape
<1>5. Keeps(c)
    <2>1. Placed(c)
        BY DEF ShownInv
    <2>2. Idle.stage = "idle"
        BY DEF Idle
    <2>3. CASE call'[c] = call[c]
        BY <1>2, <2>1, <2>3 DEF Keeps, Placed
    <2>4. CASE call'[c] = Idle
        BY <1>2, <2>1, <2>2, <2>4 DEF Keeps, Placed
    <2> QED BY <1>4, <2>3, <2>4
<1>6. \A d \in Clients \ {c} : Keeps(d)
    BY <1>1, <1>4, Same
<1>7. up' \in [Servers -> BOOLEAN] /\ faults' \in 0 .. MaxFaults
    BY FaultIsCounted DEF ShownInv
<1>8. \A d \in Clients : Keeps(d)
    BY <1>5, <1>6
<1> QED BY <1>3, <1>7, <1>8, AllKeep

LEMMA ServersMove ==
    ASSUME IInv, ShownInv, NEW s \in Servers, Crash(s) \/ Restart(s)
    PROVE  ShownInv'
<1>1. UNCHANGED <<client, db, row, seen>> /\ (Fault \/ UNCHANGED faults)
    BY DEF Crash, Restart
<1>2. up' \in [Servers -> BOOLEAN]
    BY DEF Crash, Restart, ShownInv
<1>3. ASSUME NEW d \in Clients PROVE Keeps(d)
    <2>1. Placed(d)
        BY DEF ShownInv
    <2>2. call'[d] = call[d] \/ (call'[d] = Broken /\ call[d] # Idle)
        BY DEF Crash, Restart, AtServer
    <2>3. Broken.stage = "broken"
        BY DEF Broken
    <2>4. CASE call'[d] = call[d]
        BY <1>1, <2>4, Same
    <2>5. CASE call'[d] = Broken /\ call[d] # Idle
        BY <1>1, <2>1, <2>3, <2>5 DEF Placed, Keeps
    <2> QED BY <2>2, <2>4, <2>5
<1>4. KindsStay
    BY <1>1 DEF KindsStay
<1> QED BY <1>1, <1>2, <1>3, <1>4, FaultIsCounted, AllKeep

LEMMA SendMoves ==
    ASSUME IInv, ShownInv, NEW c \in Clients, Send(c)
    PROVE  ShownInv'
<1>1. /\ UNCHANGED <<client, db, up, faults, row, seen>> /\ ~Finished(c)
      /\ client[c].status = "running"
    BY DEF Send, Running
<1>2. PICK k : Set(c, k) /\ k.stage \in {"broken", "sent"}
    BY DEF Send, Broken, Sent
<1>3. /\ \A d \in Clients \ {c} : call'[d] = call[d]
      /\ call'[c] = k
    BY <1>2 DEF Set, IInv, Shape
<1> QED BY <1>1, <1>2, <1>3, CallMoves

\* A gRPC client that is not at the end of its list asks the books server.
LEMMA GrpcAtBooks ==
    ASSUME IInv, ShownInv, NEW c \in Clients, client[c].kind = "grpc", ~Finished(c)
    PROVE  /\ ServerOf(c) = "books" /\ ~OverRest(c) /\ ~IsShell(c)
           /\ client[c].at \in 1 .. 5
           /\ Method(c) = "ListBooks" <=> client[c].at = 2
<1>1. Script[client[c].kind] = GrpcClient /\ Len(GrpcClient) = 5
    BY GrpcMethods
<1>2. client[c].at \in 1 .. 5
    <2>1. client[c].at \in 1 .. 6 /\ ~(client[c].at > 5)
        BY <1>1 DEF ShownInv, Placed, Finished
    <2> QED BY <2>1
<1>3. Current(c) = GrpcClient[client[c].at]
    BY <1>1 DEF Current
<1>4. ~OverRest(c) /\ ~IsShell(c)
    BY DEF OverRest, IsShell
<1>5. Method(c) \in DOMAIN BookService /\ (Method(c) = "ListBooks" <=> client[c].at = 2)
    BY <1>2, <1>3, GrpcCalls DEF Method
<1> QED BY <1>2, <1>4, <1>5 DEF ServerOf

LEMMA AtCall ==
    ASSUME ShownInv, NEW c \in Clients, call[c].stage \in {"sent", "half", "answered", "broken"}
    PROVE  ~Finished(c) /\ client[c].status # "off"
<1>1. call[c] # Idle
    BY DEF Idle
<1> QED BY <1>1 DEF ShownInv, Placed

LEMMA InfoMoves ==
    ASSUME IInv, ShownInv, NEW c \in Clients, InfoGetBook(c) \/ InfoGetReviews(c)
    PROVE  ShownInv'
<1>1. /\ UNCHANGED <<client, db, up, faults, row, seen>>
      /\ call[c].stage \in {"sent", "half"} /\ ServerOf(c) = "info"
    BY DEF InfoGetBook, InfoGetReviews, Receiving, ShownInv, Placed
<1>2. ~Finished(c) /\ client[c].status # "off"
    BY <1>1, AtCall
<1>3. client[c].kind # "grpc"
    BY <1>1, <1>2, GrpcAtBooks
<1>4. \A d \in Clients \ {c} : call'[d] = call[d]
    <2>1. ASSUME NEW k, Set(c, k) PROVE \A d \in Clients \ {c} : call'[d] = call[d]
        BY <2>1 DEF Set, IInv, Shape
    <2>2. \/ \E k : Set(c, k)
          \/ \E code, message : Finish(c, Outcome(code, message))
        BY DEF InfoGetBook, InfoGetReviews
    <2>3. ASSUME NEW code, NEW message, Finish(c, Outcome(code, message))
          PROVE  \A d \in Clients \ {c} : call'[d] = call[d]
        BY <2>3, FinishCall
    <2> QED BY <2>1, <2>2, <2>3
<1> QED BY <1>1, <1>2, <1>3, <1>4, CallMoves

LEMMA FailsMoves ==
    ASSUME IInv, ShownInv, NEW c \in Clients, ExecuteFails(c)
    PROVE  ShownInv'
<1>1. /\ UNCHANGED <<client, db, up, row, seen>> /\ Fault
      /\ call[c].stage = "sent" /\ ServerOf(c) # "info"
      /\ Finish(c, Failed(Method(c), Received(c))) \/ Finish(c, Panic)
    BY DEF ExecuteFails, Receiving
<1>2. ~Finished(c) /\ client[c].status # "off"
    BY <1>1, AtCall
<1>3. PICK code, message :
        /\ Finish(c, Outcome(code, message))
        /\ Method(c) = "ListBooks" => code # "OK"
    <2>1. Method(c) = "ListBooks" => Failed(Method(c), Received(c)) = Outcome("Unknown", Nil)
        BY DEF Failed
    <2>2. Method(c) # "ListBooks" =>
            \E message : Failed(Method(c), Received(c)) = Outcome("OK", message)
        BY DEF Failed
    <2>3. Panic = Outcome("panic", Nil)
        BY DEF Panic
    <2> QED BY <1>1, <2>1, <2>2, <2>3
<1>4. /\ \A d \in Clients \ {c} : call'[d] = call[d]
      /\ call'[c].stage \in {"answered", "broken"}
      /\ ~OverRest(c) /\ code # "OK" =>
           (call'[c].stage = "answered" => call'[c].outcome.code # "OK")
    BY <1>3, FinishCall
<1>5. client[c].kind = "grpc" /\ client[c].at = 2 =>
        (call'[c].stage = "answered" => call'[c].outcome.code # "OK")
    BY <1>2, <1>3, <1>4, GrpcAtBooks
<1> QED BY <1>1, <1>2, <1>4, <1>5, CallMoves

LEMMA StallMoves ==
    ASSUME IInv, ShownInv, NEW c \in Clients, Stall(c)
    PROVE  ShownInv'
<1>1. /\ UNCHANGED <<client, db, up, row, seen>> /\ Fault
      /\ call[c].stage = "sent" /\ Set(c, Stalled)
    BY DEF Stall, Receiving
<1>2. ~Finished(c) /\ client[c].status # "off"
    BY <1>1, AtCall
<1>3. /\ \A d \in Clients \ {c} : call'[d] = call[d]
      /\ call'[c].stage = "stalled"
    BY <1>1 DEF Set, IInv, Shape, Stalled
<1> QED BY <1>1, <1>2, <1>3, CallMoves

LEMMA StartMoves ==
    ASSUME IInv, ShownInv, NEW c \in Clients, Start(c)
    PROVE  ShownInv'
<1>1. PICK s \in {"running", "dead"} : Status(c, s)
    BY DEF Start
<1>2. Orphan(c) /\ UNCHANGED <<db, up, row, seen>> /\ (Fault \/ UNCHANGED faults)
    BY DEF Start, Orphan
<1> QED BY <1>1, <1>2, StatusMoves

LEMMA ReceiveMoves ==
    ASSUME IInv, ShownInv, NEW c \in Clients, Receive(c)
    PROVE  ShownInv'
<1>1. /\ UNCHANGED <<db, up, faults, row, seen>> /\ Set(c, Idle)
      /\ client[c].status = "running" /\ call[c].stage \in {"answered", "broken"}
    BY DEF Receive, Running
<1>2. CASE IsError(c) /\ ~IsShell(c)
    <2>1. Status(c, "dead") /\ Orphan(c)
        BY <1>1, <1>2 DEF Receive, Orphan
    <2> QED BY <1>1, <2>1, StatusMoves
<1>3. CASE ~(IsError(c) /\ ~IsShell(c))
    <2>0. ~Finished(c)
        BY <1>1, AtCall
    <2> DEFINE v == \/ client[c].verified
                    \/ /\ client[c].kind = "grpc" /\ Method(c) = "ListBooks"
                       /\ FoundIn(call[c].outcome.message)
    <2>1. client' = [client EXCEPT ![c].at = @ + 1, ![c].verified = v]
        <3>1. client' = [client EXCEPT
                ![c].at = @ + 1,
                ![c].verified =
                    \/ @
                    \/ /\ client[c].kind = "grpc" /\ Method(c) = "ListBooks"
                       /\ Found(ReadResponse("ListBooks", call[c].outcome.message).books)]
            BY <1>3 DEF Receive
        <3>2. client[c] = [kind |-> client[c].kind, at |-> client[c].at,
                           status |-> client[c].status, verified |-> client[c].verified]
            BY DEF IInv, Shape
        <3> QED BY <3>1, <3>2 DEF FoundIn
    <2>2. PICK w : w = v
        OBVIOUS
    <2>3. client' = [client EXCEPT ![c].at = @ + 1, ![c].verified = w]
        BY <2>1, <2>2
    <2> HIDE DEF v
    <2>4. /\ \A d \in Clients \ {c} : client'[d] = client[d]
          /\ client'[c] = [client[c] EXCEPT !.at = @ + 1, !.verified = w]
        BY <2>3 DEF IInv, Shape
    <2>5. client'[c] = [kind |-> client[c].kind, at |-> client[c].at + 1,
                       status |-> client[c].status, verified |-> w]
        BY <2>4 DEF IInv, Shape
    <2>6. KindsStay
        BY <2>4, <2>5 DEF KindsStay
    <2>7. \A d \in Clients \ {c} : call'[d] = call[d]
        BY <1>1 DEF Set, IInv, Shape
    <2>8. call'[c] = Idle /\ Idle.stage = "idle"
        BY <1>1 DEF Set, IInv, Shape, Idle
    <2>9. \A d \in Clients \ {c} : Placed(d)' /\ Verifies(d)'
        <3>1. \A d \in Clients \ {c} : Keeps(d)
            BY <1>1, <2>4, <2>7, Same
        <3> QED BY <2>6, <3>1, ClientKeeps DEF Keeps
    <2>10. Placed(c)'
        <3>1. /\ client[c].at \in 1 .. Len(Script[client[c].kind]) + 1
              /\ ~(client[c].at > Len(Script[client[c].kind]))
            BY <2>0 DEF ShownInv, Placed, Finished
        <3>2. \A a, n : a \in 1 .. n + 1 /\ ~(a > n) /\ n \in Int => a + 1 \in 1 .. n + 1
            OBVIOUS
        <3>3. client[c].at + 1 \in 1 .. Len(Script[client[c].kind]) + 1
            <4>1. client[c].kind \in {"grpc", "rest", "grpcurl", "curl"}
                BY DEF IInv, Shape, Kinds, Script
            <4>2. Len(Script[client[c].kind]) \in Int
                BY <4>1, GrpcMethods, RestMethods, GrpcurlMethods, CurlMethods
            <4> QED BY <3>1, <3>2, <4>2
        <3>4. Script' = Script
            BY DEF Script
        <3> QED BY <1>1, <2>5, <2>8, <3>3, <3>4 DEF Placed, Idle
    <2>11. ASSUME client[c].kind = "grpc" PROVE Verifies(c)'
        <3>1. /\ ServerOf(c) = "books" /\ ~OverRest(c) /\ ~IsShell(c)
              /\ client[c].at \in 1 .. 5
              /\ Method(c) = "ListBooks" <=> client[c].at = 2
            BY <2>0, <2>11, GrpcAtBooks
        <3>2. GotAnswer(c)
            BY <1>1, <1>3, <3>1 DEF IsError, GotAnswer
        <3>3. /\ client[c].verified \in BOOLEAN
              /\ client[c].at <= 2 => ~client[c].verified
              /\ client[c].at > 2 => (client[c].verified <=> Fresh(seen[c]))
              /\ client[c].at = 2 => (FoundIn(call[c].outcome.message) <=> Fresh(seen[c]))
            BY <2>11, <3>2 DEF ShownInv, Verifies
        <3>4. w \in BOOLEAN
            BY <2>2 DEF v
        <3>5. w <=> client[c].verified
                     \/ (client[c].at = 2 /\ FoundIn(call[c].outcome.message))
            BY <2>2, <2>11, <3>1 DEF v
        <3>6. Fresh(seen[c])' <=> Fresh(seen[c])
            <4>1. IsRow(seen[c])
                BY DEF ShownInv, Rows
            <4> QED BY <1>1, <2>6, <4>1 DEF KindsStay, IsRow, Fresh
        <3>7. \A a \in 1 .. 5 : /\ a + 1 <= 2 => a <= 2 /\ a # 2
                                /\ a + 1 > 2 => a = 2 \/ a > 2
                                /\ a = 2 => a <= 2
            OBVIOUS
        <3>8. client'[c].at = client[c].at + 1 /\ client'[c].verified = w
            BY <2>5
        <3>9. client'[c].at <= 2 => ~w
            BY <3>1, <3>3, <3>5, <3>7, <3>8
        <3>10. client'[c].at > 2 => (w <=> Fresh(seen[c]))
            BY <3>1, <3>3, <3>5, <3>7, <3>8
        <3>11. ~GotAnswer(c)'
            BY <2>8 DEF GotAnswer
        <3> QED BY <3>4, <3>6, <3>8, <3>9, <3>10, <3>11 DEF Verifies
    <2>12. Verifies(c)'
        BY <2>5, <2>11 DEF Verifies
    <2>13. \A d \in Clients : Placed(d)' /\ Verifies(d)'
        BY <2>9, <2>10, <2>12
    <2>14. Rows'
        BY <1>1, <2>6, RowsStay
    <2>15. /\ (Store!Tables)' = Store!Tables /\ Servers' = Servers
           /\ db \in Store!Tables /\ up \in [Servers -> BOOLEAN] /\ faults \in 0 .. MaxFaults
        BY DEF Store!Tables, Store!Book, Store!PublisherLiteral, Servers, ShownInv
    <2> QED BY <1>1, <2>13, <2>14, <2>15 DEF ShownInv
<1> QED BY <1>2, <1>3

\* ListBooks answers with the row there is, and the client will look for it.
LEMMA ListMoves ==
    ASSUME IInv, ShownInv, NEW c \in Clients, Execute(c),
           client[c].kind = "grpc", client[c].at = 2
    PROVE  Placed(c)' /\ Verifies(c)'
<1>1. /\ UNCHANGED client /\ call[c].stage = "sent" /\ RecordRow(c)
      /\ \E req \in {Received(c)} : Finish(c, Outcome("OK", Answer(Method(c), req, db)))
    BY DEF Execute, Receiving
<1>2. ~Finished(c) /\ client[c].status # "off"
    BY <1>1, AtCall
<1>3. ~OverRest(c) /\ Method(c) = "ListBooks"
    BY <1>2, GrpcAtBooks
<1>4. Finish(c, Outcome("OK", [books |-> BookMessages(db)]))
    BY <1>1, <1>3 DEF Answer
<1>5. PICK m : m = Response("ListBooks", [books |-> BookMessages(db)])
    OBVIOUS
<1>6. call'[c] = Answered([code |-> "OK", message |-> m, logged |-> "OK"])
    BY <1>3, <1>4, <1>5, FinishCall
<1>7. call'[c].stage = "answered" /\ call'[c].outcome.message = m
    BY <1>6 DEF Answered
<1>8. FoundIn(m) <=> HoldsAtomicHabits(db)
    <2>1. ReadResponse("ListBooks", m).books = BookMessages(db)
        BY <1>5, ListArrives
    <2>2. Found(BookMessages(db)) <=> HoldsAtomicHabits(db)
        BY FoundMeansHeld DEF ShownInv
    <2> QED BY <2>1, <2>2 DEF FoundIn
<1>9. FoundIn(call[c].outcome.message)' <=> FoundIn(m)
    BY <1>7
<1>10. seen'[c] = row
    BY <1>1, <1>3 DEF RecordRow, ShownInv, Rows
<1>11. Fresh(seen[c])' <=> Fresh(row)
    <2>1. IsRow(row)
        BY DEF ShownInv, Rows
    <2> QED BY <1>1, <1>10, <2>1 DEF IsRow, Fresh
<1>12. Placed(c)'
    <2>1. Placed(c)
        BY DEF ShownInv
    <2>2. Script' = Script /\ (Finished(c)' <=> Finished(c))
        BY <1>1 DEF Script, Finished
    <2> QED BY <1>1, <1>2, <1>7, <2>1, <2>2 DEF Placed
<1>13. client[c].verified \in BOOLEAN /\ ~client[c].verified
    BY DEF ShownInv, Verifies
<1>14. Fresh(row) <=> HoldsAtomicHabits(db)
    BY DEF ShownInv, Rows
<1> QED BY <1>1, <1>8, <1>9, <1>11, <1>12, <1>13, <1>14 DEF Verifies

LEMMA ExecuteMoves ==
    ASSUME IInv, ShownInv, NEW c \in Clients, Execute(c)
    PROVE  ShownInv'
<1>1. /\ UNCHANGED <<client, up, faults>> /\ call[c].stage = "sent" /\ RecordRow(c)
      /\ \E message : Finish(c, Outcome("OK", message))
    BY DEF Execute, Receiving
<1>2. ~Finished(c) /\ client[c].status # "off"
    BY <1>1, AtCall
<1>3. /\ \A d \in Clients \ {c} : call'[d] = call[d]
      /\ call'[c].stage \in {"answered", "broken"}
    BY <1>1, FinishCall
<1>4. KindsStay
    BY <1>1 DEF KindsStay
<1>5. /\ \A d \in Clients \ {c} : seen'[d] = seen[d]
      /\ client[c].kind # "grpc" \/ Method(c) # "ListBooks" => seen'[c] = seen[c]
    BY <1>1 DEF RecordRow, ShownInv, Rows
<1>6. \A d \in Clients \ {c} : Placed(d)' /\ Verifies(d)'
    <2>1. \A d \in Clients \ {c} : Keeps(d)
        BY <1>1, <1>3, <1>5, Same
    <2> QED BY <1>4, <2>1, ClientKeeps DEF Keeps
<1>7. Placed(c)' /\ Verifies(c)'
    <2>1. CASE client[c].kind = "grpc" /\ client[c].at = 2
        BY <2>1, ListMoves
    <2>2. CASE client[c].kind # "grpc" \/ client[c].at # 2
        <3>1. seen'[c] = seen[c]
            BY <1>2, <1>5, <2>2, GrpcAtBooks
        <3>2. client[c].status \in {"off", "running", "dead"}
            BY DEF ShownInv, Placed
        <3> QED BY <1>1, <1>2, <1>3, <1>4, <2>2, <3>1, <3>2, ClientKeeps
    <2> QED BY <2>1, <2>2
<1>8. Rows'
    BY ExecuteRows
<1>9. db' \in Store!Tables
    BY ExecuteRow
<1>10. /\ (Store!Tables)' = Store!Tables /\ Servers' = Servers
       /\ up \in [Servers -> BOOLEAN] /\ faults \in 0 .. MaxFaults
    BY DEF Store!Tables, Store!Book, Store!PublisherLiteral, Servers, ShownInv
<1>11. \A d \in Clients : Placed(d)' /\ Verifies(d)'
    BY <1>6, <1>7
<1> QED BY <1>1, <1>8, <1>9, <1>10, <1>11 DEF ShownInv

LEMMA InitShown == Init => ShownInv
<1> SUFFICES ASSUME Init PROVE ShownInv
    OBVIOUS
<1>1. PICK kind \in Crews : client = [c \in Clients |->
            [kind |-> kind[c], at |-> 1, status |-> "off", verified |-> FALSE]]
    BY DEF Init
<1>2. \A c \in Clients : kind[c] \in Kinds
    BY <1>1, CrewsAssumption
<1>3. ASSUME NEW c \in Clients
      PROVE  /\ client[c] = [kind |-> kind[c], at |-> 1, status |-> "off",
                             verified |-> FALSE]
             /\ call[c] = Idle /\ seen[c] = NoRow
    BY <1>1 DEF Init
<1>4. /\ db.books = [i \in Isbns |-> Seed(i)] /\ db.reviews = [i \in Isbns |-> <<>>]
      /\ db = [books |-> db.books, reviews |-> db.reviews]
    BY DEF Init, NoRows
<1>5. db \in Store!Tables
    <2>1. db.books \in [Isbns -> Store!Book \union {NoBook}]
        BY <1>4, ContentsAssumption DEF ContentsAssumption
    <2>2. db.reviews \in [Isbns -> Seq(Reviews)]
        <3>1. <<>> \in Seq(Reviews)
            OBVIOUS
        <3> QED BY <1>4, <3>1
    <2> QED BY <1>4, <2>1, <2>2 DEF Store!Tables
<1>6. ~HoldsAtomicHabits(db)
    <2>1. Seed(12348) = NoBook
        BY DEF Seed
    <2>2. 12348 \in Isbns
        BY ClientsAssumption
    <2> QED BY <1>4, <2>1, <2>2 DEF HoldsAtomicHabits, Store!Stored
<1>7. Rows
    <2>1. row = NoRow /\ seen = [c \in Clients |-> seen[c]]
        BY DEF Init
    <2>2. \A c \in Clients : IsRow(seen[c])
        BY <1>3, NothingFresh
    <2> QED BY <1>6, <2>1, <2>2, NothingFresh DEF Rows
<1>8. ASSUME NEW c \in Clients PROVE Placed(c) /\ Verifies(c)
    <2>1. /\ client[c].kind = kind[c] /\ client[c].at = 1 /\ client[c].status = "off"
          /\ client[c].verified \in BOOLEAN /\ ~client[c].verified /\ call[c] = Idle
        <3>1. PICK k : k = kind[c]
            OBVIOUS
        <3>2. client[c] = [kind |-> k, at |-> 1, status |-> "off", verified |-> FALSE]
            BY <1>3, <3>1
        <3>3. /\ client[c].kind = k /\ client[c].at = 1 /\ client[c].status = "off"
              /\ client[c].verified = FALSE
            BY <3>2
        <3>4. call[c] = Idle
            BY <1>3
        <3> QED BY <3>1, <3>3, <3>4
    <2>2. \A n : n \in Nat => 1 \in 1 .. n + 1
        OBVIOUS
    <2>3. client[c].kind \in {"grpc", "rest", "grpcurl", "curl"}
        BY <1>2, <2>1 DEF Kinds, Script
    <2>4. Len(Script[client[c].kind]) \in Nat
        BY <2>3, GrpcMethods, RestMethods, GrpcurlMethods, CurlMethods
    <2>5. Placed(c)
        BY <2>1, <2>2, <2>4 DEF Placed, Idle
    <2>6. Verifies(c)
        <3>1. ~(client[c].at > 2) /\ client[c].at # 2
            BY <2>1
        <3> QED BY <2>1, <3>1 DEF Verifies
    <2> QED BY <2>5, <2>6
<1>9. up \in [Servers -> BOOLEAN] /\ faults \in 0 .. MaxFaults
    BY ClientsAssumption DEF Init
<1> QED BY <1>5, <1>7, <1>8, <1>9 DEF ShownInv

LEMMA NextShown == IInv /\ ShownInv /\ [Next]_vars => ShownInv'
<1> SUFFICES ASSUME IInv, ShownInv, [Next]_vars PROVE ShownInv'
    OBVIOUS
<1>1. ASSUME NEW c \in Clients, ClientStep(c) PROVE ShownInv'
    <2>1. CASE Start(c)
        BY <2>1, StartMoves
    <2>2. CASE Send(c)
        BY <2>2, SendMoves
    <2>3. CASE Receive(c)
        BY <2>3, ReceiveMoves
    <2>4. CASE Timeout(c)
        BY <2>4, StatusMoves DEF Timeout
    <2> QED BY <1>1, <2>1, <2>2, <2>3, <2>4 DEF ClientStep
<1>2. ASSUME NEW c \in Clients, Handle(c) PROVE ShownInv'
    BY <1>2, ExecuteMoves, InfoMoves DEF Handle
<1>3. ASSUME NEW c \in Clients, Kill(c) PROVE ShownInv'
    BY <1>3, StatusMoves DEF Kill
<1>4. ASSUME NEW c \in Clients, ExecuteFails(c) PROVE ShownInv'
    BY <1>4, FailsMoves
<1>5. ASSUME NEW c \in Clients, Stall(c) PROVE ShownInv'
    BY <1>5, StallMoves
<1>6. ASSUME NEW s \in Servers, Crash(s) \/ Restart(s) PROVE ShownInv'
    BY <1>6, ServersMove
<1>7. CASE UNCHANGED vars
    <2>1. \A d \in Clients : Keeps(d)
        BY <1>7, Same DEF vars
    <2>2. KindsStay /\ UNCHANGED <<db, up, faults, row, seen>>
        BY <1>7 DEF vars, KindsStay
    <2> QED BY <2>1, <2>2, AllKeep DEF ShownInv
<1> QED BY <1>1, <1>2, <1>3, <1>4, <1>5, <1>6, <1>7 DEF Next

-------------------------------------------------------------------------------

\* The tables stay well formed whatever the clients send and whichever statement
\* fails, and a call in flight is at its place in its client's list.
THEOREM TypeCorrect == Spec => []TypeOK
<1>1. IInv /\ ShownInv => TypeOK
    BY DEF IInv, Shape, Cleaned, ShownInv, Placed, TypeOK
<1> QED BY InitIInv, NextIInv, InitShown, NextShown, <1>1, PTL DEF Spec

\* The gRPC client prints "verified" exactly when the row that was listed was inserted
\* by a gRPC client, not necessarily itself, and not updated since: nobody else adds
\* that book, and every update of it changes its name.
THEOREM VerifiedIsFresh == Spec => []VerifiedMeansFreshRow
<1>1. ShownInv => VerifiedMeansFreshRow
    BY DEF ShownInv, Verifies, Fresh, VerifiedMeansFreshRow
<1> QED BY InitIInv, NextIInv, InitShown, NextShown, <1>1, PTL DEF Spec
===============================================================================
