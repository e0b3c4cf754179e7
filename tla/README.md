# Modern API Design with gRPC: a verification project

TLA+ models of the programs in this repository, model-checked with TLC on small
instances and, where noted, proved with TLAPS for every value of the constants.
The repository is a collection of example systems from a book, in Go and in C#:
a book catalogue (`books-app`), streaming services (`chapter-4`), authentication
servers (`chapter-7`), a load-balancing gateway (`loadbalancing`) and
serialization examples (`chapter-2`). All paths below are relative to `src/`.

Run a check with `tlc -config X.cfg MCModule` and a proof with `tlapm Module.tla`.

## Inventory

### books-app, Go

| Component | State | Operations | What makes it correct |
|---|---|---|---|
| gRPC books server (`internal/apps/grpc-books-server`) | none of its own; the tables `books`, `reviews` in PostgreSQL | AddBook, UpdateBook, ListBooks, GetBook, RemoveBook | an answer of success means the row is what was asked for; no review loses its book |
| REST books server (`internal/apps/rest-books-server`, `internal/pkg/service`) | the same tables | GET/POST/PUT `/books`, GET/DELETE `/books/{isbn}` | the same |
| review server (`internal/apps/grpc-review-server`) | the same tables | SubmitReviews, GetBookReviews | reviews are about stored books and are not lost |
| book-info server (`internal/apps/grpc-book-info-server`) | two client connections | GetBookInfoWithReviews: a call to the books server, then one to the review server | what the two reads show fits together |
| repository (`internal/pkg/repo/book.go`) | - | one SQL statement per method; no method but GetAllBooks reports an error | - |
| start-up (`Start` of the four servers, `internal/pkg/db`, `internal/pkg/db/migrations`) | version row, dirty flag and advisory lock of golang-migrate | connect, migrate, serve | each migration is applied once; the server knows whether the schema is complete; a start ends |
| clients (`grpc-books-client`, `rest-books-client`, the scripts under `test/`) | their place in a fixed list of calls; whether the added book was found | the calls, the verification of the listed book, the timeout of the REST client | a run ends; it leaves nothing behind; what it prints is so |
| interceptors (`internal/pkg/middleware`) | - | logging outside, recovery inside | every call is logged with the code its caller gets |
| configuration (`internal/pkg/configs`) | a configuration cached by `once.Do` | read once by a process | - |
| generated code (`internal/pkg/proto`) | - | messages, getters, encoding, methods | what is received is what was sent |

The servers share nothing but the database and run concurrently, several calls at
a time. Hard: statements that fail unseen, removals against the foreign key, the
gap between the two reads of the book-info server, several servers migrating at
once, crashes between the steps of a migration, a database that goes away, and
calls that are carried out after their client has ended.

### books-app, C#

| Component | State | Operations | What makes it correct |
|---|---|---|---|
| book-info server (`csharp/GrpcBookInfoServer`) | one circuit breaker: flag, failure count, lock, reset tasks; per call an attempt counter and a deadline | GetBookInfoWithReviews = Execute(WithRetry(GetBook; GetBookReviews)) | calls are rejected exactly while failures are on record; an open breaker closes again, and not too early |
| books server, review server, repository (`csharp/GrpcBooksServer`, `csharp/GrpcReviewServer`, `csharp/Repo`) | tables in one SQLite file | as in Go; an exception becomes status Aborted (books) or Unknown (reviews) | a client's row is its own until it removes it; updates take effect before the answer |
| clients (`csharp/GrpcBooksClient`, `csharp/GrpcReviewClient`) | their place in a fixed list of calls | the calls; the first status that is not expected ends them | a run is shown what it did |

Hard: the breaker's flag is read without the lock, every failure starts a reset
task of its own, retries sleep for longer than the deadline lasts; an update is
two statements on every row that nobody awaits.

### chapter-4

| Component | State | Operations | What makes it correct |
|---|---|---|---|
| REST Fibonacci server and polling client (`apps/rest-fibonacci-*`) | map request id -> store (no lock); per store a lock, the numbers not yet fetched, the last index | poll (create store and start worker, read and clear, delete at the end), worker writes | each number reaches the client once and in order; the end is announced; requests do not disturb each other |
| gRPC max server and client, Go (`apps/grpc-max-*`) | per stream: max shared by two goroutines, a channel of one place | receive, report every two seconds | reports are maxima of what was received; a stream ends without harm to others |
| average and gRPC Fibonacci, Go (`apps/grpc-average-*`, `apps/grpc-fibonacci-*`) | per stream a sum and a count | client stream; unary call and server stream | the right answer for every stream, and no caller harms another |
| average, Fibonacci and max, C# (`csharp/*`) | the same; a stop flag, a task that reports, the write in progress | the same | messages arrive in order, and only those are missing that were refused |

Hard: numbers that leave the int32 range, empty streams, callers that disappear,
processes that one call ends, writes to a stream that nobody awaits.

### loadbalancing

| Component | State | Operations | What makes it correct |
|---|---|---|---|
| gateway (`internal/app/greetclient`) | one connection per pod it knows | dial at the start, one gRPC call per request; a failed call ends the process | few requests are lost when pods come and go; new pods get a share |
| greet server (`internal/app/greetserver`) | the age of its connections | Greet; ends a connection after five minutes | - |

### chapter-7, chapter-2

JWT login server, role table and interceptor; basic authentication, TLS and
mutual TLS (configuration); serialization benchmarks without state.

`PROJECT.json` lists every component with its status, and under "hazards" what in
this code is hard to test, at its line.

## Plan

1. **Done**: circuit breaker (abstract and detailed), REST Fibonacci, Go max
   stream, Go books servers, start-up and migrations; then the wire format and the
   messages, the Go clients of books-app (`BooksClients`), the Go average and
   Fibonacci services (`NumberStreams`), the gateway (`Gateway`), the C# streaming
   services (`CsStreams`), the C# books servers and clients (`CsBooks`); proofs of
   every invariant and every action property that a passing run checks of these.
2. **JwtAuth**: a token carries a role and an end of its life 15 minutes after the
   login (JwtAuthService.cs), which is checked on the clock of another process,
   while the client goes on using the token.
3. **Composition**: the breaker over the C# books and review servers, so that the
   backends' answers are those of the tables.
4. **Proofs** of what the modules of 2 and 3 promise.

## Modules

| Module | Models | Extends |
|---|---|---|
| `Breaker` | what a caller is promised of the circuit breaker (abstract) | |
| `CircuitBreaker` | `GrpcBookInfoServer`: breaker, retry, deadline, reset tasks | |
| `RestFibonacci` | asynchronous endpoint, workers, polling clients | |
| `MaxStream` | Go FindMax and its clients | |
| `BookStore` | the two tables and the repository methods, as operators | |
| `BooksApp` | the four Go servers over `BookStore`, called by anybody | `BookStore` |
| `ServerStartup` | Start, migrations, crashes and outages | |
| `Wire` | generated messages, their getters and what travels for them | |
| `BookProto`, `NumberProto`, `GreetProto` | the messages and services of books-app, chapter 4 and loadbalancing | `Wire` |
| `BooksClients` | the Go clients and test scripts, calls in flight, interceptors, crashes | `BookProto`; `BookStore` as an instance |
| `FixedWidth` | int32 arithmetic | |
| `NumberStreams` | Go average and Fibonacci servers and clients | `NumberProto`, `FixedWidth` |
| `Gateway` | gateway, pods, connections | `GreetProto` |
| `CsStreams` | C# average, Fibonacci and max services and clients | `FixedWidth` |
| `CsBooks` | C# books and review servers, repository and clients | |
| `CircuitBreakerProofs`, `BooksAppProofs`, `ServerStartupProofs`, `RestFibonacciProofs`, `WireProofs`, `BooksClientsProofs`, `MaxStreamProofs` | theorems | the module of that name, `TLAPS` |
| `CallsProofs` | theorems about `NumberStreams`, `Gateway`, `CsStreams` and `CsBooks` | `MCCalls`, `WireProofs` |
| `MC*` | the instances for TLC; `MCCalls` holds four systems that share nothing | |

Each specification has definitions marked "Mutant": plausible slips of one operation,
which `PROJECT.json` pairs with the property that must notice them. They are part of
no specification.

### CircuitBreaker

One call is one thread: `new`, `execute`, then attempts (`getBook`, `getReviews`,
`sleep`), `throw`, and one of `answered`, `failed`, `rejected`. `Admit` and
`Reject` are the unlocked read of `_open` (CircuitBreaker.cs:16);
`GetBookAnswers`, `GetReviewsAnswers`, `AttemptFails` one attempt, in which a
backend answers or fails as it likes, except that GetBook cannot answer after the
deadline; `Wake` the end of the sleep of `WithRetry`; `RecordFailure` the
critical section of the catch block; `Reset` that of a reset task. A call fails at
most once, so its reset task carries its name. Time is in ticks: a timer counts
down to 0 and stays there, and what waits for it runs some time after, never
before. `openAge` and `stale` are history variables: how long the breaker has been
open and which reset tasks were already asleep when it opened.

The refinement maps `_failureCount` to the failures on record and the thread's
position to the outcome; attempts, sleeps, ticks and rejected deadlines stutter.

### RestFibonacci

Each access of a handler or worker to the map `asyncStores` is a step. A map write
has a beginning and an end; `RaceDetected` may end the process while one is under
way and another access happens, and need not: Go detects such races without
promising to. `Read` and `WorkerWrite` are atomic, since the store has a lock. A
nil store ends the connection in a handler (net/http recovers) and the process in
a worker. fib(i) is represented by i. `IdOf` and `RangeOf` are chosen once:
clients with equal ids are clients that bring their own `request-id` header; the
id a client gets from the middleware is its own.

### MaxStream

`Recv` and `Push` are the main loop of FindMax, `Load` and `Send` the goroutine
that sleeps and sends, with the read of `max` and the send apart. `log.Fatalf`
anywhere sets `up` to FALSE for all streams. The client is that of
`grpc-max-client.go` with any numbers, or another that sends none, and may be
killed at any point. It reads responses until `ClientRecvEOF` (the handler has
returned and all of them are read) or `ClientRecvError` (the server is gone).

### BookStore and BooksApp

A repository method is one SQL statement, so it is one operator on the pair of
tables and atomic. `Statement` lets it fail with no effect, since the methods drop
the error. A session is a client of any server that issues one call at a time;
`GetBookInfoWithReviews` is two steps, `InfoGetBook` and then `InfoGetReviews` or
`InfoFails`. The tables start with any rows of the seed file and no reviews. The
conversions between `model.Book`, `model.DBBook` and the messages copy their
fields; requests that a handler refuses before the repository (bad JSON, a bad
isbn) change nothing and are left out.

`removed` is history: the sessions whose book was removed between their two reads. A
book and reviews that are shown together (`InfoIsOneBook`) are about the same row, which
updates may have changed since the first read, except for these sessions. Their answer
may well be torn: one session reads the book, another removes it, adds a different one
under the isbn and reviews that, and the first session shows the old book with the new
review. Without the exception TLC finds this answer after five steps.

### ServerStartup

`pc` follows `Start`: `connect` (ProvideDBConn), `prepare` (ProvideMigrator, which
creates the version table under the lock), `up`, `check`, `mark`, `run`, `clear`
(the steps of Up), `serving`. golang-migrate (v4.16.2 in `go.mod`) and PostgreSQL
are external: an advisory lock that its session's end releases, a version row
marked dirty before a file and cleared after it, a file committed as one
transaction whose acknowledgement may be lost, a lock request that `Up` gives up
on after its timeout while the goroutine that made it goes on waiting
(`LateLock`). A server crashes and is started again at any point; the database
stops and restarts.

### Wire and the messages

A message type maps the names of its fields to their numbers and kinds, a message
is a record of Go values, and `Encode` keeps the fields that are not zero, by
number. `Decode` is `Unmarshal`: a field that did not travel is zero. `Get` is a
generated getter, which answers for a nil message too. The bytes (varints, lengths)
are left out, and so is the table of descriptors. `Request`, `ReadRequest`,
`Response` and `ReadResponse` are what a stub and a handler do with a message.

### BooksClients

A client is of one of four kinds, each a list of calls taken from its source:
`grpc` and `rest` (the two programs), `grpcurl` and `curl` (the two scripts). A
program ends at its first error, a script goes on. A call is in flight on its own
and is `idle`, `sent`, `half` (the book-info server between its two reads),
`stalled` (a statement that waits), `answered` or `broken`. `Execute` is one handler
with its statement; `ExecuteFails` a statement that fails or a handler that panics,
with the interceptors around it; `Timeout` the second after which the REST client
gives up; `Orphan` says that the request of a client that ended may be carried out
all the same. `Crash` and `Restart` are those of a server process. A fault is a
failed statement, a panic, a stall, a kill, a crash or a missing configuration.
`row`, `seen` and `removed` are history: who inserted the row of 12348 and whether
it was updated since, what of that a ListBooks was shown, and whose RemoveBook was
carried out.

`BooksApp` asks what any sequence of calls can do to the tables; `BooksClients`
asks what these programs, with calls that outlive them, do to each other.

### NumberStreams

`job` is what a caller is asked to do, `caller` its place, `stream` the two channels
of its call and the locals of its handler, `serving` the processes that run.
`Open`, `SendNumber`, `CloseAndRecv` and the `Read*` actions are the clients;
`Recv`, `RecvEOF` and `RecvError` the loop of FindAverage; `SyncFibonacci` and
`AsyncFibonacci` the other two handlers. `Dies` is the end of a server process
(log.Fatalf, or a panic: no interceptor recovers here), which breaks every call of it;
an answer that has left the process still arrives. Any error ends a client but that
of a Send, which it ignores. Numbers are brought into the range of an int32
(`Int32Bound`) where the code converts or adds int32; the sum of FindAverage is an int
and is not.

### Gateway

`conn` is what the gRPC library of the gateway knows of each pod. `Pick` is the
round-robin choice, over any ready connection; `Greet` the handler; `Fail` the
log.Fatalf of doUnary, which ends the gateway with all its requests. Kubernetes
(`PodStarts`, `PodStops`, `GatewayStarts`) and the library (`Resolve`, `Connect`)
are external: a library that loses a connection or fails to make one looks the name
up again, and nothing else makes it do so. `MaxConnectionAge` is the keep-alive
setting of greetserver. A pod that is stopped ends at once, since greetserver
handles signals only after Serve has returned.

### CsStreams

An exception ends a call and never the server, so calls do not meet, and one
program is enough. `WriteAsync` is external (Grpc.Net.Client and Grpc.AspNetCore
2.70): a write is refused while the last one is in progress, `CompleteAsync` too,
and the task that says so is looked at by nobody; the message in progress when a
method ends is delivered. `FindMax` and its task (`RespondLoop`, `RespondWakes`,
`RespondWrites`) share `isResponding` and `max`; the read of `max` and the write are
apart. Every program prints every response; of the reports of FindMax, which only grow,
`printed` keeps the last. `lost`, `refused` and `asleep` are history.

### CsBooks

The primary key acts as a lock: the row of 12348 admits one run of the books client
at a time, and a run that ends halfway leaves it locked. `InsertBook`, `QueryBooks`,
`NoSuchBook` and `DeleteBook` are the handlers with their exceptions; `Throws` is the
interceptor, which makes every exception an Aborted (the review server has none, and
the library answers Unknown). `UpdateNames` and `UpdatePublishers` are the two
statements of UpdateBook, each on every row and each able to fail unseen; SQLite
runs statements that are called asynchronously when they are called, so they are in
order, but another call comes between them. The initial rows are those of `book.db`,
the file in the repository, whose rows all have the same publisher. `HostExits` is
the `Environment.Exit` of AddBook for the isbn 0. `owner`, `removals`, and in `run` the
rows `listed` and `shown` and the statements `missed`, are history.

## Runs

| Run | Question | Bounds | Result |
|---|---|---|---|
| `breaker` | flag, counter, deadlines, early closing, recovery, refinement | 3 calls, 1 with a deadline, threshold 1 (Program.cs:10), 3 attempts, sleep 2, open 5, deadline 1 | holds, 24,433 states |
| `breaker_five_seconds` | does an open breaker stay open for 5 seconds? | 3 calls | **violated** |
| `rest_fibonacci` | are numbers lost or repeated; what may take a store away | 2 clients, ids chosen from 2, ranges 0 to 2, 2 stores | holds, 525,080 states |
| `rest_fibonacci_end` | does the client's loop end? | 1 client | **violated** |
| `max_stream` | are reports maxima; what ends a stream and the process | 2 streams of 0, 1 or 3 numbers | holds, 383,423 states |
| `max_stream_channel` | does a maximum reach the sending goroutine? | 1 stream | **violated** |
| `books_app` | integrity of the tables; which book and reviews the two reads of book info show together | 2 sessions, 1 isbn, 2 names, publishers and reviews | holds, 636,984 states |
| `books_app_update` | does an update store the publisher? | 1 isbn, 2 sessions | **violated** |
| `startup` | version row against schema, what "no change" means, dirty flags, hanging starts | 2 servers, 2 files, 2 starts each, 1 outage | holds, 10,610 states |
| `startup_log` | does "applied successfully" mean applied? | 2 servers | **violated** |
| `books_clients` | what the clients print, leave behind, log and wait for | 2 clients of any two of four kinds, 1 fault | holds, 151,403 states |
| `calls` | four systems, one in each behaviour: what callers get, what ends a process and whom it takes along, whose row is whose | 2 Go callers, 4-bit integers, 1 kill; 3 pods (as in the deployment), 2 requests, 2 stops; 1 C# streaming program, 1 report under way; 2 C# clients, 2 mishaps | holds, 174,593 states |

Why the bounds are enough for what they show. Breaker: the closing of a breaker by
a stale task needs a failure, a reset between, and a second failure with a third
task to spare, hence three calls; one deadlined call suffices as deadlines do not
interact. Fibonacci over REST: every conflict is between two requests or a request
and one worker; the range 0 is the only one whose end is announced, 1 and 2 tell the
first number from the last. Max: the channel is full after one number and blocks at
the second, so three numbers pass every state of it; two streams show what one
does to the other. Books: no statement touches two isbns, so one is enough for two
sessions to contend. Start-up: two servers race for the lock, two files tell the
last from the others, and a second start sees what a crash left. Clients: their
lists are fixed and complete, two of them contend for the one row that is added, and
one fault leaves a row behind for the other to find. Streams in Go: with 4 bits an
int32 is -8 to 7, so 7 + 7 leaves the range, 8 becomes negative and fib(6) = 8
wraps; two callers show what one does to the other. Gateway: with two stops a pod
can be lost while a first loss is being repaired, and a third pod is left to serve.
C# streams: a refused number, an unrefused one after it and the end need three
writes. C# books: one mishap leaves a row behind, a second one meets the run that
finds it.

The five violated runs are listed under "findings" with the line of the document,
comment, script or message that they contradict.

### Fairness

- `CircuitBreaker`: weak fairness of the clock, of each call and of each reset
  task: threads and tasks are scheduled, and a backend call ends, with an answer or
  an exception. That a client calls at all is not assumed.
- `RestFibonacci`: weak fairness of each client, handler and worker (goroutines are
  scheduled; the client's loop has no exit but the two in its code). A race is
  never forced to be detected.
- `MaxStream`: weak fairness of the goroutines on both sides. A client is not
  assumed to open a stream or to be killed.
- `ServerStartup`: weak fairness of a server that is starting. Neither the
  database nor the operator is assumed to start anything, and a late lock is not
  assumed to be granted.
- `BooksClients`: weak fairness of each client and of the handler of its call. No
  server is assumed to be restarted, no stalled statement to end, no fault to happen.
- `NumberStreams`: weak fairness of each caller and handler.
- `Gateway`: weak fairness of name lookups, connection attempts and the age limit of
  connections, which are timers of the libraries. No pod is assumed to start.
- `CsStreams`: weak fairness of each program, reader, method and report task, and of
  the end of a write that is in progress.
- `BooksApp`, `CsBooks`: none; only safety is stated.

Deadlock checking is off in the runs whose programs may stop: all clients done, a
dead server process, or no start left.

## Proofs

`CircuitBreakerProofs`, from `ConstantsAssumption` (the settings are natural
numbers, the threshold and the attempts positive, the deadline no longer than the
retry interval - 1 s and 2 s in GrpcBookInfoService.cs:27,40), for any set of calls:

- `TypeCorrect`, `FlagAgreesWithCount`, `OpenBreakerWillReset`: one invariant. The
  flag and the counter change in the same critical sections; what keeps a task
  alive is that the failure that opens the breaker starts one and a task ends only
  by closing the breaker.
- `RetriesOfDeadlinedCallsAreVain`: the strengthening says that a deadlined call
  that is past its first attempt, or sleeps before it, has less time to its
  deadline than it has to sleep.
- `OnlyStaleTasksCloseEarly`: the strengthening says that a task that is not stale
  sleeps at least for what `openAge` lacks to `OpenTime`.
- `ImplementsBreaker`: the safety part of `RefinesBreaker`, one step per action.

`BooksAppProofs`, for any sessions, isbns, names, publishers and reviews, from
`NoBook \notin Book`:

- `ReviewsAlwaysHaveBooks`, `ReviewedBooksAlwaysStay`: each repository method keeps the
  tables well formed and sound and only extends the reviews of a book (`GoodStep`),
  proved once per method.
- `ShownReviewsLast`, `TypeCorrect`: an answer of the book-info server is a
  beginning of the reviews at the time of its second read, and `GoodStep` keeps
  beginnings.
- `ShownTogetherBelongTogether`: `InfoIsOneBook` on top of it. Between the two reads the
  row that was read is still there, or the session is in `removed` (`Pending`): a row
  that stays is only updated. After them the reviews keep the row from being removed
  (`Shown`), so that what was shown together goes on belonging together.

`ServerStartupProofs`, for any servers, migration files, starts and outages, from
`ConstantsAssumption`:

- `TypeCorrect`, `NoFileTwice`: one invariant. Whoever migrates has a
  live session and holds the lock, so there is one such server at most, and its place
  in the file under way (about to mark it, running it, about to clear the flag) says
  what the version row and the count of runs must be. The properties alone are not
  inductive: they say nothing of a server between two of its steps.
- `DirtyStays`: a file is stuck when the flag is set and no live session is running the
  file or about to clear the flag. By the invariant nobody is then about to mark a file
  either, so no step changes the version row or the schema; and a server comes to one of
  these places only through `Check`, which ends the migration when it reads the flag, with
  the lock in hand (`NobodyEnters`).

`RestFibonacciProofs`, for any clients, ids and ranges:

- `TypeCorrect`, `NumbersArriveOnce`, `StoresAreNotTaken`: one invariant, whose main
  part says that a client with an id of its own has no store yet or has one for ever,
  and that what it received, what its handler carries and what is in the store are
  together the numbers its worker wrote. The index of the last number stays below the
  range, so the end is only signalled for the range 0, and the entry of an id whose
  requests agree on a range above 0 is never removed.

`WireProofs`, for any message types of the kinds of this repository:

- `RoundTrip`: `Decode(T, Encode(T, m)) = m` for every well-formed message, that is
  one with the fields of its type, whose field numbers are distinct and whose messages
  nest one level deep.

`BooksClientsProofs`, for any clients and faults, from the assumptions on the kinds of
clients and with `RoundTrip`:

- `EveryCallLogged`: the outcome of a gRPC call is what the two interceptors made of
  what its handler did; the one that recovers runs first.
- `ClientsCleanUp`: a call in flight is at its client's place in its list, or its
  client has ended there, and in every list RemoveBook comes after AddBook (`Lists`);
  so a client whose RemoveBook was carried out inserts no more.
- `TypeCorrect`, `VerifiedIsFresh`: a second invariant on top. The row of 12348 is the
  book that the gRPC client looks for exactly when a gRPC client inserted it and nobody
  updated it since: nobody else adds that book (`AddedBooks`), and UpdateBook stores the
  word "publisher" as the name of whatever it updates (`RowIsUpdated`). What the client
  finds is decided when ListBooks is carried out: the list holds the row (`FoundInList`)
  and arrives as it was sent (`ListArrives`).

`MaxStreamProofs`, for any streams, numbers and channel sizes:

- `TypeCorrect`, `ResponsesAreMaxima`, `EndedStreamsFit`: one invariant. What the client
  got last, what is on its way and what the reporting goroutine has loaded are, in this
  order, maxima of longer and longer beginnings of the numbers, none longer than what the
  handler has taken; and the handler has put all it took into the channel, where nothing
  takes it out, so a stream that ends has no more numbers than places.

`CallsProofs`, for any callers, pods, programs and runs, any width of an int32, and any
bounds. The four systems of `MCCalls` share nothing, so each has an invariant of its own;
the lemma `SideBySide` carries what is proved of each over to where all of them run, as
`TypesOfAll` does for the types.

- `OnlyCallersKillServers` (Go streams): the numbers counted by FindAverage and those
  under way are the numbers sent as long as the call runs, and a stream that was closed has
  been sent all of them, so that a count of 0 at the end means that there were none. What
  a Fibonacci handler decodes is what its caller encoded (`RoundTrip`).
- `AveragesAreOfAllNumbers`, `FibonacciNumbersInOrder`, `StreamsTypes`: in addition, the
  sum is that of the counted numbers, the queue holds the rest in order, and what is
  printed and what is under way are together the first Fibonacci numbers. The average
  of int32 numbers fits an int32, though their sum may not.
- `EachStopKillsOnce`, `GatewayTypes`: a ready connection leads to a pod that runs, and
  requests are those of a gateway that is up. Once every stop has had its death and the
  gateway is up, it is connected or connecting to a pod that runs, and no request has
  failed (`Paid`): the balancer waits for that pod instead of failing a call.
- `PrintedIsRight`, `ReportsGrow`, `CsStreamsTypes` (C# streams): the numbers a method has
  read and those in its queue are the numbers written but those refused; its sum is the
  sum of what it read, brought into the range once instead of at every step; the responses
  that are shown are in order and complete but for those refused; the reports shown, in
  progress and in `max` are maxima of longer and longer beginnings of what arrived, and
  when the task was asleep at the end of the numbers its next report covers them all.
- `RunsKeepApart`, `CsBooksTypes` (C# books): from AddBook to RemoveBook the row is the
  run's, because the primary key lets nobody else insert it and every other run that
  removes it has inserted it; hence what the run is shown is what its own statements left.

The assumptions say of the constants no more than the sources do: bounds are natural
numbers and settings positive; values that stand for "none" (nil, no book, no row) are
none of the values they are told from; the names and reviews in the clients' lists and in
the seed file are among those of the tables (`ContentsAssumption`).

The prover's library states induction for an operator, which its provers cannot
instantiate. Where the value of a recursive function is needed (the sums, the numbers that
arrive) `CallsProofs` derives induction over a set of numbers from the well-foundedness of
`<` (`SetInduction`).

Only model-checked: the liveness properties (`EventuallyCloses`, `EveryCallEnds`,
`GoodEndKillsServer`, `StartEnds`, `EveryRunEnds`, `EveryCallerEnds`, `NewPodIsFound`,
`EveryProgramEnds`) and the fairness part of `RefinesBreaker`: fairness and ENABLED are
out of the prover's reach.

## Met on the way

Behaviour that no document of the repository contradicts, which the models show or
had to take into account (paths below `src/`):

- `books-app/internal/apps/grpc-books-client/grpc-books-client.go:73-77` says that the
  book was fetched if its name and publisher are empty.
- `books-app/test/curl-commands.sh:14,24` send the isbn as a string, which the REST
  server answers with 400: the script adds and updates nothing.
- `books-app/internal/apps/rest-books-client/client-operations.go:60` asks for
  `/books/all`, which no route matches.
- `books-app/internal/apps/rest-books-server/handlers.go:35` calls `err.Error()` on nil
  for the isbn 0; net/http recovers and closes the connection.
- `loadbalancing/cmd/*/main.go` install their signal handlers after Start, which
  returns only when serving has ended.
- `books-app/csharp/Repo/BookRepository.cs:26` gives the name and publisher of one
  book to every row.
- Used by nothing: AddRequestID (Go), BooksService.cs, ErrorHandlerInterceptor and the
  public methods of GrpcReviewService that override none of its base (C#).

## Not modelled

- JWT login and authorization: planned. Basic authentication, TLS and mutual TLS:
  configuration and a stateless check of a header.
- Request ids, and the levels and fields of log lines: the id is empty everywhere and
  nothing depends on it.
- Serialization and size examples of chapter 2: benchmarks without state.
- Of the generated code: descriptors and the registration of types, which hold no
  behaviour of the programs; the messages of the max service, whose numbers
  `MaxStream` sends as they are.
- The C# gateways and greet server of loadbalancing: a call in a loop over a channel
  whose balancing is that of the library; no state of their own.
- PostgreSQL, SQLite, golang-migrate, Kubernetes and the gRPC libraries are modelled
  only as far as the code uses them, and marked external in `PROJECT.json`; the
  balancer may pick any ready connection.
- Everywhere: the wording of answers, the sizes of column values (a value that is too
  long is one way for a statement to fail), durations of computations and, in
  `RestFibonacci`, the values of the numbers.
