--------------------------------- MODULE CsBooks ---------------------------------
(***************************************************************************)
(* books-app in C#: the books and review servers over one SQLite file, and *)
(* their clients.  A repository method throws when its statement fails or  *)
(* has no row to work on, an interceptor makes every exception status      *)
(* Aborted, and a client ends with the first such status it does not       *)
(* expect.  Only UpdateBook looks at nothing: it starts two statements,    *)
(* without an isbn, and awaits neither.                                    *)
(***************************************************************************)
EXTENDS Naturals, Sequences

CONSTANTS Runs,         \* the clients
          RunKinds,     \* what a client may be, see Kinds
          NoRow,        \* marks an isbn without a row, and a row without an owner
          MaxMishaps    \* bound on failed statements, kills and crashes

VARIABLES
    books,      \* the table of books; reviewCount: the rows about 12348 in the other
    reviewCount,
    hostUp,     \* the server processes that run
    run,        \* a client: its kind, place in its calls, status, and what it saw
    rpc,        \* its call in flight
    mishaps,
    owner,      \* history: who inserted the row of 12348
    removals    \* history: who removed whose row

csBooksVars == <<books, reviewCount, hostUp, run, rpc, mishaps, owner, removals>>

-------------------------------------------------------------------------------
(* The clients' calls. *)

Volume(name) == [name |-> name, publisher |-> "random house business books"]

Volume1 == Volume("atomic habits")
Volume2 == Volume("atomic habits vol-2")
Volume3 == Volume("atomic habits vol-3")

\* The first call is refused for its empty name, which the client expects.
BooksProgram ==
    <<"AddInvalid", "AddBook", "ListBooks", "UpdateBook", "GetBook", "RemoveBook">>

ReviewProgram == <<"SubmitReviews", "SubmitReviews", "GetBookReviews">>

Calls == [books |-> BooksProgram, reviews |-> ReviewProgram]

ASSUME CsBooksAssumption ==
    /\ RunKinds \subseteq [Runs -> DOMAIN Calls \union {"none"}]
    /\ NoRow \notin Runs \union {Volume1, Volume2, Volume3}
    /\ MaxMishaps \in Nat

IsBooksRun(c) == run[c].kind = "books"

Active(c) == run[c].status = "running"

Over(c) == run[c].at > Len(Calls[run[c].kind])

Doing(c) == Calls[run[c].kind][run[c].at]

Quiet == [stage |-> "idle"]

Reply(code, row) == [stage |-> "answered", code |-> code, row |-> row]

SetRpc(c, r) == rpc' = [rpc EXCEPT ![c] = r]

Mishap == mishaps < MaxMishaps /\ mishaps' = mishaps + 1

\* The file that the repository holds.
StoredBooks ==
    [[i \in {12346, 12347, 12348} |-> NoRow] EXCEPT ![12346] = Volume3, ![12347] = Volume2]

CsBooksInit ==
    /\ books = StoredBooks
    /\ reviewCount = 2
    /\ hostUp = {"books", "reviews"}
    /\ \E kind \in RunKinds :
         run = [c \in Runs |-> [kind |-> kind[c], at |-> 1, status |-> "off",
                                listed |-> NoRow, shown |-> NoRow, missed |-> {}]]
    /\ rpc = [c \in Runs |-> Quiet]
    /\ mishaps = 0
    /\ owner = NoRow
    /\ removals = {}

-------------------------------------------------------------------------------
(* The clients. *)

StartRun(c) ==
    /\ run[c].kind # "none" /\ run[c].status = "off"
    /\ run' = [run EXCEPT ![c].status = "running"]
    /\ UNCHANGED <<books, reviewCount, hostUp, rpc, mishaps, owner, removals>>

\* A call of a server that is down fails.
MakeCall(c) ==
    /\ Active(c) /\ ~Over(c) /\ rpc[c] = Quiet
    /\ SetRpc(c, IF run[c].kind \in hostUp THEN [stage |-> "sent"]
                 ELSE Reply("Unavailable", NoRow))
    /\ UNCHANGED <<books, reviewCount, hostUp, run, mishaps, owner, removals>>

Unexpected(c) == rpc[c].code # "OK" /\ Doing(c) # "AddInvalid"

AfterReply(c) ==
    IF Unexpected(c) THEN [run[c] EXCEPT !.status = "dead"]
    ELSE [run[c] EXCEPT !.at = @ + 1,
                        !.listed = IF Doing(c) = "ListBooks" THEN rpc[c].row ELSE @,
                        !.shown = IF Doing(c) = "GetBook" THEN rpc[c].row ELSE @]

TakeReply(c) ==
    /\ Active(c) /\ rpc[c].stage = "answered"
    /\ run' = [run EXCEPT ![c] = AfterReply(c)]
    /\ SetRpc(c, Quiet)
    /\ UNCHANGED <<books, reviewCount, hostUp, mishaps, owner, removals>>

\* The call in flight may go on without its client, or never reach the server.
KillRun(c) ==
    /\ Mishap /\ Active(c)
    /\ run' = [run EXCEPT ![c].status = "dead"]
    /\ UNCHANGED rpc \/ SetRpc(c, Quiet)
    /\ UNCHANGED <<books, reviewCount, hostUp, owner, removals>>

-------------------------------------------------------------------------------
(* The books server. *)

InHand(c, name) == rpc[c].stage = "sent" /\ Doing(c) = name

Answers(c, row) == SetRpc(c, Reply("OK", row))

\* UniqueExceptionInterceptor: whatever the books server throws, InvalidArgument too.
Throws(c) == SetRpc(c, Reply(IF IsBooksRun(c) THEN "Aborted" ELSE "Unknown", NoRow))

HasRow == books[12348] # NoRow

RefuseBook(c) ==
    /\ InHand(c, "AddInvalid")
    /\ Throws(c)
    /\ UNCHANGED <<books, reviewCount, hostUp, run, mishaps, owner, removals>>

\* Mutant: a repository that overwrites the row that is there.
InsertBookAnyway(c) ==
    /\ InHand(c, "AddBook")
    /\ books' = [books EXCEPT ![12348] = Volume1]
    /\ owner' = c
    /\ Answers(c, NoRow)
    /\ UNCHANGED <<reviewCount, hostUp, run, mishaps, removals>>

\* A second row for the isbn violates the primary key.
InsertBook(c) ==
    /\ InHand(c, "AddBook")
    /\ IF HasRow THEN Throws(c) /\ UNCHANGED <<books, owner>>
       ELSE /\ books' = [books EXCEPT ![12348] = Volume1]
            /\ owner' = c
            /\ Answers(c, NoRow)
    /\ UNCHANGED <<reviewCount, hostUp, run, mishaps, removals>>

\* ListBooks answers every row; the client looks for that of 12348.
QueryBooks(c) ==
    /\ InHand(c, "ListBooks") \/ (InHand(c, "GetBook") /\ HasRow)
    /\ Answers(c, books[12348])
    /\ UNCHANGED <<books, reviewCount, hostUp, run, mishaps, owner, removals>>

\* First throws without a row, and so does SaveChanges when it removed none.
NoSuchBook(c) ==
    /\ InHand(c, "GetBook") \/ InHand(c, "RemoveBook")
    /\ ~HasRow
    /\ Throws(c)
    /\ UNCHANGED <<books, reviewCount, hostUp, run, mishaps, owner, removals>>

DeleteBook(c) ==
    /\ InHand(c, "RemoveBook") /\ HasRow
    /\ books' = [books EXCEPT ![12348] = NoRow]
    /\ owner' = NoRow
    /\ removals' = removals \union {<<c, owner>>}
    /\ Answers(c, NoRow)
    /\ UNCHANGED <<reviewCount, hostUp, run, mishaps>>

\* SQLite runs what is called asynchronous when it is called: the statements of
\* UpdateBook follow each other, both on every row, and each may fail unseen.
SetEveryRow(field) ==
    books' = [i \in DOMAIN books |->
        IF books[i] = NoRow THEN NoRow ELSE [books[i] EXCEPT ![field] = Volume2[field]]]

OrFails(c, field) ==
    \/ SetEveryRow(field) /\ UNCHANGED <<run, mishaps>>
    \/ /\ Mishap
       /\ run' = [run EXCEPT ![c].missed = @ \union {field}]
       /\ UNCHANGED books

UpdateNames(c) ==
    /\ InHand(c, "UpdateBook")
    /\ OrFails(c, "name")
    /\ SetRpc(c, [stage |-> "half"])
    /\ UNCHANGED <<reviewCount, hostUp, owner, removals>>

UpdatePublishers(c) ==
    /\ rpc[c].stage = "half"
    /\ OrFails(c, "publisher")
    /\ Answers(c, NoRow)
    /\ UNCHANGED <<reviewCount, hostUp, owner, removals>>

\* SaveChanges or a query fails.
StatementThrows(c) ==
    /\ Mishap
    /\ rpc[c].stage = "sent" /\ Doing(c) \notin {"AddInvalid", "UpdateBook"}
    /\ Throws(c)
    /\ UNCHANGED <<books, reviewCount, hostUp, run, owner, removals>>

-------------------------------------------------------------------------------
(* The review server, whose table has no foreign key. *)

SubmitReviewsCs(c) ==
    /\ InHand(c, "SubmitReviews")
    /\ reviewCount' = reviewCount + 1
    /\ Answers(c, NoRow)
    /\ UNCHANGED <<books, hostUp, run, mishaps, owner, removals>>

GetBookReviewsCs(c) ==
    /\ InHand(c, "GetBookReviews")
    /\ Answers(c, reviewCount)
    /\ UNCHANGED <<books, reviewCount, hostUp, run, mishaps, owner, removals>>

-------------------------------------------------------------------------------

\* AddBook ends its process for the isbn 0, which any caller may send. An answer may
\* have left before.
HostExits ==
    /\ Mishap /\ "books" \in hostUp
    /\ hostUp' = hostUp \ {"books"}
    /\ \E left \in SUBSET {c \in Runs : rpc[c].stage = "answered"} :
         rpc' = [c \in Runs |-> IF IsBooksRun(c) /\ rpc[c] # Quiet /\ c \notin left
                                THEN Reply("Unavailable", NoRow) ELSE rpc[c]]
    /\ UNCHANGED <<books, reviewCount, run, owner, removals>>

HostStarts ==
    /\ hostUp' = hostUp \union {"books"} /\ hostUp' # hostUp
    /\ UNCHANGED <<books, reviewCount, run, rpc, mishaps, owner, removals>>

CsBooksNext ==
    \/ \E c \in Runs :
         \/ StartRun(c) \/ MakeCall(c) \/ TakeReply(c) \/ KillRun(c)
         \/ RefuseBook(c) \/ InsertBook(c) \/ QueryBooks(c) \/ NoSuchBook(c) \/ DeleteBook(c)
         \/ UpdateNames(c) \/ UpdatePublishers(c) \/ StatementThrows(c)
         \/ SubmitReviewsCs(c) \/ GetBookReviewsCs(c)
    \/ HostExits \/ HostStarts

-------------------------------------------------------------------------------
(* Properties. *)

CsBooksTypeOK ==
    /\ books \in [{12346, 12347, 12348} -> {NoRow, Volume1, Volume2, Volume3}]
    /\ reviewCount \in Nat
    /\ hostUp \subseteq {"books", "reviews"}
    /\ HasRow <=> owner \in Runs
    /\ mishaps \in 0 .. MaxMishaps
    /\ removals \subseteq Runs \X Runs
    /\ \A c \in Runs :
         /\ run[c].kind \in {"books", "reviews", "none"}
         /\ run[c].status \in {"off", "running", "dead"}
         /\ run[c].kind # "none" => run[c].at \in 1 .. Len(Calls[run[c].kind]) + 1
         /\ run[c].kind = "none" => rpc[c] = Quiet

\* The primary key keeps the runs of the client apart, crashes and late calls included.
\* From the answer to its AddBook to its RemoveBook the row of 12348 is that of the run,
\* no matter who else runs, so it verifies its own book, and is shown its own update,
\* which comes from two statements on every row, unless a statement failed unseen. A
\* run only removes its own row; so the row of one that ended halfway stays for good,
\* and all later runs end at AddBook. Nothing else ends a run on its way.
RowBelongsToItsRun ==
    /\ \A r \in removals : r[1] = r[2]
    /\ \A c \in Runs :
         IsBooksRun(c) =>
            /\ run[c].at \in 3 .. 6 /\ <<c, c>> \notin removals => owner = c
            /\ run[c].at > 3 => run[c].listed = Volume1
            /\ run[c].at > 5 =>
                 run[c].shown = IF "name" \in run[c].missed THEN Volume1 ELSE Volume2
            /\ run[c].at > 2 /\ run[c].status = "dead" => mishaps > 0
===============================================================================
