-------------------------------- MODULE BooksApp --------------------------------
(***************************************************************************)
(* The Go servers of books-app over one database: grpc-books-server,       *)
(* rest-books-server, grpc-review-server, and grpc-book-info-server, which *)
(* asks the first and the third one after the other.  Each session is a    *)
(* client that issues one call at a time; a call of the first three is one *)
(* SQL statement, GetBookInfoWithReviews is two with a gap between them.   *)
(***************************************************************************)
EXTENDS BookStore

CONSTANTS Sessions,
          MaxReviews   \* bound on the reviews of one book

ASSUME ConstantsAssumption ==
    /\ NoBook \notin Book
    /\ MaxReviews \in Nat

VARIABLES
    db,      \* the tables
    call,    \* what a session's call does and the isbn it is about
    answer,  \* the last answer of a session
    removed  \* history, read by properties only: sessions whose last
             \* GetBookInfoWithReviews lost its book between the two reads

vars == <<db, call, answer, removed>>

NoCall == [op |-> "none"]
NoAnswer == [op |-> "none"]

Init ==
    /\ db \in SeededTables
    /\ call = [s \in Sessions |-> NoCall]
    /\ answer = [s \in Sessions |-> NoAnswer]
    /\ removed = {}

Free(s) == call[s] = NoCall

Answer(s, a) == answer' = [answer EXCEPT ![s] = a]

\* The statement changes the tables, or the database reports an error (a lost
\* connection, a value too long for its column) that the repository ignores.
Statement(new) ==
    /\ db' = new \/ db' = db
    /\ removed' = removed \union
         {s \in Sessions : /\ call[s].op = "info"
                           /\ Stored(db, call[s].isbn) /\ ~Stored(db', call[s].isbn)}

-------------------------------------------------------------------------------
(* grpc-books-server, and the same operations of rest-books-server: POST and   *)
(* PUT /books, GET and DELETE /books/{isbn}. They claim success in any case.   *)

Done(s, op, i, b) ==
    /\ Answer(s, [op |-> op, isbn |-> i, book |-> b])
    /\ UNCHANGED call

AddBookCall(s) ==
    /\ Free(s)
    /\ \E i \in Isbns, b \in [name : Names, publisher : Publishers] :
         Statement(AddBook(db, i, b)) /\ Done(s, "added", i, b)

UpdateBookCall(s) ==
    /\ Free(s)
    /\ \E i \in Isbns, b \in [name : Names, publisher : Publishers] :
         Statement(UpdateBook(db, i, b)) /\ Done(s, "updated", i, b)

RemoveBookCall(s) ==
    /\ Free(s)
    /\ \E i \in Isbns :
         Statement(RemoveBook(db, i)) /\ Done(s, "removed", i, ZeroBook)

\* A failed query leaves the zero book, as a missing row does.
GetBookCall(s) ==
    /\ Free(s)
    /\ \E i \in Isbns : \E b \in {GetBook(db, i), ZeroBook} : Done(s, "book", i, b)
    /\ UNCHANGED <<db, removed>>

\* ListBooks reports an error of the database; the REST list also reports an
\* empty table as one (404).
ListBooksCall(s) ==
    /\ Free(s)
    /\ \/ Answer(s, [op |-> "list", isbns |-> GetAllBooks(db)])
       \/ Answer(s, [op |-> "error"])
    /\ UNCHANGED <<db, call, removed>>

-------------------------------------------------------------------------------
(* grpc-review-server. *)

SubmitReviewsCall(s) ==
    /\ Free(s)
    /\ \E i \in Isbns, r \in Reviews :
         /\ Len(db.reviews[i]) < MaxReviews
         /\ Statement(AddReview(db, i, r))
         /\ Answer(s, [op |-> "submitted", isbn |-> i, review |-> r])
    /\ UNCHANGED call

GetBookReviewsCall(s) ==
    /\ Free(s)
    /\ \E i \in Isbns : \E rs \in {GetAllReviews(db, i), <<>>} :
         Answer(s, [op |-> "reviews", isbn |-> i, reviews |-> rs])
    /\ UNCHANGED <<db, call, removed>>

-------------------------------------------------------------------------------
(* grpc-book-info-server: GetBook, then GetBookReviews; an error of either    *)
(* call is the answer, and a lost backend is such an error.                   *)

InfoGetBook(s) ==
    /\ Free(s)
    /\ \E i \in Isbns : \E b \in {GetBook(db, i), ZeroBook} :
         call' = [call EXCEPT ![s] = [op |-> "info", isbn |-> i, book |-> b]]
    /\ removed' = removed \ {s}
    /\ UNCHANGED <<db, answer>>

InfoGetReviews(s) ==
    /\ call[s].op = "info"
    /\ \E rs \in {GetAllReviews(db, call[s].isbn), <<>>} :
         Answer(s, [op |-> "info", isbn |-> call[s].isbn, book |-> call[s].book,
                    reviews |-> rs])
    /\ call' = [call EXCEPT ![s] = NoCall]
    /\ UNCHANGED <<db, removed>>

InfoFails(s) ==
    /\ call[s].op = "info"
    /\ Answer(s, [op |-> "error"])
    /\ call' = [call EXCEPT ![s] = NoCall]
    /\ UNCHANGED <<db, removed>>

-------------------------------------------------------------------------------

SessionStep(s) ==
    \/ AddBookCall(s) \/ UpdateBookCall(s) \/ RemoveBookCall(s)
    \/ GetBookCall(s) \/ ListBooksCall(s)
    \/ SubmitReviewsCall(s) \/ GetBookReviewsCall(s)
    \/ InfoGetBook(s) \/ InfoGetReviews(s) \/ InfoFails(s)

Next == \E s \in Sessions : SessionStep(s)

Spec == Init /\ [][Next]_vars

-------------------------------------------------------------------------------
(* Properties. *)

InfoCall == [op : {"info"}, isbn : Isbns, book : Book \union {ZeroBook}]

TypeOK ==
    /\ db \in Tables
    /\ call \in [Sessions -> {NoCall} \union InfoCall]
    /\ removed \subseteq Sessions
    /\ DOMAIN answer = Sessions
    /\ \A s \in Sessions :
         answer[s].op = "info" =>
            answer[s].isbn \in Isbns /\ answer[s].reviews \in Seq(Reviews)

Begins(short, long) == Len(short) <= Len(long) /\ SubSeq(long, 1, Len(short)) = short

\* Every review is about a stored book, whichever servers add and remove.
ReviewsHaveBooks == \A i \in Isbns : db.reviews[i] # <<>> => Stored(db, i)

\* A book with a review is there to stay, and so are its reviews: a removal that
\* the server reports as successful leaves both.
ReviewedBooksStay ==
    [][\A i \in Isbns : db.reviews[i] # <<>> =>
          Stored(db', i) /\ Begins(db.reviews[i], db'.reviews[i])]_vars

\* What the two reads of GetBookInfoWithReviews show is not one state of the
\* tables, but reviews it shows are never outdated: their book is stored and they
\* still head its reviews, whatever other sessions did since, or between the reads.
InfoReviewsLast ==
    \A s \in Sessions :
        answer[s].op = "info" /\ answer[s].reviews # <<>> =>
            /\ Stored(db, answer[s].isbn)
            /\ Begins(answer[s].reviews, db.reviews[answer[s].isbn])

\* The row of i is still row, or what updates have made of it.
RowOf(i, row) ==
    /\ Stored(db, i)
    /\ \/ db.books[i] = row
       \/ \E b \in Book : db.books[i] = UpdateBook([db EXCEPT !.books[i] = row], i, b).books[i]

\* A book-info answer with a book and reviews shows them together only if they belong
\* together: the reviews are about the very row it shows, at most outdated by updates,
\* from then on. The one exception is a book removed between the two reads, whose isbn
\* another session has added again: then the answer is one book with another's reviews.
InfoIsOneBook ==
    \A s \in Sessions :
        /\ Free(s) /\ s \notin removed
        /\ answer[s].op = "info" /\ answer[s].book # ZeroBook /\ answer[s].reviews # <<>>
        => RowOf(answer[s].isbn, answer[s].book)

\* test/grpcurl-commands.sh:21-22: "update a book" with "publisher": "new publisher".
\* A stored book has the publisher an update asked for once the update changed it.
UpdateStoresPublisher ==
    [][\A s \in Sessions, i \in Isbns :
          /\ UpdateBookCall(s) /\ answer'[s].isbn = i
          /\ db'.books[i] # db.books[i]
          => db'.books[i].publisher = answer'[s].book.publisher]_vars
===============================================================================
