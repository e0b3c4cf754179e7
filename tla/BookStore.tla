------------------------------- MODULE BookStore -------------------------------
(***************************************************************************)
(* The tables of books-app (scripts/000001 to 000003) and the repository   *)
(* methods of the Go servers (internal/pkg/repo/book.go) as operators on   *)
(* the pair of tables.  Every method is one SQL statement, and none        *)
(* reports an error: a statement that a constraint rejects changes         *)
(* nothing and looks like a success.                                       *)
(***************************************************************************)
EXTENDS Naturals, Sequences

CONSTANTS Isbns, Names, Publishers, Reviews,
          NoBook,      \* marks an isbn without a row in books
          EmptyString  \* the zero value of a string

\* UpdateBook passes the COLUMN name "publisher" as the new value of name.
PublisherLiteral == "publisher"

Book == [name : Names \union {PublisherLiteral}, publisher : Publishers]

\* books: at most one row per isbn (primary key). reviews: any number per isbn.
Tables == [books : [Isbns -> Book \union {NoBook}], reviews : [Isbns -> Seq(Reviews)]]

\* What the migrations leave: any rows in books (000002 seeds three of the isbns
\* clients use) and no reviews.
SeededTables ==
    [books   : [Isbns -> [name : Names, publisher : Publishers] \union {NoBook}],
     reviews : {[i \in Isbns |-> <<>>]}]

Stored(db, i) == db.books[i] # NoBook

(* Mutants: slips that the properties of BooksApp must notice. *)

\* UpdateBook that writes an empty struct.
UpdateBookEmpty(db, i, b) ==
    IF Stored(db, i)
    THEN [db EXCEPT !.books[i] = [name |-> EmptyString, publisher |-> EmptyString]] ELSE db

\* AddBook that overwrites the row of a book already stored.
AddBookUpserts(db, i, b) == [db EXCEPT !.books[i] = b]

\* RemoveBook without the foreign key, and with ON DELETE CASCADE.
RemoveBookUnchecked(db, i) == [db EXCEPT !.books[i] = NoBook]

RemoveBookCascades(db, i) == [db EXCEPT !.books[i] = NoBook, !.reviews[i] = <<>>]

(* The repository. *)

\* A second row for the isbn violates the primary key.
AddBook(db, i, b) == IF Stored(db, i) THEN db ELSE [db EXCEPT !.books[i] = b]

UpdateBook(db, i, b) ==
    IF Stored(db, i) THEN [db EXCEPT !.books[i] = [@ EXCEPT !.name = PublisherLiteral]] ELSE db

\* A row that reviews refer to is kept by reviews_isbn_fkey.
RemoveBook(db, i) == IF db.reviews[i] = <<>> THEN [db EXCEPT !.books[i] = NoBook] ELSE db

\* A review of a book that is not stored violates reviews_isbn_fkey.
AddReview(db, i, r) ==
    IF Stored(db, i) THEN [db EXCEPT !.reviews[i] = Append(@, r)] ELSE db

\* First leaves the zero book when there is no row: GetBook always answers.
ZeroBook == [name |-> EmptyString, publisher |-> EmptyString]

GetBook(db, i) == IF Stored(db, i) THEN db.books[i] ELSE ZeroBook

GetAllBooks(db) == {i \in Isbns : Stored(db, i)}

GetAllReviews(db, i) == db.reviews[i]
===============================================================================
