----------------------------- MODULE BooksAppProofs -----------------------------
(* Theorems about BooksApp, for any number of sessions and books.              *)
EXTENDS BooksApp, TLAPS

-------------------------------------------------------------------------------
(* The repository: what one statement does to the tables. *)

Sound(d) == \A i \in Isbns : d.reviews[i] # <<>> => Stored(d, i)

\* What updates may have made of a row.
SameRow(row, now) == now = row \/ now = [row EXCEPT !.name = PublisherLiteral]

\* A statement took the tables from d to e.
Kept(d, e) ==
    /\ \A i \in Isbns :
         d.reviews[i] # <<>> => Stored(e, i) /\ Begins(d.reviews[i], e.reviews[i])
    /\ \A i \in Isbns :
         Stored(d, i) /\ Stored(e, i) => SameRow(d.books[i], e.books[i])

GoodStep(d, e) == e \in Tables /\ Sound(e) /\ Kept(d, e)

LEMMA BeginsItself == ASSUME NEW q \in Seq(Reviews) PROVE Begins(q, q)
  BY DEF Begins

LEMMA NothingKept == ASSUME NEW d \in Tables, Sound(d) PROVE GoodStep(d, d)
  BY BeginsItself DEF GoodStep, Kept, Sound, Tables, SameRow

LEMMA AddBookKeeps ==
    ASSUME NEW d \in Tables, Sound(d), NEW i \in Isbns,
           NEW b \in [name : Names, publisher : Publishers]
    PROVE  GoodStep(d, AddBook(d, i, b))
<1>1. CASE Stored(d, i)
  BY <1>1, NothingKept DEF AddBook
<1>2. CASE ~Stored(d, i)
  <2> DEFINE e == AddBook(d, i, b)
  <2>1. b \in Book
    BY DEF Book
  <2>2. e.reviews = d.reviews /\ e.books = [d.books EXCEPT ![i] = b] /\ e \in Tables
    BY <1>2, <2>1 DEF AddBook, Tables
  <2>3. Sound(e)
    BY <2>1, <2>2, ConstantsAssumption DEF Sound, Stored, Tables
  <2>4. Kept(d, e)
    BY <1>2, <2>1, <2>2, <2>3, BeginsItself DEF Kept, Sound, Stored, Tables, SameRow
  <2> QED
    BY <2>2, <2>3, <2>4 DEF GoodStep
<1> QED
  BY <1>1, <1>2

LEMMA UpdateBookKeeps ==
    ASSUME NEW d \in Tables, Sound(d), NEW i \in Isbns, NEW b
    PROVE  GoodStep(d, UpdateBook(d, i, b))
<1>1. CASE ~Stored(d, i)
  BY <1>1, NothingKept DEF UpdateBook
<1>2. CASE Stored(d, i)
  <2> DEFINE e == UpdateBook(d, i, b)
             new == [d.books[i] EXCEPT !.name = PublisherLiteral]
  <2>1. d.books[i] \in Book
    BY <1>2 DEF Stored, Tables
  <2>2. new \in Book
    BY <2>1 DEF Book
  <2>3. e.reviews = d.reviews /\ e.books = [d.books EXCEPT ![i] = new]
    BY <1>2 DEF UpdateBook, Tables
  <2>4. e \in Tables
    BY <1>2, <2>2 DEF UpdateBook, Tables
  <2>5. Sound(e)
    BY <2>2, <2>3, ConstantsAssumption DEF Sound, Stored, Tables
  <2>6. Kept(d, e)
    BY <2>2, <2>3, <2>5, BeginsItself DEF Kept, Sound, Stored, Tables, SameRow
  <2> QED
    BY <2>4, <2>5, <2>6 DEF GoodStep
<1> QED
  BY <1>1, <1>2

LEMMA RemoveBookKeeps ==
    ASSUME NEW d \in Tables, Sound(d), NEW i \in Isbns
    PROVE  GoodStep(d, RemoveBook(d, i))
<1>1. CASE d.reviews[i] # <<>>
  BY <1>1, NothingKept DEF RemoveBook
<1>2. CASE d.reviews[i] = <<>>
  <2> DEFINE e == RemoveBook(d, i)
  <2>1. e.reviews = d.reviews /\ e.books = [d.books EXCEPT ![i] = NoBook] /\ e \in Tables
    BY <1>2 DEF RemoveBook, Tables
  <2>2. Sound(e)
    BY <1>2, <2>1 DEF Sound, Stored, Tables
  <2>3. Kept(d, e)
    BY <1>2, <2>1, <2>2, BeginsItself DEF Kept, Sound, Stored, Tables, SameRow
  <2> QED
    BY <2>1, <2>2, <2>3 DEF GoodStep
<1> QED
  BY <1>1, <1>2

LEMMA AppendBegins ==
    ASSUME NEW q \in Seq(Reviews), NEW r \in Reviews PROVE Begins(q, Append(q, r))
  BY DEF Begins

LEMMA AddReviewKeeps ==
    ASSUME NEW d \in Tables, Sound(d), NEW i \in Isbns, NEW r \in Reviews
    PROVE  GoodStep(d, AddReview(d, i, r))
<1>1. CASE ~Stored(d, i)
  BY <1>1, NothingKept DEF AddReview
<1>2. CASE Stored(d, i)
  <2> DEFINE e == AddReview(d, i, r)
  <2> DEFINE new == Append(d.reviews[i], r)
  <2>0. d.reviews[i] \in Seq(Reviews) /\ new \in Seq(Reviews)
    BY DEF Tables
  <2>1. /\ e.books = d.books
        /\ e.reviews = [d.reviews EXCEPT ![i] = new]
        /\ e \in Tables
    <3> HIDE DEF new
    <3>1. e = [d EXCEPT !.reviews = [d.reviews EXCEPT ![i] = new]]
      BY <1>2 DEF AddReview, Tables, new
    <3> QED
      BY <2>0, <3>1 DEF Tables
  <2>2. Sound(e)
    BY <1>2, <2>1 DEF Sound, Stored, Tables
  <2>3. Kept(d, e)
    BY <2>1, <2>2, BeginsItself, AppendBegins DEF Kept, Sound, Stored, Tables, SameRow
  <2> QED
    BY <2>1, <2>2, <2>3 DEF GoodStep
<1> QED
  BY <1>1, <1>2

-------------------------------------------------------------------------------
(* The servers: every step is one statement or leaves the tables alone. *)

TablesInv == db \in Tables /\ Sound(db)

LEMMA StepKeeps == TablesInv /\ [Next]_vars => GoodStep(db, db')
<1> SUFFICES ASSUME TablesInv, [Next]_vars PROVE GoodStep(db, db')
  OBVIOUS
<1> USE DEF TablesInv, Statement
<1>1. CASE db' = db
  BY <1>1, NothingKept
<1>2. ASSUME NEW s \in Sessions, AddBookCall(s) PROVE GoodStep(db, db')
  BY <1>2, AddBookKeeps, NothingKept DEF AddBookCall
<1>3. ASSUME NEW s \in Sessions, UpdateBookCall(s) PROVE GoodStep(db, db')
  BY <1>3, UpdateBookKeeps, NothingKept DEF UpdateBookCall
<1>4. ASSUME NEW s \in Sessions, RemoveBookCall(s) PROVE GoodStep(db, db')
  BY <1>4, RemoveBookKeeps, NothingKept DEF RemoveBookCall
<1>5. ASSUME NEW s \in Sessions, SubmitReviewsCall(s) PROVE GoodStep(db, db')
  BY <1>5, AddReviewKeeps, NothingKept DEF SubmitReviewsCall
<1>6. ASSUME NEW s \in Sessions,
             \/ GetBookCall(s) \/ ListBooksCall(s) \/ GetBookReviewsCall(s)
             \/ InfoGetBook(s) \/ InfoGetReviews(s) \/ InfoFails(s)
      PROVE  db' = db
  BY <1>6 DEF GetBookCall, ListBooksCall, GetBookReviewsCall, InfoGetBook, InfoGetReviews,
              InfoFails
<1> QED
  BY <1>1, <1>2, <1>3, <1>4, <1>5, <1>6 DEF Next, SessionStep, vars

LEMMA SeedIsSound ==
  ASSUME NEW d \in SeededTables
  PROVE  d \in Tables /\ Sound(d)
<1>1. [name : Names, publisher : Publishers] \subseteq Book
  BY DEF Book
<1>2. PICK bs \in [Isbns -> [name : Names, publisher : Publishers] \union {NoBook}] :
        d = [books |-> bs, reviews |-> [i \in Isbns |-> <<>>]]
  BY DEF SeededTables
<1>3. bs \in [Isbns -> Book \union {NoBook}]
  BY <1>1, <1>2
<1>4. [i \in Isbns |-> <<>>] \in [Isbns -> Seq(Reviews)]
  OBVIOUS
<1>5. d \in Tables
  BY <1>2, <1>3, <1>4 DEF Tables
<1>6. Sound(d)
  BY <1>2 DEF Sound
<1> QED
  BY <1>5, <1>6

LEMMA TablesInvariant == Spec => []TablesInv
<1>1. Init => TablesInv
  BY SeedIsSound DEF Init, TablesInv
<1>2. TablesInv /\ [Next]_vars => TablesInv'
  BY StepKeeps DEF TablesInv, GoodStep, Sound, Stored
<1> QED
  BY <1>1, <1>2, PTL DEF Spec

\* Referential integrity, whatever the sessions do and whichever statements fail.
THEOREM ReviewsAlwaysHaveBooks == Spec => []ReviewsHaveBooks
<1>1. TablesInv => ReviewsHaveBooks
  BY DEF TablesInv, Sound, ReviewsHaveBooks
<1> QED
  BY <1>1, TablesInvariant, PTL

\* A book with a review, and the review, survive every later call.
THEOREM ReviewedBooksAlwaysStay == Spec => ReviewedBooksStay
<1>1. TablesInv /\ [Next]_vars
        => [\A i \in Isbns : db.reviews[i] # <<>> =>
               Stored(db', i) /\ Begins(db.reviews[i], db'.reviews[i])]_vars
  BY StepKeeps DEF GoodStep, Kept
<1> QED
  BY <1>1, TablesInvariant, PTL DEF Spec, ReviewedBooksStay

-------------------------------------------------------------------------------
(* The answers of grpc-book-info-server. *)

LEMMA BeginsTransitive ==
    ASSUME NEW p \in Seq(Reviews), NEW q \in Seq(Reviews), NEW r \in Seq(Reviews),
           Begins(p, q), Begins(q, r)
    PROVE  Begins(p, r)
<1>1. /\ Len(p) <= Len(q) /\ Len(q) <= Len(r)
      /\ \A k \in 1..Len(p) : q[k] = p[k]
      /\ \A k \in 1..Len(q) : r[k] = q[k]
  BY DEF Begins
<1>2. \A k \in 1..Len(p) : r[k] = p[k]
  BY <1>1
<1>3. SubSeq(r, 1, Len(p)) = p
  BY <1>1, <1>2
<1> QED
  BY <1>1, <1>3 DEF Begins

AnswerInv == TypeOK /\ ReviewsHaveBooks /\ InfoReviewsLast

\* What InfoReviewsLast asks of the answer a over the tables d.
InfoOK(a, d) ==
    a.op = "info" =>
        /\ a.isbn \in Isbns /\ a.reviews \in Seq(Reviews)
        /\ a.reviews # <<>> => Stored(d, a.isbn) /\ Begins(a.reviews, d.reviews[a.isbn])

LEMMA InfoOKStays ==
    ASSUME NEW d \in Tables, NEW e \in Tables, Kept(d, e), NEW a, InfoOK(a, d)
    PROVE  InfoOK(a, e)
<1> SUFFICES ASSUME a.op = "info", a.reviews # <<>>
             PROVE  Stored(e, a.isbn) /\ Begins(a.reviews, e.reviews[a.isbn])
  BY DEF InfoOK
<1>1. /\ a.isbn \in Isbns /\ a.reviews \in Seq(Reviews)
      /\ Begins(a.reviews, d.reviews[a.isbn])
  BY DEF InfoOK
<1>2. d.reviews[a.isbn] \in Seq(Reviews) /\ e.reviews[a.isbn] \in Seq(Reviews)
  BY <1>1 DEF Tables
<1>3. d.reviews[a.isbn] # <<>>
  BY <1>1 DEF Begins
<1>4. Stored(e, a.isbn) /\ Begins(d.reviews[a.isbn], e.reviews[a.isbn])
  BY <1>1, <1>3 DEF Kept
<1> QED
  BY <1>1, <1>2, <1>4, BeginsTransitive

\* What the calls of one statement, and a failing book-info call, answer.
LEMMA PlainAnswer ==
    ASSUME NEW t \in Sessions,
           \/ AddBookCall(t) \/ UpdateBookCall(t) \/ RemoveBookCall(t) \/ GetBookCall(t)
           \/ SubmitReviewsCall(t) \/ GetBookReviewsCall(t)
           \/ ListBooksCall(t) \/ InfoFails(t)
    PROVE  \E x : Answer(t, x) /\ x.op # "info"
<1>1. ASSUME NEW i, NEW b, NEW op, Done(t, op, i, b), op # "info"
      PROVE  \E x : Answer(t, x) /\ x.op # "info"
  <2> DEFINE a == [op |-> op, isbn |-> i, book |-> b]
  <2>1. Answer(t, a) /\ a.op # "info"
    BY <1>1 DEF Done
  <2> QED
    BY <2>1
<1>2. CASE AddBookCall(t) \/ UpdateBookCall(t) \/ RemoveBookCall(t) \/ GetBookCall(t)
  <2>1. \E i, b, op : Done(t, op, i, b) /\ op # "info"
    BY <1>2 DEF AddBookCall, UpdateBookCall, RemoveBookCall, GetBookCall
  <2> QED
    BY <2>1, <1>1
<1>3. CASE SubmitReviewsCall(t)
  BY <1>3 DEF SubmitReviewsCall
<1>4. CASE GetBookReviewsCall(t)
  BY <1>4 DEF GetBookReviewsCall
<1>5. CASE ListBooksCall(t) \/ InfoFails(t)
  BY <1>5 DEF ListBooksCall, InfoFails
<1> QED
  BY <1>2, <1>3, <1>4, <1>5

\* What a step writes into answer is either no answer of the info server or one
\* about the tables of that step.
LEMMA NewAnswer ==
    ASSUME TypeOK, ReviewsHaveBooks, [Next]_vars, NEW s \in Sessions
    PROVE  /\ DOMAIN answer' = Sessions
           /\ answer'[s] = answer[s] \/ InfoOK(answer'[s], db)
<1>1. CASE answer' = answer
  BY <1>1 DEF TypeOK
<1>2. ASSUME NEW t \in Sessions, NEW a, Answer(t, a), InfoOK(a, db)
      PROVE  DOMAIN answer' = Sessions /\ (answer'[s] = answer[s] \/ InfoOK(answer'[s], db))
  BY <1>2 DEF Answer, TypeOK
<1>3. ASSUME NEW t \in Sessions,
             \/ AddBookCall(t) \/ UpdateBookCall(t) \/ RemoveBookCall(t) \/ GetBookCall(t)
             \/ SubmitReviewsCall(t) \/ GetBookReviewsCall(t)
             \/ ListBooksCall(t) \/ InfoFails(t)
      PROVE  \E x : Answer(t, x) /\ InfoOK(x, db)
  BY <1>3, PlainAnswer DEF InfoOK
<1>4. ASSUME NEW t \in Sessions, InfoGetReviews(t)
      PROVE  \E x : Answer(t, x) /\ InfoOK(x, db)
  <2>1. call[t].op = "info" /\ call[t] \in {NoCall} \union InfoCall
    BY <1>4 DEF InfoGetReviews, TypeOK
  <2>2. call[t].isbn \in Isbns
    BY <2>1 DEF NoCall, InfoCall
  <2> DEFINE a(rs) == [op |-> "info", isbn |-> call[t].isbn, book |-> call[t].book,
                       reviews |-> rs]
  <2>3. PICK rs \in {GetAllReviews(db, call[t].isbn), <<>>} : Answer(t, a(rs))
    BY <1>4 DEF InfoGetReviews
  <2>4. rs \in Seq(Reviews) /\ (rs # <<>> => rs = db.reviews[call[t].isbn])
    <3>1. db.reviews[call[t].isbn] \in Seq(Reviews)
      BY <2>2 DEF Tables, TypeOK
    <3>2. rs = db.reviews[call[t].isbn] \/ rs = <<>>
      BY <2>3 DEF GetAllReviews
    <3>3. << >> \in Seq(Reviews)
      OBVIOUS
    <3> QED
      BY <3>1, <3>2, <3>3, Zenon
  <2>5. rs # <<>> => Stored(db, call[t].isbn) /\ Begins(rs, db.reviews[call[t].isbn])
    BY <2>2, <2>4, BeginsItself DEF ReviewsHaveBooks
  <2>6. a(rs).isbn = call[t].isbn /\ a(rs).reviews = rs
    OBVIOUS
  <2>7. InfoOK(a(rs), db)
    <3> HIDE DEF a
    <3> QED
      BY <2>2, <2>4, <2>5, <2>6 DEF InfoOK
  <2> QED
    BY <2>3, <2>7
<1>5. ASSUME NEW t \in Sessions, InfoGetBook(t) PROVE answer' = answer
  BY <1>5 DEF InfoGetBook
<1> QED
  BY <1>1, <1>2, <1>3, <1>4, <1>5 DEF Next, SessionStep, vars

LEMMA NewCall ==
    ASSUME TypeOK, [Next]_vars PROVE call' \in [Sessions -> {NoCall} \union InfoCall]
<1> USE DEF TypeOK
<1>1. CASE call' = call
  BY <1>1
<1>2. ASSUME NEW t \in Sessions, InfoGetBook(t) PROVE call' \in [Sessions -> {NoCall} \union InfoCall]
  <2>1. PICK i \in Isbns, b \in Book \union {ZeroBook} :
            call' = [call EXCEPT ![t] = [op |-> "info", isbn |-> i, book |-> b]]
    BY <1>2 DEF InfoGetBook, GetBook, Stored, Tables
  <2>2. [op |-> "info", isbn |-> i, book |-> b] \in InfoCall
    BY DEF InfoCall
  <2> QED
    BY <2>1, <2>2
<1>3. ASSUME NEW t \in Sessions, InfoGetReviews(t) \/ InfoFails(t)
      PROVE  call' \in [Sessions -> {NoCall} \union InfoCall]
  BY <1>3 DEF InfoGetReviews, InfoFails
<1>4. ASSUME NEW t \in Sessions,
             \/ AddBookCall(t) \/ UpdateBookCall(t) \/ RemoveBookCall(t) \/ GetBookCall(t)
             \/ ListBooksCall(t) \/ SubmitReviewsCall(t) \/ GetBookReviewsCall(t)
      PROVE  call' = call
  BY <1>4 DEF AddBookCall, UpdateBookCall, RemoveBookCall, GetBookCall, ListBooksCall,
              SubmitReviewsCall, GetBookReviewsCall, Done
<1> QED
  BY <1>1, <1>2, <1>3, <1>4 DEF Next, SessionStep, vars

LEMMA AnswerStep == AnswerInv /\ [Next]_vars => AnswerInv'
<1> SUFFICES ASSUME AnswerInv, [Next]_vars PROVE AnswerInv'
  OBVIOUS
<1> USE DEF AnswerInv
<1>1. GoodStep(db, db') /\ db \in Tables
  BY StepKeeps DEF TypeOK, ReviewsHaveBooks, TablesInv, Sound
<1>2. db' \in Tables /\ ReviewsHaveBooks'
  BY <1>1 DEF GoodStep, Sound, ReviewsHaveBooks, Stored
<1>3. ASSUME NEW s \in Sessions PROVE InfoOK(answer'[s], db')
  <2>1. InfoOK(answer[s], db)
    BY DEF TypeOK, InfoReviewsLast, InfoOK
  <2>2. InfoOK(answer'[s], db)
    BY <2>1, NewAnswer
  <2> QED
    BY <1>1, <1>2, <2>2, InfoOKStays DEF GoodStep
<1>4. TypeOK'
  <2>1. DOMAIN answer' = Sessions
    BY NewAnswer DEF Next, vars, TypeOK
  <2>2. removed' \subseteq Sessions
    BY DEF TypeOK, Next, SessionStep, vars, AddBookCall, UpdateBookCall, RemoveBookCall,
       GetBookCall, ListBooksCall, SubmitReviewsCall, GetBookReviewsCall, InfoGetBook,
       InfoGetReviews, InfoFails, Statement
  <2> QED
    BY <1>2, <1>3, <2>1, <2>2, NewCall DEF TypeOK, InfoOK
<1>5. InfoReviewsLast'
  BY <1>3 DEF InfoReviewsLast, InfoOK, Stored
<1> QED
  BY <1>2, <1>4, <1>5

LEMMA AnswerInvariant == Spec => []AnswerInv
<1>1. Init => AnswerInv
  BY SeedIsSound DEF Init, AnswerInv, TypeOK, ReviewsHaveBooks, InfoReviewsLast, Sound, NoAnswer
<1> QED
  BY <1>1, AnswerStep, PTL DEF Spec

\* Reviews that a book-info answer shows are never outdated, although its two
\* reads are not one snapshot.
THEOREM ShownReviewsLast == Spec => []InfoReviewsLast
  BY AnswerInvariant, PTL DEF AnswerInv

\* Type correctness.
THEOREM TypeCorrect == Spec => []TypeOK
  BY AnswerInvariant, PTL DEF AnswerInv
-------------------------------------------------------------------------------
(* The book of such an answer, and the book its reviews are about. *)

\* Over the tables d the row of i is row, or what updates have made of it.
Rowed(d, i, row) == row \in Book /\ Stored(d, i) /\ SameRow(row, d.books[i])

\* Between the two reads of s: the book read is still there unless it was removed.
Pending(s) ==
    call[s].op = "info" /\ s \notin removed /\ call[s].book # ZeroBook
        => Rowed(db, call[s].isbn, call[s].book)

\* After them: the answer shows the reviews of its book.
Shown(s) ==
    /\ Free(s) /\ s \notin removed
    /\ answer[s].op = "info" /\ answer[s].book # ZeroBook /\ answer[s].reviews # <<>>
    => Rowed(db, answer[s].isbn, answer[s].book)

OneBookInv == \A s \in Sessions : Pending(s) /\ Shown(s)

LEMMA RowedStays ==
    ASSUME NEW d \in Tables, NEW e \in Tables, Kept(d, e), NEW i \in Isbns, NEW row,
           Rowed(d, i, row), Stored(e, i)
    PROVE  Rowed(e, i, row)
<1>1. row \in Book /\ SameRow(row, d.books[i]) /\ SameRow(d.books[i], e.books[i])
  BY DEF Rowed, Kept
<1>2. SameRow(row, e.books[i])
  BY <1>1 DEF SameRow, Book
<1> QED
  BY <1>1, <1>2 DEF Rowed

\* A session whose answer shows reviews need not fear that their book goes.
LEMMA ReviewedIsStored ==
    ASSUME AnswerInv, GoodStep(db, db'), NEW s \in Sessions,
           answer[s].op = "info", answer[s].reviews # <<>>
    PROVE  answer[s].isbn \in Isbns /\ Stored(db', answer[s].isbn)
<1>1. /\ answer[s].isbn \in Isbns /\ answer[s].reviews \in Seq(Reviews)
      /\ Begins(answer[s].reviews, db.reviews[answer[s].isbn])
  BY DEF AnswerInv, TypeOK, InfoReviewsLast
<1>2. db.reviews[answer[s].isbn] # <<>>
  <2>1. db.reviews[answer[s].isbn] \in Seq(Reviews)
    BY <1>1 DEF AnswerInv, TypeOK, Tables
  <2> QED
    BY <1>1, <2>1 DEF Begins
<1> QED
  BY <1>1, <1>2 DEF GoodStep, Kept

LEMMA OneBookStep == AnswerInv /\ OneBookInv /\ [Next]_vars => OneBookInv'
<1> SUFFICES ASSUME AnswerInv, OneBookInv, [Next]_vars, NEW s \in Sessions
             PROVE  Pending(s)' /\ Shown(s)'
  BY DEF OneBookInv
<1>1. GoodStep(db, db') /\ db \in Tables /\ db' \in Tables /\ Kept(db, db')
  BY StepKeeps DEF AnswerInv, TypeOK, ReviewsHaveBooks, TablesInv, Sound, GoodStep
<1>2. /\ Pending(s) /\ Shown(s)
      /\ call \in [Sessions -> {NoCall} \union InfoCall] /\ DOMAIN answer = Sessions
  BY DEF OneBookInv, AnswerInv, TypeOK
<1>3. call[s].op = "info" => call[s] # NoCall /\ call[s].isbn \in Isbns
  BY <1>2 DEF NoCall, InfoCall
\* A book that s has read goes only in the sight of removed.
<1>4. ASSUME call'[s] = call[s], s \notin removed' => s \notin removed,
             call[s].op = "info" /\ s \notin removed' /\ Stored(db, call[s].isbn)
                => Stored(db', call[s].isbn)
      PROVE  Pending(s)'
  BY <1>1, <1>2, <1>3, <1>4, RowedStays DEF Pending, Rowed
<1>5. ASSUME answer'[s] = answer[s], Free(s)' => Free(s), s \notin removed' => s \notin removed
      PROVE  Shown(s)'
  BY <1>1, <1>2, <1>5, RowedStays, ReviewedIsStored DEF Shown
<1>6. CASE UNCHANGED vars
  BY <1>4, <1>5, <1>6 DEF vars, Free, Stored
<1>7. ASSUME NEW t \in Sessions, NEW new, Statement(new), UNCHANGED call,
             NEW a, Answer(t, a), a.op # "info"
      PROVE  Pending(s)' /\ Shown(s)'
  <2>1. Pending(s)'
    BY <1>4, <1>7 DEF Statement
  <2>2. CASE s = t
    <3>1. answer'[s] = a
      BY <1>2, <1>7, <2>2 DEF Answer
    <3> QED
      BY <1>7, <2>1, <3>1 DEF Shown
  <2>3. CASE s # t
    <3>1. answer'[s] = answer[s]
      BY <1>2, <1>7, <2>3 DEF Answer
    <3>2. s \notin removed' => s \notin removed
      BY <1>7 DEF Statement
    <3>3. Shown(s)'
      BY <1>5, <1>7, <3>1, <3>2 DEF Free
    <3> QED
      BY <2>1, <3>3
  <2> QED
    BY <2>1, <2>2, <2>3
<1>8. ASSUME NEW t \in Sessions,
             \/ AddBookCall(t) \/ UpdateBookCall(t) \/ RemoveBookCall(t) \/ SubmitReviewsCall(t)
      PROVE  Pending(s)' /\ Shown(s)'
  <2>1. PICK new : Statement(new) /\ UNCHANGED call
    BY <1>8 DEF AddBookCall, UpdateBookCall, RemoveBookCall, SubmitReviewsCall, Done
  <2>2. PICK a : Answer(t, a) /\ a.op # "info"
    BY <1>8, PlainAnswer
  <2> QED
    BY <2>1, <2>2, <1>7
<1>9. ASSUME NEW t \in Sessions,
             \/ GetBookCall(t) \/ GetBookReviewsCall(t) \/ ListBooksCall(t) \/ InfoFails(t)
      PROVE  Pending(s)' /\ Shown(s)'
  <2>1. PICK a : Answer(t, a) /\ a.op # "info"
    BY <1>9, PlainAnswer
  <2>2. UNCHANGED <<db, removed>> /\ (call' = call \/ call' = [call EXCEPT ![t] = NoCall])
    BY <1>9 DEF GetBookCall, GetBookReviewsCall, ListBooksCall, InfoFails, Done
  <2>3. CASE s = t
    <3>1. Shown(s)'
      BY <1>2, <2>1, <2>3 DEF Answer, Shown
    <3>2. CASE call' = call
      BY <1>4, <2>2, <3>1, <3>2
    <3>3. CASE call' = [call EXCEPT ![t] = NoCall]
      BY <1>2, <2>3, <3>1, <3>3 DEF Pending, NoCall
    <3> QED
      BY <2>2, <3>2, <3>3
  <2>4. CASE s # t
    <3>1. call'[s] = call[s] /\ answer'[s] = answer[s]
      BY <1>2, <2>1, <2>2, <2>4 DEF Answer
    <3> QED
      BY <1>4, <1>5, <2>2, <3>1 DEF Free
  <2> QED
    BY <2>3, <2>4
<1>10. ASSUME NEW t \in Sessions, InfoGetBook(t) PROVE Pending(s)' /\ Shown(s)'
  <2>0. PICK i \in Isbns : \E b \in {GetBook(db, i), ZeroBook} :
            call' = [call EXCEPT ![t] = [op |-> "info", isbn |-> i, book |-> b]]
    BY <1>10 DEF InfoGetBook
  <2>1. PICK b \in {GetBook(db, i), ZeroBook} :
            call' = [call EXCEPT ![t] = [op |-> "info", isbn |-> i, book |-> b]]
    BY <2>0
  <2>2. UNCHANGED <<db, answer>> /\ removed' = removed \ {t}
    BY <1>10 DEF InfoGetBook
  <2>3. CASE s = t
    <3>1. call'[s] = [op |-> "info", isbn |-> i, book |-> b]
      BY <1>2, <2>1, <2>3
    <3>2. ~Free(s)'
      BY <3>1 DEF Free, NoCall
    <3>3. ASSUME b # ZeroBook PROVE Rowed(db, i, b)
      BY <1>1, <2>1, <3>3 DEF GetBook, Rowed, SameRow, Stored, Tables
    <3>4. Pending(s)'
      BY <2>2, <3>1, <3>3 DEF Pending, Rowed, Stored
    <3> QED
      BY <3>2, <3>4 DEF Shown
  <2>4. CASE s # t
    BY <1>2, <1>4, <1>5, <2>1, <2>2, <2>4 DEF Free
  <2> QED
    BY <2>3, <2>4
<1>11. ASSUME NEW t \in Sessions, InfoGetReviews(t) PROVE Pending(s)' /\ Shown(s)'
  <2>1. PICK rs : Answer(t, [op |-> "info", isbn |-> call[t].isbn, book |-> call[t].book,
                             reviews |-> rs])
    BY <1>11 DEF InfoGetReviews
  <2>2. /\ UNCHANGED <<db, removed>> /\ call' = [call EXCEPT ![t] = NoCall]
        /\ call[t].op = "info"
    BY <1>11 DEF InfoGetReviews
  <2>3. CASE s = t
    <3>1. call'[s] = NoCall
      BY <1>2, <2>2, <2>3
    <3>2. answer'[s].isbn = call[s].isbn /\ answer'[s].book = call[s].book
      BY <1>2, <2>1, <2>3 DEF Answer
    <3>3. Shown(s)'
      BY <1>2, <2>2, <2>3, <3>2 DEF Shown, Pending, Rowed, Stored
    <3> QED
      BY <3>1, <3>3 DEF Pending, NoCall
  <2>4. CASE s # t
    BY <1>2, <1>4, <1>5, <2>1, <2>2, <2>4 DEF Answer, Free
  <2> QED
    BY <2>3, <2>4
<1> QED
  BY <1>6, <1>8, <1>9, <1>10, <1>11 DEF Next, SessionStep

LEMMA OneBookIsOne == AnswerInv /\ OneBookInv => InfoIsOneBook
<1> SUFFICES ASSUME AnswerInv, OneBookInv, NEW s \in Sessions,
                    Free(s), s \notin removed, answer[s].op = "info",
                    answer[s].book # ZeroBook, answer[s].reviews # <<>>
             PROVE  RowOf(answer[s].isbn, answer[s].book)
  BY DEF InfoIsOneBook
<1>0. PICK i, row, before :
        /\ i = answer[s].isbn /\ row = answer[s].book
        /\ before = [db EXCEPT !.books[i] = row]
  OBVIOUS
<1>1. i \in Isbns /\ db \in Tables
  BY <1>0 DEF AnswerInv, TypeOK
<1>2. row \in Book /\ Stored(db, i) /\ SameRow(row, db.books[i])
  BY <1>0 DEF OneBookInv, Shown, Rowed
<1>3. UpdateBook(before, i, row).books[i] = [row EXCEPT !.name = PublisherLiteral]
  <2>1. before.books = [db.books EXCEPT ![i] = row] /\ before.books[i] = row
    BY <1>0, <1>1 DEF Tables
  <2>2. Stored(before, i)
    BY <1>2, <2>1, ConstantsAssumption DEF Stored
  <2>3. UpdateBook(before, i, row) =
          [before EXCEPT !.books[i] = [before.books[i] EXCEPT !.name = PublisherLiteral]]
    BY <2>2 DEF UpdateBook
  <2>4. i \in DOMAIN before.books /\ "books" \in DOMAIN before
    BY <1>0, <1>1, <2>1 DEF Tables
  <2> QED
    BY <2>1, <2>3, <2>4
<1> QED
  BY <1>0, <1>2, <1>3 DEF RowOf, SameRow

\* GetBookInfoWithReviews shows a book with its own reviews, whatever other sessions do
\* around its two reads, unless the book was removed in between.
THEOREM ShownTogetherBelongTogether == Spec => []InfoIsOneBook
<1>1. Init => OneBookInv
  BY DEF Init, OneBookInv, Pending, Shown, NoCall, NoAnswer
<1> QED
  BY <1>1, AnswerInvariant, OneBookStep, OneBookIsOne, PTL DEF Spec
===============================================================================
