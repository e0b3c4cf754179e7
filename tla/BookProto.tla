------------------------------- MODULE BookProto -------------------------------
(***************************************************************************)
(* The messages and services of books-app as internal/pkg/proto has them   *)
(* (book.pb.go, book_grpc.pb.go).                                          *)
(***************************************************************************)
EXTENDS Wire

Empty == <<>>

Book == [isbn |-> Int32(1), name |-> String(2), publisher |-> String(3)]

AddBookResponse == [status |-> String(1)]

ListBooksRespose == [books |-> Messages(1, Book)]

GetBookRequest == [isbn |-> Int32(1)]

RemoveBookRequest == [isbn |-> Int32(1)]

RemoveBookResponse == [status |-> String(1)]

UpdateBookResponse == [status |-> String(1)]

Review == [reviewer |-> String(1), comment |-> String(2), rating |-> Int32(3)]

SubmitReviewRequest ==
    [isbn |-> Int32(1), reviewer |-> String(2), comment |-> String(3), rating |-> Int32(4)]

SubmitReviewResponse == [status |-> String(1)]

GetBookReviewsRequest == [isbn |-> Int32(1)]

GetBookReviewsResponse == [reviews |-> Messages(1, Review)]

GetBookInfoRequest == [isbn |-> Int32(1)]

GetBookInfoResponse ==
    [isbn |-> Int32(1), name |-> String(2), publisher |-> String(3),
     reviews |-> Messages(4, Review)]

-------------------------------------------------------------------------------

BookService ==
    [AddBook    |-> Unary(Book, AddBookResponse),
     ListBooks  |-> Unary(Empty, ListBooksRespose),
     GetBook    |-> Unary(GetBookRequest, Book),
     RemoveBook |-> Unary(RemoveBookRequest, RemoveBookResponse),
     UpdateBook |-> Unary(Book, UpdateBookResponse)]

ReviewService ==
    [SubmitReviews  |-> Unary(SubmitReviewRequest, SubmitReviewResponse),
     GetBookReviews |-> Unary(GetBookReviewsRequest, GetBookReviewsResponse)]

BookInfoService ==
    [GetBookInfoWithReviews |-> Unary(GetBookInfoRequest, GetBookInfoResponse)]

\* The types of a method, as the stubs and the dispatching handlers know them.
Types(method) ==
    IF method \in DOMAIN BookService THEN BookService[method]
    ELSE IF method \in DOMAIN ReviewService THEN ReviewService[method]
    ELSE BookInfoService[method]

\* What the client stub of a method sends, and what the server's handler of it reads;
\* the response takes the same way back.
Request(method, m) == Encode(Types(method).in, m)

ReadRequest(method, w) == Decode(Types(method).in, w)

Response(method, m) == Encode(Types(method).out, m)

ReadResponse(method, w) == Decode(Types(method).out, w)
===============================================================================
