----------------------------- MODULE MCBooksClients -----------------------------
(***************************************************************************)
(* Two clients of any of the four kinds.  Clients of the same kinds in the *)
(* other order behave alike, so one order of each pair is enough.          *)
(***************************************************************************)
EXTENDS BooksClients

CONSTANTS c1, c2

MCClients == {c1, c2}

MCCrews ==
    LET order == <<"grpc", "rest", "grpcurl", "curl">>
    IN {[c \in MCClients |-> IF c = c1 THEN order[i] ELSE order[j]] :
            <<i, j>> \in {p \in (1 .. 4) \X (1 .. 4) : p[1] <= p[2]}}

\* The books and reviews that the clients and the migrations name.
MCNames ==
    {"da vinci code", "the best laid plans", "modern api design using grpc",
     "atomic habits", "Sample Book", "test name"}

MCPublishers ==
    {"doubleday", "harper", "ava orange", "random house business books",
     "Sample Publisher", "test publisher"}

MCReviews ==
    {[reviewer |-> "hitesh pattanayak", comment |-> "good book", rating |-> 5],
     [reviewer |-> "another person", comment |-> "great book", rating |-> 4]}
===============================================================================
