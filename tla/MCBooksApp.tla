------------------------------- MODULE MCBooksApp -------------------------------
(* A small instance of BooksApp: one isbn that two sessions contend for is      *)
(* enough, since no statement touches two of them; two names and publishers     *)
(* tell the rows of a removed and re-added book apart.                          *)
EXTENDS BooksApp, TLC

CONSTANTS s1, s2, i1, n1, n2, p1, p2, r1, r2

TwoSessions == {s1, s2}
OneIsbn == {i1}
TwoNames == {n1, n2}
TwoPublishers == {p1, p2}
TwoReviews == {r1, r2}

Symmetry == Permutations(TwoSessions) \union Permutations(TwoReviews)
===============================================================================
