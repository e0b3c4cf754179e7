---------------------------- MODULE MCRestFibonacci ----------------------------
(* Small instances of RestFibonacci. Two clients choose freely between two      *)
(* request ids and the ranges 0 to 2: own ids and a shared one, equal and       *)
(* different ranges, and the range 0 whose end is the only one ever signalled.  *)
EXTENDS RestFibonacci

CONSTANTS c1, c2, r1, r2

TwoClients == {c1, c2}
TwoIds == {r1, r2}
UpToTwo == 0..2

OneClient == {c1}
OneId == {r1}
===============================================================================
