--------------------------- MODULE MCCircuitBreaker ---------------------------
(* Small instances of CircuitBreaker: three calls, which is the fewest with   *)
(* which a stale reset task closes a breaker that opened again.               *)
EXTENDS CircuitBreaker

CONSTANTS c1, c2, c3

ThreeCalls == {c1, c2, c3}
OneDeadlined == {c1}
===============================================================================
