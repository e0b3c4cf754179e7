------------------------------- MODULE FixedWidth -------------------------------
(***************************************************************************)
(* The arithmetic of chapter 4's services, in Go and in C#, on an int32:   *)
(* the numbers -Int32Bound .. Int32Bound - 1, where Int32Bound is 2^31.    *)
(***************************************************************************)
EXTENDS Integers, Sequences

CONSTANT Int32Bound

ASSUME Int32Assumption == Int32Bound \in Nat \ {0}

\* What a number becomes in an int32: by a conversion, or when a sum overflows.
ToInt32(n) == ((n + Int32Bound) % (2 * Int32Bound)) - Int32Bound

IsInt32(n) == ToInt32(n) = n

\* Both languages divide toward zero.
Quotient(a, b) == IF a >= 0 THEN a \div b ELSE -((-a) \div b)

\* The sums of the first numbers, as int32, of a sequence.
Sums(s) == LET f[k \in 0 .. Len(s)] == IF k = 0 THEN 0 ELSE f[k - 1] + ToInt32(s[k]) IN f

fib[n \in Nat] == IF n <= 1 THEN n ELSE fib[n - 1] + fib[n - 2]
===============================================================================
