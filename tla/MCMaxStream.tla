------------------------------ MODULE MCMaxStream ------------------------------
(* Small instances of MaxStream: a client sends nothing, one number, or several *)
(* numbers, which fill responseChan.                                            *)
EXTENDS MaxStream

CONSTANTS s1, s2

TwoStreams == {s1, s2}
OneStream == {s1}
ShortAndLong == {<<>>, <<-1>>, <<3, 1, 2>>}
Smallest == -5
===============================================================================
