------------------------------ MODULE NumberProto ------------------------------
(***************************************************************************)
(* The messages of chapter-4's average and Fibonacci services as           *)
(* chapter-4/proto has them (average.pb.go, fibonacci.pb.go).              *)
(***************************************************************************)
EXTENDS Wire

AverageRequest == [number |-> Int32(1)]

AverageResponse == [average |-> Int32(2)]

FibonacciRequest == [number |-> Int32(1)]

SyncFibonacciResponse == [timeTaken |-> String(1), fibonacciNumbers |-> Int32s(2)]

AsyncFibonacciResponse == [sequence |-> Int32(1), fibonacciNumber |-> Int32(2)]

\* What each method takes and returns. FindAverage streams its requests and
\* AsyncFibonacci its responses, one message of this type at a time.
AverageService == [FindAverage |-> Unary(AverageRequest, AverageResponse)]

FibonacciService ==
    [SyncFibonacci  |-> Unary(FibonacciRequest, SyncFibonacciResponse),
     AsyncFibonacci |-> Unary(FibonacciRequest, AsyncFibonacciResponse)]
===============================================================================
