------------------------------- MODULE GreetProto -------------------------------
(***************************************************************************)
(* The messages of the greet service as loadbalancing/internal/pkg/proto   *)
(* has them (greet.pb.go, greet_grpc.pb.go).                               *)
(***************************************************************************)
EXTENDS Wire

Greeting == [first_name |-> String(1), last_name |-> String(2)]

GreetingRequest == [greeting |-> Message(1, Greeting)]

GreetingResponse == [Result |-> String(1)]

GreetService == [Greet |-> Unary(GreetingRequest, GreetingResponse)]
===============================================================================
