--------------------------------- MODULE Gateway ---------------------------------
(***************************************************************************)
(* The load-balancing example: a REST gateway (greetclient) that spreads   *)
(* requests over the pods of greetserver, round robin over what the name   *)
(* of a headless service resolves to.  Kubernetes starts and stops pods,   *)
(* and restarts the gateway; the balancing and the connections are those   *)
(* of the gRPC library.                                                    *)
(***************************************************************************)
EXTENDS GreetProto

CONSTANTS Pods, Requests,
          MaxStops     \* bound on pods that Kubernetes stops

\* The nil pointer is none of the greetings that are sent.
ASSUME GatewayAssumption ==
    MaxStops \in Nat /\ \A r \in Requests : Nil # [first_name |-> r, last_name |-> ""]

VARIABLES
    pod,       \* the pods that run
    gateway,   \* "undeployed", "down", "dialing" or "up"
    conn,      \* the gateway's connection to a pod; "none" for a pod it does not know
    resolve,   \* the name is to be looked up again
    request,   \* where a request to the gateway is
    stops,     \* pods stopped so far
    deaths     \* history: how often the gateway ended

gatewayVars == <<pod, gateway, conn, resolve, request, stops, deaths>>

Nowhere == [at |-> "none"]

GatewayInit ==
    /\ pod \in SUBSET Pods
    /\ gateway \in {"undeployed", "down"}
    /\ gateway = "undeployed" => pod = {}
    /\ conn = [p \in Pods |-> "none"]
    /\ resolve = FALSE
    /\ request = [r \in Requests |-> Nowhere]
    /\ stops = 0
    /\ deaths = 0

SetConn(p, s) == conn' = [conn EXCEPT ![p] = s]

SetRequest(r, q) == request' = [request EXCEPT ![r] = q]

Ready == {p \in Pods : conn[p] = "ready"}

-------------------------------------------------------------------------------
(* Kubernetes. The servers handle no signal while they serve, so a pod that is *)
(* stopped ends at once, and the calls it is at fail.                          *)

PodStarts(p) ==
    /\ gateway # "undeployed"
    /\ p \notin pod
    /\ pod' = pod \union {p}
    /\ UNCHANGED <<gateway, conn, resolve, request, stops, deaths>>

At(p) == {r \in Requests : request[r].at = "pod" /\ request[r].pod = p}

PodStops(p) ==
    /\ p \in pod
    /\ stops < MaxStops
    /\ stops' = stops + 1
    /\ pod' = pod \ {p}
    /\ conn' = [conn EXCEPT ![p] = IF @ = "ready" THEN "connecting" ELSE @]
    /\ resolve' = (resolve \/ conn[p] = "ready")
    /\ request' = [r \in Requests |-> IF r \in At(p) THEN [at |-> "failed"] ELSE request[r]]
    /\ UNCHANGED <<gateway, deaths>>

\* setupGreetClient: the gateway dials and waits for a first connection. (When the
\* service cannot be looked up it panics, and is started again.)
GatewayStarts ==
    /\ gateway = "down"
    /\ gateway' = "dialing"
    /\ resolve' = TRUE
    /\ UNCHANGED <<pod, conn, request, stops, deaths>>

Dialed ==
    /\ gateway = "dialing"
    /\ Ready # {}
    /\ gateway' = "up"
    /\ UNCHANGED <<pod, conn, resolve, request, stops, deaths>>

-------------------------------------------------------------------------------
(* The gRPC library. Whenever it loses a connection, or fails to make one, it   *)
(* looks the name up again. A name without pods is looked up until it has some. *)

Resolve ==
    /\ resolve
    /\ conn' = [p \in Pods |-> IF p \notin pod THEN "none"
                               ELSE IF conn[p] = "none" THEN "connecting" ELSE conn[p]]
    /\ resolve' = (pod = {})
    /\ UNCHANGED <<pod, gateway, request, stops, deaths>>

Connect(p) ==
    /\ conn[p] \in {"connecting", "failing"}
    /\ IF p \in pod THEN SetConn(p, "ready") /\ UNCHANGED resolve
       ELSE SetConn(p, "failing") /\ resolve' = TRUE
    /\ UNCHANGED <<pod, gateway, request, stops, deaths>>

\* Mutants: servers without MaxConnectionAge, and an end of age that is not graceful.
MaxConnectionAgeNone(p) == FALSE /\ UNCHANGED gatewayVars

MaxConnectionAgeAborts(p) ==
    /\ conn[p] = "ready"
    /\ SetConn(p, "connecting")
    /\ resolve' = TRUE
    /\ request' = [r \in Requests |-> IF r \in At(p) THEN [at |-> "failed"] ELSE request[r]]
    /\ UNCHANGED <<pod, gateway, stops, deaths>>

\* A server ends a connection after five minutes; the calls on it go on.
MaxConnectionAge(p) ==
    /\ conn[p] = "ready"
    /\ SetConn(p, "connecting")
    /\ resolve' = TRUE
    /\ UNCHANGED <<pod, gateway, request, stops, deaths>>

-------------------------------------------------------------------------------
(* A request. *)

\* The body has a first name only; the request stands for the name.
Arrive(r) ==
    /\ gateway = "up"
    /\ request[r] = Nowhere
    /\ SetRequest(r, [at |-> "gateway",
           body |-> Encode(GreetingRequest, [greeting |-> [first_name |-> r, last_name |-> ""]])])
    /\ UNCHANGED <<pod, gateway, conn, resolve, stops, deaths>>

\* The balancer takes one of the ready connections, waits while there is none but one
\* is being made, and otherwise fails the call.
Pick(r) ==
    /\ request[r].at = "gateway"
    /\ \/ \E p \in Ready : SetRequest(r, [at |-> "pod", pod |-> p, body |-> request[r].body])
       \/ /\ \A p \in Pods : conn[p] \in {"none", "failing"}
          /\ SetRequest(r, [at |-> "failed"])
    /\ UNCHANGED <<pod, gateway, conn, resolve, stops, deaths>>

\* Mutant: the names in the other order.
GreetLastNameFirst(r) ==
    /\ request[r].at = "pod"
    /\ \E g \in {Decode(GreetingRequest, request[r].body).greeting} :
         SetRequest(r, [at |-> "answered",
             body |-> Encode(GreetingResponse,
                 [Result |-> <<Get(Greeting, g, "last_name"), Get(Greeting, g, "first_name"),
                               request[r].pod>>])])
    /\ UNCHANGED <<pod, gateway, conn, resolve, stops, deaths>>

\* The handler: its text holds both names and the pod.
Greet(r) ==
    /\ request[r].at = "pod"
    /\ \E g \in {Decode(GreetingRequest, request[r].body).greeting} :
         SetRequest(r, [at |-> "answered",
             body |-> Encode(GreetingResponse,
                 [Result |-> <<Get(Greeting, g, "first_name"), Get(Greeting, g, "last_name"),
                               request[r].pod>>])])
    /\ UNCHANGED <<pod, gateway, conn, resolve, stops, deaths>>

Respond(r) ==
    /\ request[r].at = "answered"
    /\ SetRequest(r, Nowhere)
    /\ UNCHANGED <<pod, gateway, conn, resolve, stops, deaths>>

\* doUnary: log.Fatalf ends the gateway, with all of its requests.
Fail(r) ==
    /\ request[r].at = "failed"
    /\ gateway' = "down"
    /\ deaths' = deaths + 1
    /\ conn' = [p \in Pods |-> "none"]
    /\ resolve' = FALSE
    /\ request' = [q \in Requests |-> Nowhere]
    /\ UNCHANGED <<pod, stops>>

-------------------------------------------------------------------------------

GatewayNext ==
    \/ \E p \in Pods : PodStarts(p) \/ PodStops(p) \/ Connect(p) \/ MaxConnectionAge(p)
    \/ GatewayStarts \/ Dialed \/ Resolve
    \/ \E r \in Requests : Arrive(r) \/ Pick(r) \/ Greet(r) \/ Respond(r) \/ Fail(r)

\* Connections age, are made and looked up whatever else happens; a call that failed
\* ends the gateway.
GatewayFairness ==
    /\ WF_gatewayVars(Resolve)
    /\ \A p \in Pods : WF_gatewayVars(Connect(p)) /\ WF_gatewayVars(MaxConnectionAge(p))

-------------------------------------------------------------------------------
(* Properties. *)

GatewayTypeOK ==
    /\ pod \subseteq Pods
    /\ gateway \in {"undeployed", "down", "dialing", "up"}
    /\ conn \in [Pods -> {"none", "connecting", "ready", "failing"}]
    /\ stops \in 0 .. MaxStops /\ deaths \in Nat
    /\ Ready \subseteq pod
    /\ \A r \in Requests :
         /\ request[r].at \in {"none", "gateway", "pod", "answered", "failed"}
         /\ request[r].at # "none" => gateway = "up"
         /\ request[r].at = "pod" => request[r].pod \in pod
         /\ request[r].at = "answered" =>
              Head(Decode(GreetingResponse, request[r].body).Result) = r

\* One failed call ends the gateway, but only a pod that stops makes a call fail, and a
\* stop ends the gateway at most once: neither a connection that reaches its age, nor a
\* pod that starts, nor a lookup in between ever does.
OneDeathPerStop == deaths <= stops

\* A pod that starts while the gateway is up gets a share of the requests although the
\* gateway is told of no pod: it looks the name up again when a connection has aged.
NewPodIsFound ==
    \A p \in Pods :
        gateway = "up" /\ p \in pod ~> conn[p] = "ready" \/ p \notin pod \/ gateway # "up"
===============================================================================
