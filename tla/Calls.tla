------------------------------- MODULE Calls -------------------------------
(***************************************************************************)
(* What a service learns from a call of another one (gateway.go of order   *)
(* and of shipping): Resilience, with the endpoint each call is for, what  *)
(* the server does with each request, the status it answers, and what the  *)
(* gateway makes of it.  A client calls one service; every attempt is a    *)
(* request of its own, and one that its client no longer waits for may     *)
(* still be carried out.                                                   *)
(***************************************************************************)
EXTENDS Resilience

VARIABLES
  service,  \* the one this client calls
  op,       \* the endpoint of each call, the last one's when it is idle
  request,  \* its present request: "sent" until the server answers
  late,     \* how many of its requests nobody waits for are on their way
  applied,  \* whether the server has carried out one of them
  result    \* what the caller is told

requestVars == <<service, op, request, late, applied, result>>
allVars == <<vars, requestVars>>

(* The endpoints: the service, the method, whether it writes, the status   *)
(* of success, the one the gateway has a word for, and the others below    *)
(* 500.                                                                    *)
Reserve ==
  [of |-> "inventory", method |-> "POST", writes |-> TRUE,
   ok |-> "201", refused |-> "409", other |-> {"400"}]
Release ==
  [of |-> "inventory", method |-> "POST", writes |-> TRUE,
   ok |-> "204", refused |-> "none", other |-> {}]
CreatePayment ==
  [of |-> "payment", method |-> "POST", writes |-> TRUE,
   ok |-> "201", refused |-> "none", other |-> {"400", "422"}]
FetchProduct ==
  [of |-> "product", method |-> "GET", writes |-> FALSE,
   ok |-> "200", refused |-> "404", other |-> {}]
FetchDestination ==
  [of |-> "order", method |-> "GET", writes |-> FALSE,
   ok |-> "200", refused |-> "none", other |-> {"404"}]

Endpoint ==
  [Reserve |-> Reserve, Release |-> Release, CreatePayment |-> CreatePayment,
   FetchProduct |-> FetchProduct, FetchDestination |-> FetchDestination]

Op == DOMAIN Endpoint
Service == {Endpoint[o].of : o \in Op}
Final(o) == ({Endpoint[o].ok, Endpoint[o].refused} \cup Endpoint[o].other) \ {"none"}
Status == {"500"} \cup UNION {Final(o) : o \in Op}

CallsTypeOK ==
  /\ TypeOK
  /\ service \in Service
  /\ op \in [Call -> Op \cup {"none"}]
  /\ request \in [Call -> {"none", "sent"} \cup Status]
  /\ late \in [Call -> Nat]
  /\ applied \in [Call -> BOOLEAN]
  /\ result \in [Call -> {"none", "ok", "refused", "upstream"}]

(* Which requests the transport repeats: safeToRetry, or the client was    *)
(* made with RetryNonIdempotent (the generated requests can be rewound).   *)
RetriesNonIdempotent == {"payment"}

\* BUG: every client is made with RetryNonIdempotent.
RetriedAnyway(o) == TRUE

Retried(o) == Endpoint[o].method = "GET" \/ Endpoint[o].of \in RetriesNonIdempotent

CallsInit ==
  /\ Init
  /\ service \in Service
  /\ op = [c \in Call |-> "none"]
  /\ request = [c \in Call |-> "none"]
  /\ late = [c \in Call |-> 0]
  /\ applied = [c \in Call |-> FALSE]
  /\ result = [c \in Call |-> "none"]

-----------------------------------------------------------------------------
(* The client.                                                             *)

(* A call starts over; what is still on its way for the last one is that   *)
(* order's affair and no longer followed.                                  *)
Start(c, o, first, told) ==
  /\ Endpoint[o].of = service
  /\ Retried(o) <=> c \in Repeatable
  /\ op' = [op EXCEPT ![c] = o]
  /\ request' = [request EXCEPT ![c] = first]
  /\ late' = [late EXCEPT ![c] = 0]
  /\ applied' = [applied EXCEPT ![c] = FALSE]
  /\ result' = [result EXCEPT ![c] = told]
  /\ UNCHANGED service

CallBegins(c, o) == Begin(c) /\ Start(c, o, "sent", "none")

(* The breaker is open, or half open and its probe under way.              *)
CallRefused(c, o) ==
  /\ phase[c] = "idle"
  /\ ~Admits(CurrentState)
  /\ Start(c, o, "none", "upstream")
  /\ UNCHANGED vars

(* The gateway's reading of an answer; a body that cannot be read, or is   *)
(* not the JSON it should be, is a failure too, which the breaker, having  *)
(* seen the status, counts as a success.                                   *)
Told(o, status, readable) ==
  CASE readable /\ status = Endpoint[o].ok -> "ok"
    [] readable /\ status = Endpoint[o].refused -> "refused"
    [] OTHER -> "upstream"

CallAnswered(c) ==
  /\ request[c] \in Status \ {"500"}
  /\ Answered(c)
  /\ \E readable \in BOOLEAN :
       result' = [result EXCEPT ![c] = Told(op[c], request[c], readable)]
  /\ request' = [request EXCEPT ![c] = "none"]
  /\ UNCHANGED <<service, op, late, applied>>

(* No answer, none in time, or a 500: a request without an answer may      *)
(* still be carried out.                                                   *)
CallAttemptFails(c) ==
  /\ AttemptFails(c)
  /\ request' = [request EXCEPT ![c] = "none"]
  /\ late' = [late EXCEPT ![c] = IF request[c] = "sent" THEN @ + 1 ELSE @]
  /\ result' = [result EXCEPT ![c] = IF phase'[c] = "idle" THEN "upstream" ELSE @]
  /\ UNCHANGED <<service, op, applied>>

CallRetries(c) ==
  /\ Retry(c)
  /\ request' = [request EXCEPT ![c] = "sent"]
  /\ UNCHANGED <<service, op, late, applied, result>>

CallGivesUp(c) ==
  /\ GiveUp(c)
  /\ result' = [result EXCEPT ![c] = "upstream"]
  /\ UNCHANGED <<service, op, request, late, applied>>

-----------------------------------------------------------------------------
(* The server: dberr and ErrorJSON make a status of a handler's error.     *)

(* Whether the request has been carried out when its status is this one; a *)
(* 500 may come of a transaction that was committed after all.             *)
Effects(o, status) ==
  IF Endpoint[o].writes /\ status = "500" THEN BOOLEAN
  ELSE {Endpoint[o].writes /\ status = Endpoint[o].ok}

Serve(c) ==
  /\ request[c] = "sent"
  /\ \E status \in Final(op[c]) \cup {"500"} :
       /\ status = "500" => ~up
       /\ request' = [request EXCEPT ![c] = status]
       /\ \E done \in Effects(op[c], status) :
            applied' = [applied EXCEPT ![c] = @ \/ done]
  /\ UNCHANGED <<vars, service, op, late, result>>

ServeLate(c) ==
  /\ late[c] > 0
  /\ late' = [late EXCEPT ![c] = @ - 1]
  /\ \E status \in Final(op[c]) \cup {"500"} : \E done \in Effects(op[c], status) :
       applied' = [applied EXCEPT ![c] = @ \/ done]
  /\ UNCHANGED <<vars, service, op, request, result>>

(* An upstream that is up does not answer 500.                             *)
Around ==
  /\ BreakerTimeout \/ UpstreamChanges \/ \E c \in Call : CallerLeaves(c)
  /\ up' => \A c \in Call : request[c] # "500"
  /\ UNCHANGED requestVars

CallsNext ==
  \/ \E c \in Call :
       \/ \E o \in Op : CallBegins(c, o) \/ CallRefused(c, o)
       \/ CallAnswered(c) \/ CallAttemptFails(c) \/ CallRetries(c) \/ CallGivesUp(c)
       \/ Serve(c) \/ ServeLate(c)
  \/ Around

CallsSpec == CallsInit /\ [][CallsNext]_allVars

(* As in Resilience, and a server that is up answers.                      *)
CallsFairness ==
  /\ \A c \in Call :
       /\ WF_allVars(CallAnswered(c) \/ CallAttemptFails(c))
       /\ WF_allVars(CallRetries(c) \/ CallGivesUp(c))
       /\ WF_allVars(Serve(c))
  /\ WF_allVars(Around /\ BreakerTimeout)

FairCallsSpec == CallsSpec /\ CallsFairness

-----------------------------------------------------------------------------
(* What checkout builds on: a write its gateway reports as done is done,   *)
(* and one it reports as refused (no stock) is not done and will not be -- *)
(* "no reservation remains, so none is released" (order_write.go:131) --   *)
(* whatever was sent, repeated, lost or answered late.                     *)
AnswerIsTrue ==
  \A c \in Call : op[c] \in Op /\ Endpoint[op[c]].writes =>
    /\ result[c] = "ok" => applied[c]
    /\ result[c] = "refused" => ~applied[c] /\ late[c] = 0

(* If the upstream is healthy from some time on and nobody gives up, the   *)
(* breaker closes for good, provided calls are made.                       *)
Arrivals == \A c \in Call : WF_allVars(\E o \in Op : CallBegins(c, o))
Recovers == Arrivals /\ <>[](up /\ gone = {}) => <>[](breaker.state = "closed")
=============================================================================
