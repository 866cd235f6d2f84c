-------------------------- MODULE ResilienceProofs --------------------------
(***************************************************************************)
(* Theorems about the client of an upstream service, for any number of     *)
(* concurrent calls, any limit of attempts and any threshold, and about    *)
(* what a caller may conclude from the answer it is given (Calls).         *)
(***************************************************************************)
EXTENDS Calls, TLAPS, FiniteSetTheorems

USE CallAssumption, LimitAssumption

-----------------------------------------------------------------------------
(* The inductive invariant.                                                *)

(* A call waits for another attempt only while it may have one.            *)
AttemptsInv ==
  \A c \in Call :
    /\ attempts[c] <= Limit(c)
    /\ phase[c] = "backoff" => attempts[c] < Limit(c)

(* What the present generation admitted: calls under way, none by an open  *)
(* breaker, and by a half-open one as many as it has counted.              *)
BreakerInv ==
  /\ \A c \in counted : phase[c] # "idle"
  /\ breaker.state = "open" => counted = {}
  /\ breaker.state = "half-open" =>
       \/ breaker.probes = 0 /\ counted = {}
       \/ breaker.probes = 1 /\ \E c \in Call : counted = {c}

ClientInv == TypeOK /\ AttemptsInv /\ BreakerInv

LEMMA LimitType ==
  ASSUME NEW c \in Call
  PROVE  Limit(c) \in 1..MaxAttempts /\ (Limit(c) > 1 => c \in Repeatable)
BY DEF Limit

LEMMA NewType ==
  ASSUME NEW s \in {"closed", "open", "half-open"}
  PROVE  New(s) \in Breaker /\ New(s).state = s /\ New(s).probes = 0
BY DEF New, Breaker

(* Looking at the timer starts a generation or changes nothing.            *)
LEMMA CurrentStateCases ==
  ASSUME breaker \in Breaker
  PROVE  /\ CurrentState \in Breaker
         /\ \/ CurrentState = breaker
            \/ breaker.state = "open" /\ CurrentState = New("half-open")
BY NewType DEF CurrentState

LEMMA OutcomeType ==
  ASSUME NEW b \in Breaker
  PROVE  /\ Failed(b) \in Breaker /\ Succeeded(b) \in Breaker
         /\ b.state = "half-open" => Failed(b).state = "open" /\ Succeeded(b).state = "closed"
         /\ b.state = "closed" => /\ Failed(b).state \in {"closed", "open"}
                                  /\ Succeeded(b).state = "closed"
BY NewType DEF Failed, Succeeded, Breaker

-----------------------------------------------------------------------------
(* The two places where a call meets the breaker.                          *)

LEMMA BeginStep ==
  ASSUME ClientInv, NEW c \in Call, Begin(c)
  PROVE  ClientInv'
<1>1. TypeOK /\ breaker \in Breaker /\ CurrentState \in Breaker
  BY CurrentStateCases DEF ClientInv, TypeOK
<1>2. /\ phase' = [phase EXCEPT ![c] = "attempt"] /\ phase[c] = "idle"
      /\ attempts' = [attempts EXCEPT ![c] = 1] /\ UNCHANGED <<gone, up>>
      /\ Admits(CurrentState)
      /\ breaker' = IF CurrentState.state = "half-open"
                      THEN [CurrentState EXCEPT !.probes = @ + 1] ELSE CurrentState
      /\ counted' = IF breaker'.state = breaker.state THEN counted \cup {c} ELSE {c}
  BY DEF Begin, BeforeRequest, SameGeneration
<1>3. breaker' \in Breaker /\ breaker'.state = CurrentState.state
  BY <1>1, <1>2 DEF Breaker
<1>4. TypeOK'
  BY <1>1, <1>2, <1>3 DEF TypeOK
<1>5. AttemptsInv'
  BY <1>1, <1>2, LimitType DEF ClientInv, AttemptsInv, TypeOK, Limit
<1>6. \A q \in counted' : phase'[q] # "idle"
  BY <1>1, <1>2 DEF ClientInv, BreakerInv, TypeOK
<1>7. breaker'.state # "open"
  BY <1>2, <1>3 DEF Admits
<1>8. breaker'.state = "half-open" => breaker'.probes = 1 /\ counted' = {c}
  <2> SUFFICES ASSUME breaker'.state = "half-open" PROVE breaker'.probes = 1 /\ counted' = {c}
    OBVIOUS
  <2>1. CurrentState.probes < 1 /\ CurrentState.probes \in Nat /\ breaker'.probes = CurrentState.probes + 1
    BY <1>1, <1>2, <1>3 DEF Admits, Breaker
  <2>2. CASE CurrentState = breaker
    BY <1>2, <1>3, <2>1, <2>2 DEF ClientInv, BreakerInv
  <2>3. CASE breaker.state = "open"
    BY <1>2, <2>1, <2>3
  <2> QED
    BY <1>1, <2>2, <2>3, CurrentStateCases
<1> QED
  BY <1>4, <1>5, <1>6, <1>7, <1>8 DEF ClientInv, BreakerInv

LEMMA AfterRequestCases ==
  ASSUME ClientInv, NEW c \in Call, NEW ok \in BOOLEAN, AfterRequest(c, ok)
  PROVE  /\ breaker' \in Breaker
         /\ counted' = IF breaker'.state = breaker.state THEN counted \ {c} ELSE {}
         /\ \/ breaker' = breaker /\ c \notin counted
            \/ breaker.state = "open" /\ breaker' = New("half-open")
            \/ c \in counted /\ breaker' = IF ok THEN Succeeded(breaker) ELSE Failed(breaker)
<1>1. breaker \in Breaker
  BY DEF ClientInv, TypeOK
<1>2. CASE CurrentState # breaker
  BY <1>1, <1>2, CurrentStateCases DEF AfterRequest, SameGeneration
<1>3. CASE CurrentState = breaker /\ c \notin counted
  BY <1>1, <1>3 DEF AfterRequest, SameGeneration
<1>4. CASE CurrentState = breaker /\ c \in counted
  BY <1>1, <1>4, OutcomeType DEF AfterRequest, SameGeneration
<1> QED
  BY <1>2, <1>3, <1>4

LEMMA EndStep ==
  ASSUME ClientInv, NEW c \in Call, NEW ok \in BOOLEAN, End(c, ok)
  PROVE  ClientInv'
<1>1. TypeOK /\ breaker \in Breaker
  BY DEF ClientInv, TypeOK
<1>2. /\ phase' = [phase EXCEPT ![c] = "idle"] /\ attempts' = [attempts EXCEPT ![c] = 0]
      /\ gone' = gone \ {c} /\ UNCHANGED up
  BY DEF End
<1>3. /\ breaker' \in Breaker
      /\ counted' = IF breaker'.state = breaker.state THEN counted \ {c} ELSE {}
      /\ \/ breaker' = breaker /\ c \notin counted
         \/ breaker.state = "open" /\ breaker' = New("half-open")
         \/ c \in counted /\ breaker' = IF ok THEN Succeeded(breaker) ELSE Failed(breaker)
  BY AfterRequestCases DEF End
<1>4. TypeOK'
  BY <1>1, <1>2, <1>3 DEF TypeOK
<1>5. AttemptsInv'
  BY <1>1, <1>2, LimitType DEF ClientInv, AttemptsInv, TypeOK, Limit
<1>6. \A q \in counted' : phase'[q] # "idle"
  BY <1>1, <1>2, <1>3 DEF ClientInv, BreakerInv, TypeOK
<1>7. /\ breaker'.state = "open" => counted' = {}
      /\ breaker'.state = "half-open" =>
           \/ breaker'.probes = 0 /\ counted' = {}
           \/ breaker'.probes = 1 /\ \E q \in Call : counted' = {q}
  <2>1. CASE breaker' = breaker /\ c \notin counted
    BY <1>3, <2>1 DEF ClientInv, BreakerInv
  <2>2. CASE breaker.state = "open" /\ breaker' = New("half-open")
    BY <1>3, <2>2, NewType
  <2>3. CASE c \in counted /\ breaker' = IF ok THEN Succeeded(breaker) ELSE Failed(breaker)
    <3>1. breaker.state \in {"closed", "half-open"}
      BY <1>1, <2>3 DEF ClientInv, BreakerInv, Breaker
    <3>2. breaker'.state # "half-open" /\ (breaker'.state = "open" => breaker.state # "open")
      BY <1>1, <2>3, <3>1, OutcomeType
    <3> QED
      BY <1>3, <3>2
  <2> QED
    BY <1>3, <2>1, <2>2, <2>3
<1> QED
  BY <1>4, <1>5, <1>6, <1>7 DEF ClientInv, BreakerInv

-----------------------------------------------------------------------------
LEMMA InitClient == Init => ClientInv
BY LimitType, NewType DEF Init, ClientInv, TypeOK, AttemptsInv, BreakerInv

LEMMA NextClient == ClientInv /\ [Next]_vars => ClientInv'
<1> SUFFICES ASSUME ClientInv, [Next]_vars PROVE ClientInv'
  OBVIOUS
<1>1. ASSUME NEW c \in Call, Begin(c) PROVE ClientInv'
  BY <1>1, BeginStep
<1>2. ASSUME NEW c \in Call, Answered(c) PROVE ClientInv'
  BY <1>2, EndStep DEF Answered
<1>3. ASSUME NEW c \in Call, AttemptFails(c) PROVE ClientInv'
  <2>1. CASE attempts[c] = Limit(c) \/ c \in gone
    BY <1>3, <2>1, EndStep DEF AttemptFails
  <2>2. CASE ~(attempts[c] = Limit(c) \/ c \in gone)
    <3>1. /\ phase' = [phase EXCEPT ![c] = "backoff"]
          /\ UNCHANGED <<attempts, gone, counted, breaker, up>>
      BY <1>3, <2>2 DEF AttemptFails
    <3>2. attempts[c] < Limit(c)
      BY <2>2, LimitType DEF ClientInv, AttemptsInv, TypeOK
    <3>3. TypeOK'
      BY <3>1 DEF ClientInv, TypeOK
    <3>4. AttemptsInv'
      BY <3>1, <3>2 DEF ClientInv, AttemptsInv, TypeOK, Limit
    <3>5. BreakerInv'
      BY <3>1 DEF ClientInv, BreakerInv, TypeOK
    <3> QED
      BY <3>3, <3>4, <3>5 DEF ClientInv
  <2> QED
    BY <2>1, <2>2
<1>4. ASSUME NEW c \in Call, Retry(c) PROVE ClientInv'
  <2>1. /\ phase[c] = "backoff" /\ phase' = [phase EXCEPT ![c] = "attempt"]
        /\ attempts' = [attempts EXCEPT ![c] = @ + 1]
        /\ UNCHANGED <<gone, counted, breaker, up>>
    BY <1>4 DEF Retry
  <2>2. attempts[c] + 1 \in 1..Limit(c)
    BY <2>1, LimitType DEF ClientInv, AttemptsInv, TypeOK
  <2>3. TypeOK'
    BY <2>1, <2>2, LimitType DEF ClientInv, TypeOK
  <2>4. AttemptsInv'
    BY <2>1, <2>2, LimitType DEF ClientInv, AttemptsInv, TypeOK, Limit
  <2>5. BreakerInv'
    BY <2>1 DEF ClientInv, BreakerInv, TypeOK
  <2> QED
    BY <2>3, <2>4, <2>5 DEF ClientInv
<1>5. ASSUME NEW c \in Call, GiveUp(c) PROVE ClientInv'
  BY <1>5, EndStep DEF GiveUp
<1>6. ASSUME NEW c \in Call, CallerLeaves(c) PROVE ClientInv'
  BY <1>6 DEF CallerLeaves, ClientInv, TypeOK, AttemptsInv, BreakerInv, Limit
<1>7. CASE BreakerTimeout
  <2>1. breaker' \in Breaker /\ breaker'.state = "open"
    BY <1>7 DEF BreakerTimeout, ClientInv, TypeOK, Breaker
  <2> QED
    BY <1>7, <2>1 DEF BreakerTimeout, callVars, ClientInv, TypeOK, AttemptsInv, BreakerInv, Limit
<1>8. CASE UpstreamChanges
  BY <1>8 DEF UpstreamChanges, callVars, ClientInv, TypeOK, AttemptsInv, BreakerInv, Limit
<1>9. CASE UNCHANGED vars
  BY <1>9 DEF vars, callVars, ClientInv, TypeOK, AttemptsInv, BreakerInv, Limit
<1> QED
  BY <1>1, <1>2, <1>3, <1>4, <1>5, <1>6, <1>7, <1>8, <1>9 DEF Next

THEOREM ClientCorrect == Spec => []ClientInv
<1>1. Init => ClientInv
  BY InitClient
<1>2. ClientInv /\ [Next]_vars => ClientInv'
  BY NextClient
<1> QED
  BY <1>1, <1>2, PTL DEF Spec

(* Every variable keeps its type; in particular a request that must not be *)
(* repeated is attempted once, and no other more than MaxAttempts times.   *)
THEOREM TypeCorrect == Spec => []TypeOK
<1>1. ClientInv => TypeOK
  BY DEF ClientInv
<1> QED
  BY <1>1, ClientCorrect, PTL

(* However many calls begin, a half-open breaker has let at most one of    *)
(* them through, and while it refuses the others that one is under way.    *)
THEOREM OneProbeHolds == Spec => []OneProbe
<1>1. ClientInv => OneProbe
  <2> SUFFICES ASSUME ClientInv, breaker.state = "half-open"
               PROVE  /\ Cardinality(counted) = breaker.probes /\ breaker.probes <= 1
                      /\ \A c \in counted : phase[c] # "idle"
    BY DEF OneProbe
  <2>1. \A c \in counted : phase[c] # "idle"
    BY DEF ClientInv, BreakerInv
  <2>2. CASE breaker.probes = 0 /\ counted = {}
    BY <2>1, <2>2, FS_EmptySet
  <2>3. CASE breaker.probes = 1 /\ \E c \in Call : counted = {c}
    <3>1. PICK c \in Call : counted = {c}
      BY <2>3
    <3>2. Cardinality(counted) = 1
      BY <3>1, FS_Singleton
    <3> QED
      BY <2>1, <2>3, <3>2
  <2>4. (breaker.probes = 0 /\ counted = {}) \/ (breaker.probes = 1 /\ \E c \in Call : counted = {c})
    BY DEF ClientInv, BreakerInv
  <2> QED
    BY <2>2, <2>3, <2>4
<1> QED
  BY <1>1, ClientCorrect, PTL

(* Only the end of the call that a half-open breaker admitted closes it or *)
(* opens it again; calls of earlier generations that end late do not.      *)
THEOREM ProbeDecidesHolds == Spec => ProbeDecides
<1> DEFINE Decided ==
      breaker.state = "half-open" /\ breaker'.state # "half-open" =>
        \E c \in counted :
          \/ breaker'.state = "closed" /\ Answered(c)
          \/ breaker'.state = "open" /\ (AttemptFails(c) \/ GiveUp(c))
<1>1. ClientInv /\ [Next]_vars => Decided
  <2> SUFFICES ASSUME ClientInv, [Next]_vars, breaker.state = "half-open", breaker'.state # "half-open"
               PROVE  \E c \in counted :
                        \/ breaker'.state = "closed" /\ Answered(c)
                        \/ breaker'.state = "open" /\ (AttemptFails(c) \/ GiveUp(c))
    OBVIOUS
  <2>1. breaker \in Breaker
    BY DEF ClientInv, TypeOK
  <2>2. ASSUME NEW c \in Call, NEW ok \in BOOLEAN, End(c, ok)
        PROVE  c \in counted /\ breaker'.state = IF ok THEN "closed" ELSE "open"
    BY <2>1, <2>2, AfterRequestCases, OutcomeType DEF End
  <2>3. ASSUME NEW c \in Call, Begin(c) PROVE FALSE
    BY <2>1, <2>3 DEF Begin, BeforeRequest, CurrentState, Breaker
  <2>4. ASSUME NEW c \in Call, Answered(c) PROVE c \in counted /\ breaker'.state = "closed"
    BY <2>2, <2>4 DEF Answered
  <2>5. ASSUME NEW c \in Call, AttemptFails(c) PROVE c \in counted /\ breaker'.state = "open"
    BY <2>2, <2>5 DEF AttemptFails
  <2>6. ASSUME NEW c \in Call, GiveUp(c) PROVE c \in counted /\ breaker'.state = "open"
    BY <2>2, <2>6 DEF GiveUp
  <2>7. ASSUME NEW c \in Call, Retry(c) \/ CallerLeaves(c) PROVE FALSE
    BY <2>7 DEF Retry, CallerLeaves
  <2>8. ~BreakerTimeout /\ ~UpstreamChanges /\ ~UNCHANGED vars
    BY DEF BreakerTimeout, UpstreamChanges, vars
  <2>9. PICK c \in Call : Answered(c) \/ AttemptFails(c) \/ GiveUp(c)
    BY <2>3, <2>7, <2>8 DEF Next
  <2> QED
    BY <2>4, <2>5, <2>6, <2>9
<1>2. Decided => [Decided]_vars
  OBVIOUS
<1> HIDE DEF Decided
<1>3. Spec => [][Decided]_vars
  BY <1>1, ClientCorrect, PTL DEF Spec
<1> QED
  BY <1>3 DEF ProbeDecides, Decided

-----------------------------------------------------------------------------
(* Calls: the endpoints, the server and the gateways around that client.   *)

(* Every step of Calls is a step of the client, or leaves it alone, so     *)
(* that whatever is proved of Resilience holds of the calls too.           *)
LEMMA CallsStep == [CallsNext]_allVars => [Next]_vars
<1> SUFFICES ASSUME [CallsNext]_allVars PROVE [Next]_vars
  OBVIOUS
<1>1. ASSUME NEW c \in Call, NEW o \in Op, CallBegins(c, o) \/ CallRefused(c, o)
      PROVE  [Next]_vars
  BY <1>1 DEF CallBegins, CallRefused, Next
<1>2. ASSUME NEW c \in Call, CallAnswered(c) \/ CallAttemptFails(c)
      PROVE  [Next]_vars
  BY <1>2 DEF CallAnswered, CallAttemptFails, Next
<1>3. ASSUME NEW c \in Call, CallRetries(c) \/ CallGivesUp(c)
      PROVE  [Next]_vars
  BY <1>3 DEF CallRetries, CallGivesUp, Next
<1>4. ASSUME NEW c \in Call, Serve(c) \/ ServeLate(c) PROVE [Next]_vars
  BY <1>4 DEF Serve, ServeLate
<1>5. CASE Around
  BY <1>5 DEF Around, Next
<1>6. CASE UNCHANGED allVars
  BY <1>6 DEF allVars
<1> QED
  BY <1>1, <1>2, <1>3, <1>4, <1>5, <1>6 DEF CallsNext

(* The calls of the gateways run on the client that Resilience describes.  *)
THEOREM CallsImplementClient == CallsSpec => Spec
<1>1. CallsInit => Init
  BY DEF CallsInit
<1> QED
  BY <1>1, CallsStep, PTL DEF CallsSpec, Spec

LEMMA EndpointFacts ==
  ASSUME NEW o \in Op
  PROVE  /\ "none" \notin Final(o) /\ "sent" \notin Final(o) /\ "500" \notin Final(o)
         /\ Endpoint[o].ok \in Final(o)
         /\ Endpoint[o].ok # Endpoint[o].refused
         /\ Endpoint[o].refused \notin {"sent", "500"}
         /\ Endpoint[o].writes /\ Endpoint[o].refused # "none" => ~Retried(o)
BY DEF Op, Endpoint, Reserve, Release, CreatePayment, FetchProduct, FetchDestination,
       Final, Retried, RetriesNonIdempotent

LEMMA EffectsFacts ==
  ASSUME NEW o \in Op, NEW status, NEW done \in Effects(o, status)
  PROVE  /\ done \in BOOLEAN
         /\ Endpoint[o].writes /\ status = Endpoint[o].ok => done
         /\ status \notin {"500", Endpoint[o].ok} => ~done
<1>1. Endpoint[o].ok # "500"
  BY EndpointFacts
<1>2. CASE Endpoint[o].writes /\ status = "500"
  BY <1>1, <1>2 DEF Effects
<1>3. CASE ~(Endpoint[o].writes /\ status = "500")
  <2>1. done = (Endpoint[o].writes /\ status = Endpoint[o].ok)
    BY <1>3 DEF Effects
  <2> QED
    BY <1>1, <2>1
<1> QED
  BY <1>2, <1>3

(* One call: its request is under way while it is attempted, an answer     *)
(* tells what the server did, and a request that is not repeated is the    *)
(* only one of its call.                                                   *)
CallInv(c) ==
  /\ op[c] \in Op \cup {"none"}
  /\ phase[c] # "idle" => op[c] \in Op
  /\ op[c] \in Op => (Retried(op[c]) <=> c \in Repeatable)
  /\ applied[c] \in BOOLEAN /\ late[c] \in Nat
  /\ phase[c] # "idle" => result[c] = "none"
  /\ phase[c] = "attempt" => attempts[c] >= 1 /\ request[c] \in {"sent", "500"} \cup Final(op[c])
  /\ phase[c] # "attempt" => request[c] = "none"
  /\ phase[c] = "backoff" => c \in Repeatable
  /\ phase[c] = "attempt" /\ c \notin Repeatable =>
       late[c] = 0 /\ (request[c] \notin {"500", Endpoint[op[c]].ok} => ~applied[c])
  /\ phase[c] = "attempt" /\ Endpoint[op[c]].writes /\ request[c] = Endpoint[op[c]].ok => applied[c]
  /\ op[c] \in Op /\ Endpoint[op[c]].writes =>
       /\ result[c] = "ok" => applied[c]
       /\ result[c] = "refused" => ~applied[c] /\ late[c] = 0

CallsInv == \A c \in Call : CallInv(c)

callVarsOf(c) ==
  <<phase[c], attempts[c], op[c], request[c], late[c], applied[c], result[c]>>

(* What a call depends on is its own.                                      *)
LEMMA OthersKept ==
  ASSUME NEW c \in Call, CallInv(c), UNCHANGED callVarsOf(c)
  PROVE  CallInv(c)'
BY DEF CallInv, callVarsOf, Retried, Endpoint, Final

LEMMA StatusFacts ==
  /\ \A o \in Op : Final(o) \subseteq Status /\ Endpoint[o].of \in Service
  /\ "500" \in Status /\ "none" \notin Status /\ "sent" \notin Status
BY EndpointFacts DEF Status, Service

LEMMA CallsTypeInit == CallsInit => CallsTypeOK
<1> SUFFICES ASSUME CallsInit PROVE CallsTypeOK
  OBVIOUS
<1>1. TypeOK
  BY InitClient DEF CallsInit, ClientInv
<1> QED
  BY <1>1 DEF CallsInit, CallsTypeOK

LEMMA CallsTypeStep ==
  CallsTypeOK /\ CallsInv /\ TypeOK' /\ [CallsNext]_allVars => CallsTypeOK'
<1> SUFFICES ASSUME CallsTypeOK, CallsInv, TypeOK', [CallsNext]_allVars PROVE CallsTypeOK'
  OBVIOUS
<1> USE DEF CallsTypeOK
<1>1. ASSUME NEW c \in Call, NEW o \in Op, CallBegins(c, o) \/ CallRefused(c, o)
      PROVE  CallsTypeOK'
  <2>1. PICK first \in {"none", "sent"}, told \in {"none", "upstream"} : Start(c, o, first, told)
    BY <1>1 DEF CallBegins, CallRefused
  <2> QED
    BY <2>1 DEF Start
<1>2. ASSUME NEW c \in Call, CallAnswered(c) PROVE CallsTypeOK'
  <2>2. PICK readable \in BOOLEAN :
          result' = [result EXCEPT ![c] = Told(op[c], request[c], readable)]
    BY <1>2 DEF CallAnswered
  <2>3. Told(op[c], request[c], readable) \in {"none", "ok", "refused", "upstream"}
    BY DEF Told
  <2> QED
    BY <1>2, <2>2, <2>3 DEF CallAnswered
<1>3. ASSUME NEW c \in Call, CallAttemptFails(c) PROVE CallsTypeOK'
  BY <1>3 DEF CallAttemptFails
<1>4. ASSUME NEW c \in Call, CallRetries(c) \/ CallGivesUp(c) PROVE CallsTypeOK'
  BY <1>4 DEF CallRetries, CallGivesUp
<1>5. ASSUME NEW c \in Call, Serve(c) PROVE CallsTypeOK'
  <2>1. op[c] \in Op
    BY <1>5 DEF Serve, CallsInv, CallInv
  <2>2. PICK status \in Status : request' = [request EXCEPT ![c] = status]
    BY <1>5, <2>1, StatusFacts DEF Serve
  <2>3. \E done : applied' = [applied EXCEPT ![c] = @ \/ done]
    BY <1>5 DEF Serve
  <2> QED
    BY <1>5, <2>2, <2>3 DEF Serve
<1>6. ASSUME NEW c \in Call, ServeLate(c) PROVE CallsTypeOK'
  <2>1. \E done : applied' = [applied EXCEPT ![c] = @ \/ done]
    BY <1>6 DEF ServeLate
  <2> QED
    BY <1>6, <2>1 DEF ServeLate
<1>7. CASE Around
  BY <1>7 DEF Around, requestVars
<1>8. CASE UNCHANGED allVars
  BY <1>8 DEF allVars, requestVars
<1> QED
  BY <1>1, <1>2, <1>3, <1>4, <1>5, <1>6, <1>7, <1>8 DEF CallsNext

LEMMA CallsInvInit == CallsInit => CallsInv
BY DEF CallsInit, Init, CallsInv, CallInv, Op, Endpoint

(* A step of one call leaves the other calls as they are.                  *)
LEMMA OthersStay ==
  ASSUME CallsTypeOK, NEW c \in Call, NEW d \in Call \ {c},
         \/ \E o \in Op : CallBegins(c, o) \/ CallRefused(c, o)
         \/ CallAnswered(c) \/ CallAttemptFails(c) \/ CallRetries(c) \/ CallGivesUp(c)
         \/ Serve(c) \/ ServeLate(c)
  PROVE  UNCHANGED callVarsOf(d)
<1> USE DEF CallsTypeOK, TypeOK, callVarsOf
<1>1. ASSUME NEW o \in Op, CallBegins(c, o) PROVE UNCHANGED callVarsOf(d)
  BY <1>1 DEF CallBegins, Begin, Start
<1>2. ASSUME NEW o \in Op, CallRefused(c, o) PROVE UNCHANGED callVarsOf(d)
  BY <1>2 DEF CallRefused, Start, vars, callVars
<1>3. CASE CallAnswered(c)
  BY <1>3 DEF CallAnswered, Answered, End
<1>4. CASE CallAttemptFails(c)
  BY <1>4 DEF CallAttemptFails, AttemptFails, End
<1>5. CASE CallRetries(c)
  BY <1>5 DEF CallRetries, Retry
<1>6. CASE CallGivesUp(c)
  BY <1>6 DEF CallGivesUp, GiveUp, End
<1>7. CASE Serve(c)
  BY <1>7 DEF Serve, vars, callVars
<1>8. CASE ServeLate(c)
  BY <1>8 DEF ServeLate, vars, callVars
<1> QED
  BY <1>1, <1>2, <1>3, <1>4, <1>5, <1>6, <1>7, <1>8

LEMMA CallStays ==
  ASSUME CallsTypeOK, CallsInv, AttemptsInv, NEW c \in Call,
         \/ \E o \in Op : CallBegins(c, o) \/ CallRefused(c, o)
         \/ CallAnswered(c) \/ CallAttemptFails(c) \/ CallRetries(c) \/ CallGivesUp(c)
         \/ Serve(c) \/ ServeLate(c)
  PROVE  CallInv(c)'
<1> USE DEF CallsTypeOK, TypeOK
<1>0. CallInv(c)
  BY DEF CallsInv
<1>1. ASSUME NEW o \in Op, CallBegins(c, o) PROVE CallInv(c)'
  <2>1. /\ op'[c] = o /\ request'[c] = "sent" /\ late'[c] = 0 /\ ~applied'[c]
        /\ result'[c] = "none" /\ phase'[c] = "attempt" /\ attempts'[c] = 1
        /\ Retried(o) <=> c \in Repeatable
    BY <1>1 DEF CallBegins, Begin, Start
  <2> QED
    BY <2>1, <1>1, EndpointFacts DEF CallInv, CallBegins, Start
<1>2. ASSUME NEW o \in Op, CallRefused(c, o) PROVE CallInv(c)'
  <2>1. /\ op'[c] = o /\ request'[c] = "none" /\ late'[c] = 0 /\ ~applied'[c]
        /\ result'[c] = "upstream" /\ phase'[c] = "idle"
        /\ Retried(o) <=> c \in Repeatable
    BY <1>2 DEF CallRefused, Start, vars, callVars
  <2> QED
    BY <2>1, <1>2, EndpointFacts DEF CallInv, CallRefused, Start
<1>3. CASE CallAnswered(c)
  <2>1. PICK readable \in BOOLEAN :
          result' = [result EXCEPT ![c] = Told(op[c], request[c], readable)]
    BY <1>3 DEF CallAnswered
  <2>2. /\ op'[c] = op[c] /\ request'[c] = "none" /\ late'[c] = late[c]
        /\ applied'[c] = applied[c] /\ phase'[c] = "idle"
        /\ result'[c] = Told(op[c], request[c], readable)
        /\ phase[c] = "attempt" /\ request[c] \in Final(op[c]) /\ op[c] \in Op
    BY <1>0, <1>3, <2>1, StatusFacts DEF CallAnswered, Answered, End, CallInv
  <2>3. Endpoint[op[c]].writes /\ result'[c] = "ok" => applied'[c]
    BY <1>0, <2>2 DEF CallInv, Told
  <2>4. Endpoint[op[c]].writes /\ result'[c] = "refused" => ~applied'[c] /\ late'[c] = 0
    <3>1. result'[c] = "refused" =>
            request[c] = Endpoint[op[c]].refused /\ request[c] # "none"
      BY <2>2, EndpointFacts DEF Told
    <3> QED
      BY <1>0, <2>2, <3>1, EndpointFacts DEF CallInv
  <2> QED
    BY <1>0, <2>2, <2>3, <2>4 DEF CallInv
<1>4. CASE CallAttemptFails(c)
  <2>1. /\ op'[c] = op[c] /\ request'[c] = "none" /\ late'[c] \in Nat
        /\ applied'[c] = applied[c] /\ phase[c] = "attempt"
        /\ phase'[c] \in {"idle", "backoff"}
        /\ result'[c] = IF phase'[c] = "idle" THEN "upstream" ELSE result[c]
        /\ phase'[c] = "backoff" => attempts[c] # Limit(c)
    <3>1. AttemptFails(c)
      BY <1>4 DEF CallAttemptFails
    <3>2. /\ phase[c] = "attempt" /\ phase'[c] \in {"idle", "backoff"}
          /\ phase'[c] = "backoff" => attempts[c] # Limit(c)
      BY <3>1 DEF AttemptFails, End
    <3>3. /\ op'[c] = op[c] /\ request'[c] = "none" /\ late'[c] \in Nat
          /\ applied'[c] = applied[c]
          /\ result'[c] = IF phase'[c] = "idle" THEN "upstream" ELSE result[c]
      BY <1>4 DEF CallAttemptFails
    <3> QED
      BY <3>2, <3>3
  <2>2. phase'[c] = "backoff" => c \in Repeatable
    BY <1>0, <2>1 DEF CallInv, Limit
  <2>3. result'[c] \in {"none", "upstream"} /\ (phase'[c] # "idle" => result'[c] = "none")
    BY <1>0, <2>1 DEF CallInv
  <2>4. phase'[c] # "attempt"
    BY <2>1
  <2> QED
    BY <1>0, <2>1, <2>2, <2>3, <2>4 DEF CallInv
<1>5. CASE CallRetries(c)
  <2>1. /\ op'[c] = op[c] /\ request'[c] = "sent" /\ late'[c] = late[c]
        /\ applied'[c] = applied[c] /\ result'[c] = result[c]
        /\ phase[c] = "backoff" /\ phase'[c] = "attempt" /\ attempts'[c] = attempts[c] + 1
    BY <1>5 DEF CallRetries, Retry
  <2> QED
    BY <1>0, <2>1, EndpointFacts DEF CallInv
<1>6. CASE CallGivesUp(c)
  <2>1. /\ op'[c] = op[c] /\ request'[c] = request[c] /\ late'[c] = late[c]
        /\ applied'[c] = applied[c] /\ result'[c] = "upstream"
        /\ phase[c] = "backoff" /\ phase'[c] = "idle"
    BY <1>6 DEF CallGivesUp, GiveUp, End
  <2> QED
    BY <1>0, <2>1 DEF CallInv
<1>7. CASE Serve(c)
  <2>1. op[c] \in Op /\ phase[c] = "attempt" /\ request[c] = "sent"
    BY <1>0, <1>7 DEF CallInv, Serve
  <2>2. PICK status \in Final(op[c]) \cup {"500"} :
          /\ request'[c] = status
          /\ \E done \in Effects(op[c], status) : applied'[c] = (applied[c] \/ done)
    BY <1>7, <2>1 DEF Serve
  <2>3. PICK done \in Effects(op[c], status) : applied'[c] = (applied[c] \/ done)
    BY <2>2
  <2>4. UNCHANGED <<op[c], phase[c], attempts[c], late[c], result[c]>>
    BY <1>7 DEF Serve, vars, callVars
  <2>5. /\ done \in BOOLEAN
        /\ Endpoint[op[c]].writes /\ status = Endpoint[op[c]].ok => done
        /\ status \notin {"500", Endpoint[op[c]].ok} => ~done
    BY <2>1, EffectsFacts
  <2>6. c \notin Repeatable => ~applied[c] /\ late[c] = 0
    BY <1>0, <2>1, EndpointFacts DEF CallInv
  <2>7. result[c] = "none"
    BY <1>0, <2>1 DEF CallInv
  <2>8. applied'[c] \in BOOLEAN /\ status \in {"sent", "500"} \cup Final(op[c])
    BY <1>0, <2>5, <2>3 DEF CallInv
  <2>9. status \notin {"500", Endpoint[op[c]].ok} /\ c \notin Repeatable => ~applied'[c]
    BY <2>5, <2>6, <2>3
  <2>10. Endpoint[op[c]].writes /\ status = Endpoint[op[c]].ok => applied'[c]
    BY <2>5, <2>3
  <2>11. request'[c] = status
    BY <2>2
  <2> QED
    BY <1>0, <2>1, <2>4, <2>6, <2>7, <2>8, <2>9, <2>10, <2>11 DEF CallInv
<1>8. CASE ServeLate(c)
  <2>1. UNCHANGED <<op[c], phase[c], attempts[c], request[c], result[c]>>
    BY <1>8 DEF ServeLate, vars, callVars
  <2>2. PICK done : late[c] > 0 /\ late'[c] = late[c] - 1 /\ applied'[c] = (applied[c] \/ done)
    BY <1>8 DEF ServeLate
  <2>3. applied'[c] \in BOOLEAN /\ late'[c] \in Nat /\ (applied[c] => applied'[c])
    BY <1>0, <2>2 DEF CallInv
  <2> QED
    BY <1>0, <2>1, <2>2, <2>3 DEF CallInv
<1> QED
  BY <1>1, <1>2, <1>3, <1>4, <1>5, <1>6, <1>7, <1>8

LEMMA CallsInvStep == CallsTypeOK /\ CallsInv /\ AttemptsInv /\ [CallsNext]_allVars => CallsInv'
<1> SUFFICES ASSUME CallsTypeOK, CallsInv, AttemptsInv, [CallsNext]_allVars,
                    NEW d \in Call
             PROVE  CallInv(d)'
  BY DEF CallsInv
<1>0. CallInv(d)
  BY DEF CallsInv
<1>1. CASE \E c \in Call :
             \/ \E o \in Op : CallBegins(c, o) \/ CallRefused(c, o)
             \/ CallAnswered(c) \/ CallAttemptFails(c) \/ CallRetries(c) \/ CallGivesUp(c)
             \/ Serve(c) \/ ServeLate(c)
  BY <1>0, <1>1, CallStays, OthersStay, OthersKept
<1>2. CASE Around
  <2>1. UNCHANGED <<phase, attempts>>
    BY <1>2 DEF Around, BreakerTimeout, UpstreamChanges, CallerLeaves, callVars
  <2> QED
    BY <1>0, <1>2, <2>1, OthersKept DEF Around, requestVars, callVarsOf
<1>3. CASE UNCHANGED allVars
  BY <1>0, <1>3, OthersKept DEF allVars, vars, callVars, requestVars, callVarsOf
<1> QED
  BY <1>1, <1>2, <1>3 DEF CallsNext

(* The client, its types and the calls around it, together.                *)
THEOREM CallsCorrect == CallsSpec => [](CallsTypeOK /\ CallsInv)
<1> DEFINE IInv == ClientInv /\ CallsTypeOK /\ CallsInv
<1>1. CallsInit => IInv
  BY InitClient, CallsTypeInit, CallsInvInit DEF CallsInit
<1>2. IInv /\ [CallsNext]_allVars => IInv'
  <2> SUFFICES ASSUME IInv, [CallsNext]_allVars PROVE IInv'
    OBVIOUS
  <2>1. ClientInv'
    BY CallsStep, NextClient
  <2> QED
    BY <2>1, CallsTypeStep, CallsInvStep DEF ClientInv
<1> QED
  BY <1>1, <1>2, PTL DEF CallsSpec

(* Types of the calls, and no request attempted again that must not be.    *)
THEOREM CallsTypeCorrect == CallsSpec => []CallsTypeOK
BY CallsCorrect, PTL

(* A write told to be done is done; one told to be refused is not done and *)
(* nothing of it is on its way.                                            *)
THEOREM AnswerIsTrueHolds == CallsSpec => []AnswerIsTrue
<1>1. CallsInv => AnswerIsTrue
  BY DEF CallsInv, CallInv, AnswerIsTrue
<1> QED
  BY <1>1, CallsCorrect, PTL
=============================================================================
