----------------------------- MODULE Resilience -----------------------------
(***************************************************************************)
(* The client of one upstream service (resilience.Transport): concurrent   *)
(* calls, each of which may be attempted several times, share a circuit    *)
(* breaker (gobreaker) that counts a call, with its retries, once.         *)
(*                                                                         *)
(* gobreaker tells by a generation number whether the outcome of a call    *)
(* still matters; only the comparison does, so the model keeps the calls   *)
(* that were admitted in the present generation.                           *)
(***************************************************************************)
EXTENDS Naturals, FiniteSets

CONSTANTS
  Call,         \* goroutines that make calls, one after another
  Repeatable,   \* those whose requests may be repeated: safe methods, or
                \* RetryNonIdempotent and a body that can be rewound
  MaxAttempts,  \* Retry.MaxAttempts (3)
  Threshold     \* BreakerThreshold (5)

ASSUME CallAssumption  == Repeatable \subseteq Call
ASSUME LimitAssumption == MaxAttempts \in Nat \ {0} /\ Threshold \in Nat \ {0}

VARIABLES
  phase,     \* where each call stands
  attempts,  \* how many times it has been attempted
  gone,      \* calls whose caller has given up (the request's context)
  counted,   \* calls under way that the present generation admitted
  breaker,   \* its state, consecutive failures, probes admitted since it is
             \* half open, and whether BreakerTimeout has passed
  up         \* does the upstream answer in time, and not with a 5xx or a 429?

callVars == <<phase, attempts, gone>>
vars == <<callVars, counted, breaker, up>>

Breaker == [state : {"closed", "open", "half-open"}, failures : Nat, probes : Nat,
            expired : BOOLEAN]

TypeOK ==
  /\ phase \in [Call -> {"idle", "attempt", "backoff"}]
  /\ attempts \in [Call -> 0..MaxAttempts]
  /\ \A c \in Call : attempts[c] > 1 => c \in Repeatable
  /\ gone \subseteq Call
  /\ counted \subseteq Call
  /\ breaker \in Breaker
  /\ up \in BOOLEAN

(* The start of a generation.                                              *)
New(state) == [state |-> state, failures |-> 0, probes |-> 0, expired |-> FALSE]

Init ==
  /\ phase = [c \in Call |-> "idle"]
  /\ attempts = [c \in Call |-> 0]
  /\ gone = {}
  /\ counted = {}
  /\ breaker = New("closed")
  /\ up = TRUE

-----------------------------------------------------------------------------
(* The breaker, as RoundTrip configures it (MaxRequests 1, no Interval).   *)

(* Its timer is looked at when a call begins or ends.                      *)
CurrentState == IF breaker.state = "open" /\ breaker.expired THEN New("half-open") ELSE breaker

\* BUG: MaxRequests is left out.
AdmitsAll(b) == b.state # "open"

Admits(b) == b.state = "closed" \/ (b.state = "half-open" /\ b.probes < 1)

Failed(b) ==
  IF b.state = "half-open" \/ b.failures + 1 >= Threshold
    THEN New("open") ELSE [b EXCEPT !.failures = @ + 1]

Succeeded(b) == IF b.state = "half-open" THEN New("closed") ELSE [b EXCEPT !.failures = 0]

(* Another state is another generation.                                    *)
SameGeneration == breaker'.state = breaker.state

BeforeRequest(c) ==
  /\ Admits(CurrentState)
  /\ breaker' = IF CurrentState.state = "half-open"
                  THEN [CurrentState EXCEPT !.probes = @ + 1] ELSE CurrentState
  /\ counted' = IF SameGeneration THEN counted \cup {c} ELSE {c}

\* BUG: the outcome of a call counts whenever the call began.
AfterAnyRequest(c, ok) ==
  /\ breaker' = IF ok THEN Succeeded(CurrentState) ELSE Failed(CurrentState)
  /\ counted' = IF SameGeneration THEN counted \ {c} ELSE {}

AfterRequest(c, ok) ==
  /\ breaker' =
       CASE c \notin counted \/ CurrentState # breaker -> CurrentState
         [] c \in counted /\ CurrentState = breaker ->
              IF ok THEN Succeeded(breaker) ELSE Failed(breaker)
  /\ counted' = IF SameGeneration THEN counted \ {c} ELSE {}

-----------------------------------------------------------------------------
(* A call (RoundTrip, roundTripWithRetry).  One the breaker refuses fails  *)
(* at once and changes nothing.                                            *)

\* BUG: every request is repeated.
LimitForAll(c) == MaxAttempts

Limit(c) == IF c \in Repeatable THEN MaxAttempts ELSE 1

Begin(c) ==
  /\ phase[c] = "idle"
  /\ BeforeRequest(c)
  /\ phase' = [phase EXCEPT ![c] = "attempt"]
  /\ attempts' = [attempts EXCEPT ![c] = 1]
  /\ UNCHANGED <<gone, up>>

\* BUG: a call given up is no failure, and the breaker is not told.
EndUntold(c, ok) ==
  /\ phase' = [phase EXCEPT ![c] = "idle"]
  /\ attempts' = [attempts EXCEPT ![c] = 0]
  /\ gone' = gone \ {c}
  /\ IF c \in gone /\ ~ok THEN UNCHANGED <<breaker, counted>> ELSE AfterRequest(c, ok)
  /\ UNCHANGED up

End(c, ok) ==
  /\ phase' = [phase EXCEPT ![c] = "idle"]
  /\ attempts' = [attempts EXCEPT ![c] = 0]
  /\ gone' = gone \ {c}
  /\ AfterRequest(c, ok)
  /\ UNCHANGED up

(* 2xx, or 4xx, which is an answer too.                                    *)
Answered(c) ==
  /\ phase[c] = "attempt"
  /\ up
  /\ End(c, TRUE)

\* BUG: no timeout per attempt: one without an answer waits for its caller.
AttemptFailsWhenGone(c) ==
  /\ phase[c] = "attempt"
  /\ c \in gone
  /\ End(c, FALSE)

(* No connection, 5xx, 429, AttemptTimeout, or a context given up.  It is  *)
(* the last attempt when the limit is reached or nobody waits any more.    *)
AttemptFails(c) ==
  /\ phase[c] = "attempt"
  /\ ~up \/ c \in gone
  /\ IF attempts[c] = Limit(c) \/ c \in gone
       THEN End(c, FALSE)
       ELSE /\ phase' = [phase EXCEPT ![c] = "backoff"]
            /\ UNCHANGED <<attempts, gone, counted, breaker, up>>

(* The backoff has passed.  The select may take this branch although the   *)
(* caller has gone too; the attempt then fails at once.                    *)
Retry(c) ==
  /\ phase[c] = "backoff"
  /\ phase' = [phase EXCEPT ![c] = "attempt"]
  /\ attempts' = [attempts EXCEPT ![c] = @ + 1]
  /\ UNCHANGED <<gone, counted, breaker, up>>

GiveUp(c) ==
  /\ phase[c] = "backoff"
  /\ c \in gone
  /\ End(c, FALSE)

-----------------------------------------------------------------------------
(* What happens around the client.                                         *)

CallerLeaves(c) ==
  /\ phase[c] # "idle"
  /\ gone' = gone \cup {c}
  /\ UNCHANGED <<phase, attempts, counted, breaker, up>>

BreakerTimeout ==
  /\ breaker.state = "open"
  /\ breaker' = [breaker EXCEPT !.expired = TRUE]
  /\ UNCHANGED <<callVars, counted, up>>

UpstreamChanges ==
  /\ up' = ~up
  /\ UNCHANGED <<callVars, counted, breaker>>

-----------------------------------------------------------------------------
Next ==
  \/ \E c \in Call :
       Begin(c) \/ Answered(c) \/ AttemptFails(c) \/ Retry(c) \/ GiveUp(c) \/ CallerLeaves(c)
  \/ BreakerTimeout
  \/ UpstreamChanges

Spec == Init /\ [][Next]_vars

(* An attempt ends, by AttemptTimeout at the latest; timers fire.          *)
Fairness ==
  /\ \A c \in Call : WF_vars(Answered(c) \/ AttemptFails(c)) /\ WF_vars(Retry(c) \/ GiveUp(c))
  /\ WF_vars(BreakerTimeout)

FairSpec == Spec /\ Fairness

-----------------------------------------------------------------------------
(* A half-open breaker lets at most one call through, however many begin,  *)
(* and one it has let through it waits for: it never refuses every call    *)
(* while none is under way that could close it.                            *)
OneProbe ==
  breaker.state = "half-open" =>
    /\ Cardinality(counted) = breaker.probes /\ breaker.probes <= 1
    /\ \A c \in counted : phase[c] # "idle"

(* That call alone decides: a breaker leaves the half-open state when the  *)
(* call it admitted in it ends, to the state its outcome demands.  A call  *)
(* that began before the breaker opened, and ends late, decides nothing.   *)
ProbeDecides ==
  [][breaker.state = "half-open" /\ breaker'.state # "half-open" =>
       \E c \in counted :
         \/ breaker'.state = "closed" /\ Answered(c)
         \/ breaker'.state = "open" /\ (AttemptFails(c) \/ GiveUp(c))]_vars

(* Every call ends, whatever the upstream does and though its caller waits.*)
EveryCallEnds == \A c \in Call : phase[c] # "idle" ~> phase[c] = "idle"
=============================================================================
