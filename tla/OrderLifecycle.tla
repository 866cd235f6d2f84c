--------------------------- MODULE OrderLifecycle ---------------------------
(***************************************************************************)
(* What the order service promises the callers of its API about the orders,*)
(* as its OpenAPI document shows them: an id names one order for ever, an  *)
(* order is there with its first status or not at all, one whose POST was  *)
(* answered with 201 is never taken away again, and order.cancelled is told*)
(* of an order only together with its cancellation.                        *)
(***************************************************************************)
CONSTANTS
  Order,     \* orders.id
  Status,    \* the statuses an order can have
  NULL       \* no row

VARIABLES
  status,    \* the status of each order that has a row
  gone,      \* the ids that will never name an order (again)
  accepted,  \* the orders a 201 was answered for
  told       \* the orders the topic was told were cancelled

vars == <<status, gone, accepted, told>>

Init ==
  /\ status = [o \in Order |-> NULL]
  /\ gone = {} /\ accepted = {} /\ told = {}

Exists(o) == status[o] # NULL

(* The row is committed: an id names an order.  POST /orders answers 201   *)
(* with it, a checkout later or never.                                     *)
Place(o, first) ==
  /\ ~Exists(o) /\ o \notin gone
  /\ status' = [status EXCEPT ![o] = first]
  /\ accepted' \in {accepted, accepted \cup {o}}
  /\ UNCHANGED <<gone, told>>

Accept(o) ==
  /\ Exists(o)
  /\ accepted' = accepted \cup {o}
  /\ UNCHANGED <<status, gone, told>>

(* The transaction that took the id from the sequence is rolled back.      *)
Discard(o) ==
  /\ ~Exists(o)
  /\ gone' = gone \cup {o}
  /\ UNCHANGED <<status, accepted, told>>

(* PUT.                                                                    *)
Write(o, next) ==
  /\ Exists(o)
  /\ status' = [status EXCEPT ![o] = next]
  /\ UNCHANGED <<gone, accepted, told>>

Cancel(o) ==
  /\ Exists(o) /\ status[o] \notin {"shipped", "cancelled"}
  /\ status' = [status EXCEPT ![o] = "cancelled"]
  /\ told' = told \cup {o}
  /\ UNCHANGED <<gone, accepted>>

(* A checkout that could not be completed takes its order back.            *)
Remove(o) ==
  /\ Exists(o) /\ o \notin accepted
  /\ status' = [status EXCEPT ![o] = NULL]
  /\ gone' = gone \cup {o}
  /\ UNCHANGED <<accepted, told>>

Next ==
  \E o \in Order :
    \/ \E s \in Status : Place(o, s) \/ Write(o, s)
    \/ Accept(o) \/ Discard(o) \/ Cancel(o) \/ Remove(o)

Spec == Init /\ [][Next]_vars
=============================================================================
