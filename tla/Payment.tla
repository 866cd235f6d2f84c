------------------------------- MODULE Payment -------------------------------
(***************************************************************************)
(* The payment service: payments created by the order service's checkout,  *)
(* moved by PUT (the notifications of the payment provider), and refunded  *)
(* or voided by the consumer of order.cancelled.                           *)
(*                                                                         *)
(* A PUT is one transaction that writes one row and, for a settled status, *)
(* its outbox row; it is one action.  The compensation is a transaction of *)
(* two UPDATEs, each of which sees what was committed when it started, so  *)
(* it is two actions.                                                      *)
(***************************************************************************)
EXTENDS Integers, FiniteSets

CONSTANTS
  Order,       \* orders
  Key,         \* idempotency keys, one per checkout
  OrderOf,     \* the order each key was issued for
  PaymentId,   \* payments.id, taken in ascending order
  PutStatus,   \* the statuses a PUT may carry
  MaxPut,      \* bound on the PUTs that settle one payment
  NULL         \* no row; no transaction

ASSUME IdAssumption  == PaymentId \subseteq Nat
ASSUME KeyAssumption == OrderOf \in [Key -> Order]
ASSUME PutAssumption == MaxPut \in Nat

(* event.IsSettled: the statuses that mean that the money is in.           *)
SettledStatus == {"paid", "settled", "captured"}

Status == {"pending", "refunded", "cancelled"} \cup PutStatus

Row == [key : Key, status : Status]

ASSUME NoRowAssumption == NULL \notin Row

VARIABLES
  payments,   \* the row of each payment id, or NULL
  outbox,     \* how many payment.settled rows the outbox has for each payment
  refunding,  \* for each order, the payments an open compensation transaction
              \* has set to refunded, or NULL when there is none
  refunds,    \* how often each payment was refunded
  answered    \* the payments that callers of CreatePayment were told, by key

vars == <<payments, outbox, refunding, refunds, answered>>

TypeOK ==
  /\ payments \in [PaymentId -> Row \cup {NULL}]
  /\ outbox \in [PaymentId -> 0..MaxPut]
  /\ refunding \in [Order -> (SUBSET PaymentId) \cup {NULL}]
  /\ refunds \in [PaymentId -> Nat]
  /\ answered \in [Key -> SUBSET PaymentId]

Init ==
  /\ payments = [id \in PaymentId |-> NULL]
  /\ outbox = [id \in PaymentId |-> 0]
  /\ refunding = [o \in Order |-> NULL]
  /\ refunds = [id \in PaymentId |-> 0]
  /\ answered = [k \in Key |-> {}]

-----------------------------------------------------------------------------
Used == {id \in PaymentId : payments[id] # NULL}

PaymentsOf(o) == {id \in Used : OrderOf[payments[id].key] = o}

PaymentWithKey(k) == {id \in Used : payments[id].key = k}

IsSettled(id) == payments[id].status \in SettledStatus

(* The rows locked by the first UPDATE of open compensations.              *)
Locked == UNION {refunding[o] : o \in {p \in Order : refunding[p] # NULL}}

-----------------------------------------------------------------------------
(* POST /payments with the status "pending", as the order service sends it *)
(* (once per attempt of its retrying client): ON CONFLICT DO NOTHING on the*)
(* key, then the row that has it.                                          *)

InsertPayment(k) ==
  /\ PaymentWithKey(k) = {}
  /\ \E id \in PaymentId \ Used :
       /\ \A i \in PaymentId : i < id => i \in Used
       /\ payments' = [payments EXCEPT ![id] = [key |-> k, status |-> "pending"]]
       /\ answered' = [answered EXCEPT ![k] = @ \cup {id}]
  /\ UNCHANGED <<outbox, refunding, refunds>>

GetPaymentByIdempotencyKey(k) ==
  /\ PaymentWithKey(k) # {}
  /\ answered' = [answered EXCEPT ![k] = @ \cup PaymentWithKey(k)]
  /\ UNCHANGED <<payments, outbox, refunding, refunds>>

\* BUG: no conflict target: every attempt inserts a row.
CreatePaymentAgain(k) ==
  /\ \E id \in PaymentId \ Used :
       /\ \A i \in PaymentId : i < id => i \in Used
       /\ payments' = [payments EXCEPT ![id] = [key |-> k, status |-> "pending"]]
       /\ answered' = [answered EXCEPT ![k] = @ \cup {id}]
  /\ UNCHANGED <<outbox, refunding, refunds>>

CreatePayment(k) == InsertPayment(k) \/ GetPaymentByIdempotencyKey(k)

-----------------------------------------------------------------------------
(* PUT /payments/{id}: any status over any other.  A row an open           *)
(* compensation has updated is locked until that transaction ends.         *)

UpdatePayment(id, status) ==
  /\ id \in Used \ Locked
  /\ status \in SettledStatus => outbox[id] < MaxPut
  /\ payments' = [payments EXCEPT ![id].status = status]
  /\ outbox' = [outbox EXCEPT ![id] = IF status \in SettledStatus THEN @ + 1 ELSE @]
  /\ UNCHANGED <<refunding, refunds, answered>>

-----------------------------------------------------------------------------
(* The consumer of order.cancelled: RefundByOrder.                         *)

\* BUG: the status is not in the WHERE clause.
RefundableAnyStatus(o) == PaymentsOf(o)

\* BUG: only one of the settled statuses is.
RefundableWhenPaid(o) == {id \in PaymentsOf(o) : payments[id].status = "paid"}

Refundable(o) == {id \in PaymentsOf(o) : IsSettled(id)}

(* RefundPaymentByOrder, the first UPDATE.                                 *)
RefundPaymentByOrder(o) ==
  /\ refunding[o] = NULL
  /\ refunding' = [refunding EXCEPT ![o] = Refundable(o)]
  /\ UNCHANGED <<payments, outbox, refunds, answered>>

(* VoidPendingPaymentByOrder, the second, and the commit of both.          *)
VoidPendingPaymentByOrder(o) ==
  /\ refunding[o] # NULL
  /\ payments' = [id \in PaymentId |->
       CASE id \in refunding[o] -> [payments[id] EXCEPT !.status = "refunded"]
         [] id \in PaymentsOf(o) /\ payments[id].status = "pending" ->
              [payments[id] EXCEPT !.status = "cancelled"]
         [] OTHER -> payments[id]]
  /\ refunds' = [id \in PaymentId |-> IF id \in refunding[o] THEN refunds[id] + 1 ELSE refunds[id]]
  /\ refunding' = [refunding EXCEPT ![o] = NULL]
  /\ UNCHANGED <<outbox, answered>>

(* An error or a stop in between: the transaction is rolled back, and the  *)
(* event is delivered again.                                               *)
RefundFails(o) ==
  /\ refunding[o] # NULL
  /\ refunding' = [refunding EXCEPT ![o] = NULL]
  /\ UNCHANGED <<payments, outbox, refunds, answered>>

-----------------------------------------------------------------------------
Next ==
  \/ \E k \in Key : CreatePayment(k)
  \/ \E id \in PaymentId, status \in PutStatus : UpdatePayment(id, status)
  \/ \E o \in Order :
       RefundPaymentByOrder(o) \/ VoidPendingPaymentByOrder(o) \/ RefundFails(o)

Spec == Init /\ [][Next]_vars

-----------------------------------------------------------------------------
(* However often the checkout's client sends a request again, its key has  *)
(* one payment and every answer names it: retried POSTs do not charge twice*)
(* (ADR 202606261214).                                                     *)
NoDoubleCharge ==
  \A k \in Key :
    /\ Cardinality(PaymentWithKey(k)) <= 1
    /\ answered[k] \subseteq PaymentWithKey(k)

(* No payment is refunded more often than it was settled and announced, and*)
(* the money of a settled one is still there: order.cancelled handled again*)
(* pays nothing back twice (ADR 202606261702), whatever PUTs come between. *)
RefundsBacked ==
  \A id \in PaymentId :
    /\ refunds[id] <= outbox[id]
    /\ id \in Used /\ IsSettled(id) => refunds[id] < outbox[id]

(* "確定済みは返金・未確定はキャンセルへ倒す" (rdb/command.go): when        *)
(* RefundByOrder has committed, each payment the order then had is refunded*)
(* or cancelled.                                                           *)
CompensationComplete ==
  [][\A o \in Order : VoidPendingPaymentByOrder(o) =>
       \A id \in PaymentsOf(o) :
         payments'[id].status \notin SettledStatus \cup {"pending"}]_vars
=============================================================================
