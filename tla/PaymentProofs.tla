---------------------------- MODULE PaymentProofs ----------------------------
(***************************************************************************)
(* Theorems about the payment service, for any orders, keys, payments and  *)
(* statuses, and any number of PUTs and compensations.                     *)
(***************************************************************************)
EXTENDS Payment, TLAPS, FiniteSetTheorems

USE IdAssumption, KeyAssumption, PutAssumption, NoRowAssumption

-----------------------------------------------------------------------------
(* The inductive invariant.                                                *)

(* What an open compensation has updated are settled payments of its order:*)
(* the row locks keep them so until it ends.                               *)
RefundingInv ==
  \A o \in Order : refunding[o] # NULL =>
    \A id \in refunding[o] : id \in PaymentsOf(o) /\ IsSettled(id)

(* A key names one payment, and answers name the payment of their key.     *)
KeyInv ==
  /\ \A i, j \in Used : payments[i].key = payments[j].key => i = j
  /\ \A k \in Key : answered[k] \subseteq PaymentWithKey(k)

PaymentInv == TypeOK /\ RefundingInv /\ KeyInv /\ RefundsBacked

-----------------------------------------------------------------------------
(* Facts about one row.                                                    *)

LEMMA UsedType ==
  ASSUME TypeOK, NEW id \in Used
  PROVE  id \in PaymentId /\ payments[id] \in Row
BY DEF TypeOK, Used

(* The row of a payment with its status replaced.                          *)
With(row, status) == [row EXCEPT !.status = status]

LEMMA WithType ==
  ASSUME NEW row \in Row, NEW status \in Status
  PROVE  /\ With(row, status) \in Row
         /\ With(row, status).key = row.key
         /\ With(row, status).status = status
BY DEF With, Row

-----------------------------------------------------------------------------
(* The two statements that change rows, in the form the proofs use.        *)

(* A step that creates a row on an unused id.                              *)
Creates(k, id) ==
  /\ id \in PaymentId \ Used
  /\ PaymentWithKey(k) = {}
  /\ payments' = [payments EXCEPT ![id] = [key |-> k, status |-> "pending"]]
  /\ answered' = [answered EXCEPT ![k] = @ \cup {id}]
  /\ UNCHANGED <<outbox, refunding, refunds>>

LEMMA CreateStep ==
  ASSUME PaymentInv, NEW k \in Key, NEW id, Creates(k, id)
  PROVE  PaymentInv'
<1> DEFINE new == [key |-> k, status |-> "pending"]
<1>1. new \in Row /\ new # NULL /\ new.key = k /\ new.status = "pending"
  BY DEF Row, Status
<1> HIDE DEF new
<1>2. id \in PaymentId /\ id \notin Used /\ payments[id] = NULL
  BY DEF Creates, Used
<1>3. /\ payments' = [payments EXCEPT ![id] = new]
      /\ answered' = [answered EXCEPT ![k] = @ \cup {id}]
      /\ UNCHANGED <<outbox, refunding, refunds>>
  BY DEF Creates, new
<1>4. TypeOK
  BY DEF PaymentInv
<1>5. payments'[id] = new /\ \A i \in PaymentId \ {id} : payments'[i] = payments[i]
  BY <1>2, <1>3, <1>4 DEF TypeOK
<1>6. Used' = Used \cup {id} /\ \A i \in Used : payments'[i] = payments[i]
  BY <1>1, <1>2, <1>5 DEF Used
<1>7. TypeOK'
  BY <1>1, <1>2, <1>3, <1>4 DEF TypeOK
<1>8. RefundingInv'
  BY <1>3, <1>6 DEF PaymentInv, RefundingInv, PaymentsOf, IsSettled
<1>9. KeyInv'
  <2>1. \A i \in Used : payments[i].key # k
    BY DEF Creates, PaymentWithKey
  <2>2. \A i, j \in Used' : payments'[i].key = payments'[j].key => i = j
    BY <1>1, <1>5, <1>6, <2>1 DEF PaymentInv, KeyInv
  <2>3. \A q \in Key : PaymentWithKey(q)' = PaymentWithKey(q) \cup (IF q = k THEN {id} ELSE {})
    BY <1>1, <1>2, <1>5, <1>6 DEF PaymentWithKey
  <2>4. \A q \in Key : answered'[q] = answered[q] \cup (IF q = k THEN {id} ELSE {})
    BY <1>3, <1>4 DEF TypeOK
  <2> QED
    BY <2>2, <2>3, <2>4 DEF PaymentInv, KeyInv
<1>10. RefundsBacked'
  BY <1>1, <1>3, <1>5, <1>6 DEF PaymentInv, RefundsBacked, IsSettled, SettledStatus
<1> QED
  BY <1>7, <1>8, <1>9, <1>10 DEF PaymentInv

(* A PUT.                                                                  *)
LEMMA PutStep ==
  ASSUME PaymentInv, NEW id \in PaymentId, NEW status \in PutStatus, UpdatePayment(id, status)
  PROVE  PaymentInv'
<1>1. /\ TypeOK /\ id \in Used /\ payments[id] \in Row /\ status \in Status
      /\ \A o \in Order : refunding[o] # NULL => id \notin refunding[o]
  BY UsedType DEF PaymentInv, UpdatePayment, Status, Locked
<1>2. /\ payments' = [payments EXCEPT ![id] = With(payments[id], status)]
      /\ outbox' = [outbox EXCEPT ![id] = IF status \in SettledStatus THEN @ + 1 ELSE @]
      /\ UNCHANGED <<refunding, refunds, answered>>
  BY <1>1 DEF UpdatePayment, With
<1>3. /\ payments'[id] \in Row /\ payments'[id].key = payments[id].key
      /\ payments'[id].status = status
      /\ \A i \in PaymentId \ {id} : payments'[i] = payments[i]
  BY <1>1, <1>2, WithType DEF TypeOK
<1>4. Used' = Used /\ \A i \in Used : payments'[i].key = payments[i].key
  BY <1>1, <1>3 DEF Used
<1>5. TypeOK'
  <2>1. outbox' \in [PaymentId -> 0..MaxPut]
    BY <1>1, <1>2 DEF UpdatePayment, TypeOK
  <2> QED
    BY <1>1, <1>2, <1>3, <2>1 DEF TypeOK
<1>6. RefundingInv'
  BY <1>1, <1>2, <1>3, <1>4 DEF PaymentInv, RefundingInv, PaymentsOf, IsSettled, Used
<1>7. KeyInv'
  BY <1>2, <1>4 DEF PaymentInv, KeyInv, PaymentWithKey
<1>8. RefundsBacked'
  <2>1. \A i \in PaymentId : refunds[i] \in Nat /\ outbox[i] \in Nat
    BY <1>1 DEF TypeOK
  <2>2. ASSUME NEW i \in PaymentId, i # id
        PROVE  /\ refunds'[i] <= outbox'[i]
               /\ i \in Used' /\ payments'[i].status \in SettledStatus => refunds'[i] < outbox'[i]
    BY <1>1, <1>2, <1>3, <1>4, <2>2 DEF PaymentInv, RefundsBacked, IsSettled, TypeOK
  <2>3. /\ refunds'[id] <= outbox'[id]
        /\ payments'[id].status \in SettledStatus => refunds'[id] < outbox'[id]
    <3>1. refunds[id] <= outbox[id] /\ refunds'[id] = refunds[id]
      BY <1>2 DEF PaymentInv, RefundsBacked
    <3>2. CASE status \in SettledStatus
      <4>1. outbox'[id] = outbox[id] + 1
        BY <1>1, <1>2, <3>2 DEF TypeOK
      <4> QED
        BY <2>1, <3>1, <4>1
    <3>3. CASE status \notin SettledStatus
      <4>1. outbox'[id] = outbox[id]
        BY <1>1, <1>2, <3>3 DEF TypeOK
      <4> QED
        BY <1>3, <3>1, <3>3, <4>1
    <3> QED
      BY <3>2, <3>3
  <2> QED
    BY <2>2, <2>3 DEF RefundsBacked, IsSettled
<1> QED
  BY <1>5, <1>6, <1>7, <1>8 DEF PaymentInv

(* The commit of a compensation.                                           *)
LEMMA VoidStep ==
  ASSUME PaymentInv, NEW o \in Order, VoidPendingPaymentByOrder(o)
  PROVE  PaymentInv'
<1> DEFINE Pending == {id \in PaymentsOf(o) : payments[id].status = "pending"}
<1>1. TypeOK /\ (\A id \in Used : payments[id] \in Row) /\ Used \subseteq PaymentId
  BY UsedType DEF PaymentInv
<1>2. /\ refunding[o] \subseteq PaymentsOf(o) /\ \A id \in refunding[o] : IsSettled(id)
      /\ Pending \subseteq PaymentsOf(o) /\ PaymentsOf(o) \subseteq Used
  BY DEF PaymentInv, RefundingInv, VoidPendingPaymentByOrder, PaymentsOf, TypeOK
<1>3. /\ refunds' = [id \in PaymentId |-> IF id \in refunding[o] THEN refunds[id] + 1 ELSE refunds[id]]
      /\ refunding' = [refunding EXCEPT ![o] = NULL]
      /\ UNCHANGED <<outbox, answered>>
  BY DEF VoidPendingPaymentByOrder
<1>4. payments' = [id \in PaymentId |->
         CASE id \in refunding[o] -> With(payments[id], "refunded")
           [] id \in Pending -> With(payments[id], "cancelled")
           [] OTHER -> payments[id]]
  BY DEF VoidPendingPaymentByOrder, With
<1>5. DOMAIN payments' = PaymentId
  BY <1>4
<1>6. \A id \in Pending : id \notin refunding[o]
  BY <1>2 DEF IsSettled, SettledStatus
<1>7. \A id \in refunding[o] : payments'[id] = With(payments[id], "refunded")
  BY <1>1, <1>2, <1>4, <1>6
<1>8. \A id \in Pending : payments'[id] = With(payments[id], "cancelled")
  BY <1>1, <1>2, <1>4, <1>6
<1>9. \A id \in PaymentId : id \notin refunding[o] /\ id \notin Pending => payments'[id] = payments[id]
  BY <1>4
<1> HIDE DEF Pending
<1>10. \A id \in Used : payments'[id] \in Row /\ payments'[id].key = payments[id].key
  BY <1>1, <1>2, <1>7, <1>8, <1>9, WithType DEF Status
<1>11. \A id \in PaymentId : id \notin Used => payments'[id] = NULL
  BY <1>2, <1>9 DEF Used
<1>12. Used' = Used
  BY <1>10, <1>11 DEF Used
<1>13. \A id \in Used : payments'[id].status \in SettledStatus =>
         id \notin refunding[o] /\ payments'[id].status = payments[id].status
  <2>0. "refunded" \in Status /\ "cancelled" \in Status
    BY DEF Status
  <2>1. ASSUME NEW id \in refunding[o] PROVE payments'[id].status = "refunded"
    <3>1. payments[id] \in Row
      BY <1>1, <1>2
    <3> QED
      BY <1>7, <2>0, <3>1, WithType
  <2>2. ASSUME NEW id \in Pending PROVE payments'[id].status = "cancelled"
    <3>1. payments[id] \in Row
      BY <1>1, <1>2
    <3> QED
      BY <1>8, <2>0, <3>1, WithType
  <2>3. "refunded" \notin SettledStatus /\ "cancelled" \notin SettledStatus
    BY DEF SettledStatus
  <2> QED
    BY <1>1, <1>9, <2>1, <2>2, <2>3
<1>14. TypeOK'
  <2>1. payments' \in [PaymentId -> Row \cup {NULL}]
    BY <1>4, <1>10, <1>11, <1>12
  <2>2. refunds' \in [PaymentId -> Nat]
    BY <1>1, <1>3 DEF TypeOK
  <2> QED
    BY <1>1, <1>3, <2>1, <2>2 DEF TypeOK
<1>15. RefundingInv'
  <2> SUFFICES ASSUME NEW p \in Order, refunding'[p] # NULL, NEW id \in refunding'[p]
               PROVE  id \in PaymentsOf(p)' /\ IsSettled(id)'
    BY DEF RefundingInv
  <2>1. p # o /\ refunding'[p] = refunding[p]
    BY <1>1, <1>3 DEF TypeOK
  <2>2. id \in PaymentsOf(p) /\ IsSettled(id)
    BY <2>1 DEF PaymentInv, RefundingInv
  <2>3. id \in Used /\ id \notin PaymentsOf(o)
    BY <2>1, <2>2 DEF PaymentsOf
  <2>4. payments'[id] = payments[id]
    BY <1>1, <1>2, <1>9, <2>3
  <2> QED
    BY <1>12, <2>2, <2>4 DEF PaymentsOf, IsSettled
<1>16. KeyInv'
  BY <1>3, <1>10, <1>12 DEF PaymentInv, KeyInv, PaymentWithKey
<1>17. RefundsBacked'
  <2>1. \A id \in PaymentId : refunds[id] \in Nat /\ outbox[id] \in Nat
    BY <1>1 DEF TypeOK
  <2>2. \A id \in refunding[o] : refunds[id] < outbox[id]
    BY <1>1, <1>2 DEF PaymentInv, RefundsBacked
  <2>3. \A id \in PaymentId : refunds'[id] <= outbox'[id]
    BY <1>3, <2>1, <2>2 DEF PaymentInv, RefundsBacked
  <2>4. \A id \in Used : payments'[id].status \in SettledStatus => refunds'[id] < outbox'[id]
    BY <1>1, <1>3, <1>13 DEF PaymentInv, RefundsBacked, IsSettled
  <2> QED
    BY <1>12, <2>3, <2>4 DEF RefundsBacked, IsSettled
<1> QED
  BY <1>14, <1>15, <1>16, <1>17 DEF PaymentInv

(* A step of a compensation that changes no row: its first UPDATE, or its  *)
(* rollback.                                                               *)
LEMMA LockStep ==
  ASSUME PaymentInv, NEW o \in Order, NEW rows, rows = NULL \/ rows = Refundable(o),
         refunding' = [refunding EXCEPT ![o] = rows],
         UNCHANGED <<payments, outbox, refunds, answered>>
  PROVE  PaymentInv'
<1>1. TypeOK
  BY DEF PaymentInv
<1>2. Used' = Used /\ \A p \in Order : PaymentsOf(p)' = PaymentsOf(p)
  BY DEF Used, PaymentsOf
<1>3. \A p \in Order : refunding'[p] = IF p = o THEN rows ELSE refunding[p]
  BY <1>1 DEF TypeOK
<1>4. rows \in (SUBSET PaymentId) \cup {NULL}
  BY DEF Refundable, PaymentsOf, Used
<1>5. TypeOK'
  BY <1>1, <1>4 DEF TypeOK
<1>6. RefundingInv'
  BY <1>2, <1>3 DEF PaymentInv, RefundingInv, Refundable, IsSettled
<1>7. KeyInv'
  BY <1>2 DEF PaymentInv, KeyInv, PaymentWithKey
<1>8. RefundsBacked'
  BY <1>2 DEF PaymentInv, RefundsBacked, IsSettled
<1> QED
  BY <1>5, <1>6, <1>7, <1>8 DEF PaymentInv

-----------------------------------------------------------------------------
LEMMA InitPayment == Init => PaymentInv
BY DEF Init, PaymentInv, TypeOK, RefundingInv, KeyInv, RefundsBacked, Used, PaymentWithKey

LEMMA NextPayment == PaymentInv /\ [Next]_vars => PaymentInv'
<1> SUFFICES ASSUME PaymentInv, [Next]_vars PROVE PaymentInv'
  OBVIOUS
<1>1. ASSUME NEW k \in Key, InsertPayment(k) PROVE PaymentInv'
  BY <1>1, CreateStep DEF InsertPayment, Creates
<1>2. ASSUME NEW k \in Key, GetPaymentByIdempotencyKey(k) PROVE PaymentInv'
  BY <1>2 DEF GetPaymentByIdempotencyKey, PaymentInv, TypeOK, RefundingInv, KeyInv, RefundsBacked,
              PaymentWithKey, PaymentsOf, IsSettled, Used
<1>3. ASSUME NEW id \in PaymentId, NEW status \in PutStatus, UpdatePayment(id, status)
      PROVE  PaymentInv'
  BY <1>3, PutStep
<1>4. ASSUME NEW o \in Order, RefundPaymentByOrder(o) PROVE PaymentInv'
  BY <1>4, LockStep DEF RefundPaymentByOrder
<1>5. ASSUME NEW o \in Order, VoidPendingPaymentByOrder(o) PROVE PaymentInv'
  BY <1>5, VoidStep
<1>6. ASSUME NEW o \in Order, RefundFails(o) PROVE PaymentInv'
  BY <1>6, LockStep DEF RefundFails
<1>7. CASE UNCHANGED vars
  BY <1>7 DEF vars, PaymentInv, TypeOK, RefundingInv, KeyInv, RefundsBacked,
              PaymentWithKey, PaymentsOf, IsSettled, Used
<1> QED
  BY <1>1, <1>2, <1>3, <1>4, <1>5, <1>6, <1>7 DEF Next, CreatePayment

THEOREM PaymentCorrect == Spec => []PaymentInv
<1>1. Init => PaymentInv
  BY InitPayment
<1>2. PaymentInv /\ [Next]_vars => PaymentInv'
  BY NextPayment
<1> QED
  BY <1>1, <1>2, PTL DEF Spec

(* Every variable keeps its type: at most MaxPut events are written for a  *)
(* payment, since only a PUT that settles it writes one.                   *)
THEOREM TypeCorrect == Spec => []TypeOK
<1>1. PaymentInv => TypeOK
  BY DEF PaymentInv
<1> QED
  BY <1>1, PaymentCorrect, PTL

(* A key has at most one payment, and every answer names it, however many  *)
(* POSTs with the key are carried out.                                     *)
THEOREM NoDoubleChargeHolds == Spec => []NoDoubleCharge
<1>1. PaymentInv => NoDoubleCharge
  <2> SUFFICES ASSUME PaymentInv, NEW k \in Key PROVE Cardinality(PaymentWithKey(k)) <= 1
    BY DEF PaymentInv, KeyInv, NoDoubleCharge
  <2>1. CASE PaymentWithKey(k) = {}
    BY <2>1, FS_EmptySet
  <2>2. CASE PaymentWithKey(k) # {}
    <3>1. PICK id : id \in PaymentWithKey(k)
      BY <2>2
    <3>2. PaymentWithKey(k) = {id}
      BY <3>1 DEF PaymentInv, KeyInv, PaymentWithKey
    <3>3. Cardinality({id}) = 1
      BY FS_Singleton
    <3> QED
      BY <3>2, <3>3
  <2> QED
    BY <2>1, <2>2
<1> QED
  BY <1>1, PaymentCorrect, PTL

(* No payment is refunded more often than it was settled, whatever PUTs    *)
(* come between the statements of compensations that are repeated.         *)
THEOREM RefundsBackedHolds == Spec => []RefundsBacked
<1>1. PaymentInv => RefundsBacked
  BY DEF PaymentInv
<1> QED
  BY <1>1, PaymentCorrect, PTL
=============================================================================
