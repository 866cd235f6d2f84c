--------------------------- MODULE OrderSagaProofs ---------------------------
(***************************************************************************)
(* Safety of the checkout and of the cancellation across the services, for *)
(* every number of orders, payments and attempts, with or without          *)
(* cancellations in flight.  The argument: the answer to Reserve is the    *)
(* state of the reservation; a checkout that has not got as far as the     *)
(* payment has no request for one on its way; a key has one payment; and   *)
(* the cancellation leaves a row that no arrangement overwrites.           *)
(***************************************************************************)
EXTENDS OrderSaga, TLAPS

(* Payments: a key has one row, answers name it, and an open compensation  *)
(* has locked rows that exist.                                             *)
HasRow(id) == payments[id] # NULL

PayInv ==
  /\ \A i, j \in PaymentId :
       HasRow(i) /\ HasRow(j) /\ payments[i].key = payments[j].key => i = j
  /\ \A o \in Order : \A id \in answered[o] : HasRow(id) /\ payments[id].key = o
  /\ \A o \in Order : refunding[o] # NULL => \A id \in refunding[o] : HasRow(id)

NoPayment(o) == \A id \in PaymentId : HasRow(id) => payments[id].key # o

(* The checkout: what its state says of its requests.                      *)
CheckoutInv(o) ==
  /\ posts[o] <= attempts[o]
  /\ reserve[o] = "reserved" <=> reservation[o] # "none"
  /\ checkout[o] = "idle" => reserve[o] = "unsent"
  /\ checkout[o] \in {"refusing", "refused"} => reserve[o] = "refused"
  /\ checkout[o] = "refused" => orders[o] = "deleted"
  /\ checkout[o] \in {"paying", "accepted"} => reserve[o] = "reserved"
  /\ checkout[o] \in {"idle", "reserving", "refusing", "refused"} => posts[o] = 0 /\ NoPayment(o)
  /\ checkout[o] = "accepted" => answered[o] # {}
  /\ checkout[o] = "idle" <=> orders[o] = "none"
  /\ checkout[o] \in (Active \cup {"accepted"}) => orders[o] # "deleted"

(* The row a cancellation leaves.                                          *)
ShipInv(o) ==
  Cancelled(o) \in handled["order-events-shipping"] => shipments[o] # "none"

IInv == TypeOK /\ PayInv /\ \A o \in Order : CheckoutInv(o) /\ ShipInv(o)

-----------------------------------------------------------------------------
(* The payment service.                                                    *)

(* Rows are never deleted and keep their keys.                             *)
RowsKept == \A id \in PaymentId : HasRow(id) =>
  HasRow(id)' /\ payments'[id].key = payments[id].key

(* New rows have this key, and other keys are given no answers.            *)
OnlyFor(o) ==
  /\ \A id \in PaymentId : HasRow(id)' /\ ~HasRow(id) => payments'[id].key = o
  /\ \A p \in Order \ {o} : answered'[p] = answered[p]

With(row, status) == [row EXCEPT !.status = status]

LEMMA RowType ==
  /\ \A r \in P!Row, s \in P!Status :
       With(r, s) \in P!Row /\ With(r, s).key = r.key /\ With(r, s) # NULL
  /\ \A o \in Order : [key |-> o, status |-> "pending"] \in P!Row
  /\ \A r \in P!Row : r # NULL /\ r.key \in Order
<1>1. NULL \notin P!Row
  BY StatusAssumption
<1>2. \A r \in P!Row, s \in P!Status : With(r, s) \in P!Row /\ With(r, s).key = r.key
  BY DEF P!Row, With
<1>3. \A o \in Order : [key |-> o, status |-> "pending"] \in P!Row
  BY DEF P!Row, P!Status
<1>4. \A r \in P!Row : r.key \in Order
  BY DEF P!Row
<1> QED
  BY <1>1, <1>2, <1>3, <1>4

LEMMA HasRowType ==
  ASSUME P!TypeOK, NEW id \in PaymentId, HasRow(id)
  PROVE  payments[id] \in P!Row
BY DEF P!TypeOK, HasRow

LEMMA PostPaymentSteps ==
  ASSUME P!TypeOK, PayInv, NEW o \in Order, P!CreatePayment(o)
  PROVE  /\ P!TypeOK' /\ PayInv' /\ RowsKept /\ OnlyFor(o)
         /\ answered[o] \subseteq answered'[o]
<1>1. CASE P!InsertPayment(o)
  <2> DEFINE new == [key |-> o, status |-> "pending"]
  <2>1. new \in P!Row /\ new # NULL /\ new.key = o
    BY RowType
  <2>2. PICK id \in PaymentId \ P!Used :
          /\ payments' = [payments EXCEPT ![id] = new]
          /\ answered' = [answered EXCEPT ![o] = @ \cup {id}]
    BY <1>1 DEF P!InsertPayment
  <2>3. UNCHANGED <<outbox, refunding, refunds>> /\ P!PaymentWithKey(o) = {}
    BY <1>1 DEF P!InsertPayment
  <2> HIDE DEF new
  <2>4. ~HasRow(id) /\ \A i \in PaymentId : HasRow(i) => payments[i].key # o
    BY <2>2, <2>3 DEF P!Used, P!PaymentWithKey, HasRow
  <2>5. payments'[id] = new /\ \A i \in PaymentId \ {id} : payments'[i] = payments[i]
    BY <2>2 DEF P!TypeOK
  <2>6. /\ HasRow(id)' /\ payments'[id].key = o
        /\ \A i \in PaymentId \ {id} : HasRow(i)' <=> HasRow(i)
    BY <2>1, <2>5 DEF HasRow
  <2>7. P!TypeOK'
    BY <2>1, <2>2, <2>3 DEF P!TypeOK
  <2>8. /\ answered'[o] = answered[o] \cup {id}
        /\ \A p \in Order \ {o} : answered'[p] = answered[p]
    BY <2>2 DEF P!TypeOK
  <2>9. \A p \in Order : answered[p] \subseteq PaymentId
    BY DEF P!TypeOK
  <2>10. \A p \in Order : \A i \in answered'[p] : HasRow(i)' /\ payments'[i].key = p
    BY <2>4, <2>5, <2>6, <2>8, <2>9 DEF PayInv
  <2>11. \A p \in Order : refunding'[p] # NULL => \A i \in refunding'[p] : HasRow(i)'
    <3> SUFFICES ASSUME NEW p \in Order, refunding[p] # NULL, NEW i \in refunding[p]
                 PROVE  HasRow(i)'
      BY <2>3
    <3>1. i \in PaymentId /\ HasRow(i)
      BY DEF P!TypeOK, PayInv
    <3> QED
      BY <3>1, <2>4, <2>6
  <2>12. \A i, j \in PaymentId :
           HasRow(i)' /\ HasRow(j)' /\ payments'[i].key = payments'[j].key => i = j
    BY <2>4, <2>5, <2>6 DEF PayInv
  <2>13. RowsKept /\ OnlyFor(o)
    BY <2>4, <2>5, <2>6, <2>8 DEF RowsKept, OnlyFor
  <2> QED
    BY <2>7, <2>8, <2>10, <2>11, <2>12, <2>13 DEF PayInv
<1>2. CASE P!GetPaymentByIdempotencyKey(o)
  <2>1. /\ answered' = [answered EXCEPT ![o] = @ \cup P!PaymentWithKey(o)]
        /\ UNCHANGED <<payments, outbox, refunding, refunds>>
    BY <1>2 DEF P!GetPaymentByIdempotencyKey
  <2>2. P!PaymentWithKey(o) \subseteq PaymentId
        /\ \A id \in P!PaymentWithKey(o) : HasRow(id) /\ payments[id].key = o
    BY DEF P!PaymentWithKey, P!Used, HasRow
  <2>3. /\ answered'[o] = answered[o] \cup P!PaymentWithKey(o)
        /\ \A p \in Order \ {o} : answered'[p] = answered[p]
    BY <2>1 DEF P!TypeOK
  <2>4. P!TypeOK'
    BY <2>1, <2>2 DEF P!TypeOK
  <2>5. PayInv'
    BY <2>1, <2>2, <2>3 DEF PayInv, HasRow
  <2> QED
    BY <2>1, <2>3, <2>4, <2>5 DEF RowsKept, OnlyFor, HasRow
<1> QED
  BY <1>1, <1>2 DEF P!CreatePayment

(* A PUT, which the bus hears of, changes a status.                        *)
LEMMA PutSteps ==
  ASSUME P!TypeOK, PayInv, NEW id \in PaymentId, NEW status \in PaymentPut,
         P!UpdatePayment(id, status)
  PROVE  /\ P!TypeOK' /\ PayInv' /\ RowsKept /\ UNCHANGED answered
         /\ \A i \in PaymentId : HasRow(i)' <=> HasRow(i)
         /\ payments[id].key \in Order
<1>1. /\ HasRow(id) /\ payments[id] \in P!Row /\ status \in P!Status
      /\ status \in P!SettledStatus => outbox[id] < MaxPut
  BY HasRowType DEF P!UpdatePayment, P!Used, HasRow, P!Status
<1>2. /\ payments' = [payments EXCEPT ![id] = With(payments[id], status)]
      /\ outbox' = [outbox EXCEPT ![id] = IF status \in P!SettledStatus THEN @ + 1 ELSE @]
      /\ UNCHANGED <<refunding, refunds, answered>>
  BY <1>1 DEF P!UpdatePayment, With
<1>3. With(payments[id], status) \in P!Row /\ With(payments[id], status) # NULL
      /\ With(payments[id], status).key = payments[id].key
  BY <1>1, RowType
<1>4. /\ payments'[id] = With(payments[id], status)
      /\ \A i \in PaymentId \ {id} : payments'[i] = payments[i]
  BY <1>2 DEF P!TypeOK
<1>5. \A i \in PaymentId : HasRow(i)' <=> HasRow(i)
  BY <1>1, <1>3, <1>4 DEF HasRow
<1>6. \A i \in PaymentId : HasRow(i) => payments'[i].key = payments[i].key
  BY <1>3, <1>4
<1>7. payments' \in [PaymentId -> P!Row \cup {NULL}]
  BY <1>2, <1>3 DEF P!TypeOK
<1>8. outbox' \in [PaymentId -> 0..MaxPut]
  BY <1>1, <1>2, SagaAssumption DEF P!TypeOK
<1>9. P!TypeOK'
  BY <1>2, <1>7, <1>8 DEF P!TypeOK
<1>10. PayInv'
  BY <1>2, <1>5, <1>6 DEF PayInv, P!TypeOK
<1>11. payments[id].key \in Order
  BY <1>1, RowType
<1> QED
  BY <1>2, <1>5, <1>6, <1>9, <1>10, <1>11 DEF RowsKept

(* The compensation: its two UPDATEs, and its Rollback.                    *)
LEMMA RefundSteps ==
  ASSUME P!TypeOK, PayInv, NEW o \in Order,
         P!RefundPaymentByOrder(o) \/ P!VoidPendingPaymentByOrder(o) \/ P!RefundFails(o)
  PROVE  /\ P!TypeOK' /\ PayInv' /\ RowsKept /\ UNCHANGED answered
         /\ \A i \in PaymentId : HasRow(i)' <=> HasRow(i)
<1>1. CASE P!RefundPaymentByOrder(o)
  <2>1. P!Refundable(o) \subseteq PaymentId /\ \A id \in P!Refundable(o) : HasRow(id)
    BY DEF P!Refundable, P!PaymentsOf, P!Used, HasRow
  <2>2. /\ refunding' = [refunding EXCEPT ![o] = P!Refundable(o)]
        /\ UNCHANGED <<payments, outbox, refunds, answered>>
    BY <1>1 DEF P!RefundPaymentByOrder
  <2>3. P!TypeOK'
    BY <2>1, <2>2 DEF P!TypeOK
  <2>4. PayInv'
    BY <2>1, <2>2 DEF PayInv, HasRow, P!TypeOK
  <2> QED
    BY <2>2, <2>3, <2>4 DEF RowsKept, HasRow
<1>2. CASE P!VoidPendingPaymentByOrder(o)
  <2>1. refunding[o] # NULL /\ \A id \in refunding[o] : HasRow(id)
    BY <1>2 DEF P!VoidPendingPaymentByOrder, PayInv
  <2>2. /\ payments' = [id \in PaymentId |->
              CASE id \in refunding[o] -> With(payments[id], "refunded")
                [] id \in P!PaymentsOf(o) /\ payments[id].status = "pending" ->
                     With(payments[id], "cancelled")
                [] OTHER -> payments[id]]
        /\ refunds' = [id \in PaymentId |->
              IF id \in refunding[o] THEN refunds[id] + 1 ELSE refunds[id]]
        /\ refunding' = [refunding EXCEPT ![o] = NULL]
        /\ UNCHANGED <<outbox, answered>>
    BY <1>2 DEF P!VoidPendingPaymentByOrder, With
  <2>3. \A id \in PaymentId :
          \/ payments'[id] = payments[id]
          \/ HasRow(id) /\ \E s \in P!Status : payments'[id] = With(payments[id], s)
    <3> SUFFICES ASSUME NEW id \in PaymentId
                 PROVE  \/ payments'[id] = payments[id]
                        \/ HasRow(id) /\ \E s \in P!Status : payments'[id] = With(payments[id], s)
      OBVIOUS
    <3>1. "refunded" \in P!Status /\ "cancelled" \in P!Status
      BY DEF P!Status
    <3>2. id \in P!PaymentsOf(o) => HasRow(id)
      BY DEF P!PaymentsOf, P!Used, HasRow
    <3> DEFINE voided == id \in P!PaymentsOf(o) /\ payments[id].status = "pending"
    <3>3. payments'[id] =
            CASE id \in refunding[o] -> With(payments[id], "refunded")
              [] voided -> With(payments[id], "cancelled")
              [] OTHER -> payments[id]
      BY <2>2
    <3>4. voided => HasRow(id)
      BY <3>2
    <3>5. voided \in BOOLEAN
      OBVIOUS
    <3> HIDE DEF voided
    <3>6. \/ id \in refunding[o] /\ payments'[id] = With(payments[id], "refunded")
          \/ voided /\ payments'[id] = With(payments[id], "cancelled")
          \/ id \notin refunding[o] /\ ~voided /\ payments'[id] = payments[id]
      BY <3>3, <3>5
    <3> QED
      BY <2>1, <3>1, <3>4, <3>6
  <2>4. \A id \in PaymentId :
          /\ payments'[id] \in P!Row \cup {NULL}
          /\ HasRow(id)' <=> HasRow(id)
          /\ HasRow(id) => payments'[id].key = payments[id].key
    BY <2>3, RowType DEF HasRow, P!TypeOK
  <2>5. payments' \in [PaymentId -> P!Row \cup {NULL}]
    BY <2>2, <2>4
  <2>6. refunds' \in [PaymentId -> Nat] /\ refunding' \in [Order -> (SUBSET PaymentId) \cup {NULL}]
    BY <2>2 DEF P!TypeOK
  <2>7. P!TypeOK'
    BY <2>2, <2>5, <2>6 DEF P!TypeOK
  <2>8. PayInv'
    BY <2>2, <2>4 DEF PayInv, P!TypeOK
  <2> QED
    BY <2>2, <2>4, <2>7, <2>8 DEF RowsKept
<1>3. CASE P!RefundFails(o)
  <2>1. /\ refunding' = [refunding EXCEPT ![o] = NULL]
        /\ UNCHANGED <<payments, outbox, refunds, answered>>
    BY <1>3 DEF P!RefundFails
  <2>2. P!TypeOK'
    BY <2>1 DEF P!TypeOK
  <2>3. PayInv'
    BY <2>1 DEF PayInv, HasRow, P!TypeOK
  <2> QED
    BY <2>1, <2>2, <2>3 DEF RowsKept, HasRow
<1> QED
  BY <1>1, <1>2, <1>3

-----------------------------------------------------------------------------
(* The order service and the inventory service.                            *)

CheckoutTypes ==
  /\ orders \in [Order -> {"none", "confirmed", "cancelled", "deleted"} \cup OrderPut]
  /\ checkout \in [Order -> {"idle"} \cup Active \cup Ended]
  /\ reserve \in [Order -> {"unsent", "sent", "reserved", "refused", "failed"}]
  /\ attempts \in [Order -> 0..MaxAttempts]
  /\ posts \in [Order -> 0..MaxAttempts]
  /\ reservation \in [Order -> L!State]

LEMMA TypeParts ==
  /\ TypeOK <=> CheckoutTypes /\ P!TypeOK /\ S!TypeOK /\ Bus!TypeOK
  /\ TypeOK' <=> CheckoutTypes' /\ P!TypeOK' /\ S!TypeOK' /\ Bus!TypeOK'
BY DEF TypeOK, CheckoutTypes, L!TypeOK

(* What payments and shipments say is the same where they are.             *)
LEMMA PaymentsKept ==
  ASSUME UNCHANGED paymentVars
  PROVE  /\ P!TypeOK => P!TypeOK'
         /\ PayInv => PayInv'
         /\ \A o \in Order : NoPayment(o) => NoPayment(o)'
<1>1. UNCHANGED <<payments, outbox, refunding, refunds, answered>>
  BY DEF paymentVars
<1>2. P!TypeOK => P!TypeOK'
  BY <1>1 DEF P!TypeOK
<1>3. PayInv => PayInv'
  BY <1>1 DEF PayInv, HasRow
<1>4. \A o \in Order : NoPayment(o) => NoPayment(o)'
  BY <1>1 DEF NoPayment, HasRow
<1> QED
  BY <1>2, <1>3, <1>4

LEMMA ShipmentsKept ==
  ASSUME UNCHANGED <<shippingVars, busVars>>
  PROVE  /\ S!TypeOK => S!TypeOK'
         /\ Bus!TypeOK => Bus!TypeOK'
         /\ \A o \in Order : ShipInv(o) => ShipInv(o)'
<1>1. UNCHANGED <<shipments, fetched, emitted, due, handled, dead>>
  BY DEF shippingVars, busVars
<1>2. S!TypeOK => S!TypeOK'
  BY <1>1 DEF S!TypeOK
<1>3. Bus!TypeOK => Bus!TypeOK'
  BY <1>1 DEF Bus!TypeOK
<1>4. \A o \in Order : ShipInv(o) => ShipInv(o)'
  BY <1>1 DEF ShipInv, Cancelled
<1> QED
  BY <1>2, <1>3, <1>4

(* The releases of a reservation, in any of their uses.                    *)
LEMMA Releases ==
  ASSUME CheckoutTypes, NEW o \in Order, ReleaseReservation(o)
  PROVE  /\ reservation' \in [Order -> L!State]
         /\ \A p \in Order : reservation'[p] = "none" <=> reservation[p] = "none"
<1>1. CASE reservation[o] = "pending"
  <2>1. reservation' = [reservation EXCEPT ![o] = "released"]
    BY <1>1 DEF ReleaseReservation, L!Move
  <2> QED
    BY <1>1, <2>1 DEF CheckoutTypes, L!State
<1>2. CASE reservation[o] # "pending"
  BY <1>2 DEF ReleaseReservation, CheckoutTypes
<1> QED
  BY <1>1, <1>2

LEMMA CheckoutSteps ==
  ASSUME CheckoutTypes, \A p \in Order : CheckoutInv(p), UNCHANGED paymentVars,
         NEW o \in Order, CheckoutStep(o)
  PROVE  CheckoutTypes' /\ \A p \in Order : CheckoutInv(p)'
<1> USE DEF CheckoutTypes, Active, Ended
<1>1. \A p \in Order : NoPayment(p) => NoPayment(p)'
  BY PaymentsKept
<1>2. UNCHANGED answered
  BY DEF paymentVars
<1>3. CASE Checkout(o)
  BY <1>1, <1>2, <1>3 DEF Checkout, Goes, CheckoutInv
<1>4. CASE ReserveAnswered(o)
  BY <1>1, <1>2, <1>4 DEF ReserveAnswered, Goes, CheckoutInv
<1>5. CASE ReserveRefused(o)
  BY <1>1, <1>2, <1>5 DEF ReserveRefused, Goes, CheckoutInv
<1>6. CASE ReserveUnknown(o)
  BY <1>1, <1>2, <1>6 DEF ReserveUnknown, Goes, CheckoutInv
<1>7. CASE PostPayment(o)
  <2>1. /\ checkout[o] = "paying" /\ attempts[o] < MaxAttempts
        /\ attempts' = [attempts EXCEPT ![o] = @ + 1]
        /\ posts' = [posts EXCEPT ![o] = @ + 1]
        /\ UNCHANGED <<orders, checkout, reserve, reservation>>
    BY <1>7 DEF PostPayment
  <2>2. posts[o] <= attempts[o] /\ attempts[o] + 1 \in 0..MaxAttempts /\ posts[o] + 1 \in 0..MaxAttempts
    BY <2>1, SagaAssumption DEF CheckoutInv
  <2>3. CheckoutTypes'
    BY <2>1, <2>2
  <2>4. \A p \in Order : posts'[p] <= attempts'[p]
    BY <2>1, <2>2 DEF CheckoutInv
  <2> QED
    BY <1>1, <1>2, <2>1, <2>3, <2>4 DEF CheckoutInv
<1>8. CASE PaymentAnswered(o)
  BY <1>1, <1>2, <1>8 DEF PaymentAnswered, Goes, CheckoutInv
<1>9. CASE PaymentUnknown(o)
  BY <1>1, <1>2, <1>9 DEF PaymentUnknown, Goes, CheckoutInv
<1>10. CASE Release(o)
  <2>1. /\ reservation' \in [Order -> L!State]
        /\ \A p \in Order : reservation'[p] = "none" <=> reservation[p] = "none"
    BY <1>10, Releases DEF Release
  <2> QED
    BY <1>1, <1>2, <1>10, <2>1 DEF Release, Goes, CheckoutInv
<1>11. CASE DeleteOrder(o)
  BY <1>1, <1>2, <1>11 DEF DeleteOrder, Goes, CheckoutInv
<1>12. CASE CheckoutFails(o)
  <2>1. /\ reservation' \in [Order -> L!State]
        /\ \A p \in Order : reservation'[p] = "none" <=> reservation[p] = "none"
    BY <1>12, Releases DEF CheckoutFails
  <2>2. orders' = orders \/ orders' = [orders EXCEPT ![o] = "deleted"]
    BY <1>12 DEF CheckoutFails
  <2>3. /\ checkout[o] # "idle" /\ checkout' = [checkout EXCEPT ![o] = "failed"]
        /\ UNCHANGED <<reserve, attempts, posts>>
    BY <1>12 DEF CheckoutFails, Goes
  <2> QED
    BY <1>1, <1>2, <2>1, <2>2, <2>3 DEF CheckoutInv
<1> QED
  BY <1>3, <1>4, <1>5, <1>6, <1>7, <1>8, <1>9, <1>10, <1>11, <1>12 DEF CheckoutStep

(* The requests the server carries out, or does not.                       *)
LEMMA RequestSteps ==
  ASSUME CheckoutTypes, P!TypeOK, PayInv, \A p \in Order : CheckoutInv(p),
         NEW o \in Order, RequestStep(o)
  PROVE  CheckoutTypes' /\ P!TypeOK' /\ PayInv' /\ \A p \in Order : CheckoutInv(p)'
<1> USE DEF CheckoutTypes
<1>1. CASE ReserveApplied(o)
  <2>1. /\ reserve[o] = "sent" /\ reserve' = [reserve EXCEPT ![o] = "reserved"]
        /\ reservation' = [reservation EXCEPT ![o] = "pending"]
        /\ UNCHANGED <<orders, checkout, attempts, posts, paymentVars>>
    BY <1>1 DEF ReserveApplied, L!Move
  <2>2. CheckoutTypes'
    BY <2>1 DEF L!State
  <2>3. \A p \in Order : CheckoutInv(p)'
    BY <2>1, PaymentsKept DEF CheckoutInv, paymentVars
  <2> QED
    BY <2>1, <2>2, <2>3, PaymentsKept
<1>2. CASE ReserveNotApplied(o)
  <2>1. PICK outcome \in {"refused", "failed"} : reserve' = [reserve EXCEPT ![o] = outcome]
    BY <1>2 DEF ReserveNotApplied
  <2>2. reserve[o] = "sent" /\ UNCHANGED <<orders, checkout, attempts, posts, reservation, paymentVars>>
    BY <1>2 DEF ReserveNotApplied
  <2>3. \A p \in Order : CheckoutInv(p)'
    BY <2>1, <2>2, PaymentsKept DEF CheckoutInv, paymentVars
  <2> QED
    BY <2>1, <2>2, <2>3, PaymentsKept
<1>3. ASSUME posts[o] > 0, posts' = [posts EXCEPT ![o] = @ - 1]
      PROVE  /\ posts' \in [Order -> 0..MaxAttempts]
             /\ \A p \in Order : posts'[p] <= posts[p] /\ (p # o => posts'[p] = posts[p])
             /\ checkout[o] \notin {"idle", "reserving", "refusing", "refused"}
  BY <1>3, SagaAssumption DEF CheckoutInv
<1>4. CASE PostApplied(o)
  <2>1. /\ posts[o] > 0 /\ posts' = [posts EXCEPT ![o] = @ - 1] /\ P!CreatePayment(o)
        /\ UNCHANGED <<orders, checkout, reserve, attempts, reservation>>
    BY <1>4 DEF PostApplied
  <2>2. P!TypeOK' /\ PayInv' /\ RowsKept /\ OnlyFor(o) /\ answered[o] \subseteq answered'[o]
    BY <2>1, PostPaymentSteps
  <2>3. \A p \in Order \ {o} : NoPayment(p) => NoPayment(p)'
    BY <2>2 DEF RowsKept, OnlyFor, NoPayment
  <2>4. \A p \in Order : CheckoutInv(p)'
    <3> SUFFICES ASSUME NEW p \in Order PROVE CheckoutInv(p)'
      OBVIOUS
    <3>1. CASE p = o
      BY <1>3, <2>1, <2>2, <3>1 DEF CheckoutInv
    <3>2. CASE p # o
      BY <1>3, <2>1, <2>2, <2>3, <3>2 DEF CheckoutInv, OnlyFor
    <3> QED
      BY <3>1, <3>2
  <2> QED
    BY <1>3, <2>1, <2>2, <2>4
<1>5. CASE PostLost(o)
  <2>1. /\ posts[o] > 0 /\ posts' = [posts EXCEPT ![o] = @ - 1]
        /\ UNCHANGED <<orders, checkout, reserve, attempts, reservation, paymentVars>>
    BY <1>5 DEF PostLost
  <2>2. \A p \in Order : CheckoutInv(p)'
    BY <1>3, <2>1, PaymentsKept DEF CheckoutInv, paymentVars
  <2> QED
    BY <1>3, <2>1, <2>2, PaymentsKept
<1> QED
  BY <1>1, <1>2, <1>4, <1>5 DEF RequestStep

(* A step of the others leaves a checkout where it is.                     *)
Deleted(o) == orders[o] = "deleted"

Unborn(o) == orders[o] = "none"

LEMMA CheckoutsKept ==
  ASSUME CheckoutTypes, \A p \in Order : CheckoutInv(p),
         UNCHANGED <<checkoutVars, answered>>,
         orders' \in [Order -> {"none", "confirmed", "cancelled", "deleted"} \cup OrderPut],
         \A p \in Order : (Deleted(p)' <=> Deleted(p)) /\ (Unborn(p)' <=> Unborn(p)),
         reservation' \in [Order -> L!State],
         \A p \in Order : reservation'[p] = "none" <=> reservation[p] = "none",
         \A p \in Order : NoPayment(p) => NoPayment(p)'
  PROVE  CheckoutTypes' /\ \A p \in Order : CheckoutInv(p)'
<1>1. UNCHANGED <<checkout, reserve, attempts, posts, answered>>
  BY DEF checkoutVars
<1>2. CheckoutTypes'
  BY <1>1 DEF CheckoutTypes
<1>3. \A p \in Order : CheckoutInv(p)'
  BY <1>1 DEF CheckoutInv, Deleted, Unborn, Active
<1> QED
  BY <1>2, <1>3

-----------------------------------------------------------------------------
(* The events.                                                             *)

LEMMA EventTypes ==
  /\ \A o \in Order : Cancelled(o) \in Event /\ Settled(o) \in Event
  /\ \A o, p \in Order : Cancelled(o) # Settled(p)
  /\ \A o, p \in Order : Cancelled(o) = Cancelled(p) => o = p
BY DEF Cancelled, Settled, Event

LEMMA EmitSteps ==
  ASSUME Bus!TypeOK, NEW e \in Event, NEW subscribed, Bus!Emit(e, subscribed)
  PROVE  Bus!TypeOK' /\ UNCHANGED handled
BY DEF Bus!TypeOK, Bus!Emit

LEMMA HandleSteps ==
  ASSUME Bus!TypeOK, NEW q \in Queue, NEW e \in Event, Bus!Handle(q, e)
  PROVE  /\ Bus!TypeOK'
         /\ handled'[q] = handled[q] \cup {e}
         /\ \A r \in Queue \ {q} : handled'[r] = handled[r]
BY DEF Bus!TypeOK, Bus!Handle

LEMMA IsolateSteps ==
  ASSUME Bus!TypeOK, NEW q \in Queue, NEW e \in Event, Bus!Isolate(q, e)
  PROVE  Bus!TypeOK' /\ UNCHANGED handled
BY DEF Bus!TypeOK, Bus!Isolate

LEMMA Queues ==
  /\ CancelQueue \subseteq Queue /\ SettledQueue \subseteq Queue
  /\ \A q \in {"order-events-payment", "order-events-inventory",
               "payment-events-shipping", "payment-events-inventory"} :
        q \in Queue /\ q # "order-events-shipping"
  /\ "order-events-shipping" \in Queue
BY DEF Queue, CancelQueue, SettledQueue

(* Who handles no cancellation for shipping, and takes no row away from    *)
(* where the cancellation leaves it, keeps the row.                        *)
ToldShipping == handled["order-events-shipping"]

Moved(o) == shipments[o] # "none"

LEMMA ShipmentsStay ==
  ASSUME \A p \in Order : ShipInv(p), UNCHANGED ToldShipping,
         \A p \in Order : Moved(p) => Moved(p)'
  PROVE  \A p \in Order : ShipInv(p)'
BY DEF ShipInv, ToldShipping, Moved, Cancelled

-----------------------------------------------------------------------------
(* The requests of the API and the events, one by one.                     *)

LEMMA OrderApiSteps ==
  ASSUME IInv, NEW o \in Order,
         CancelOrder(o) \/ \E status \in OrderPut : UpdateOrder(o, status)
  PROVE  IInv'
<1> USE DEF CheckoutTypes
<1>1. /\ CheckoutTypes /\ P!TypeOK /\ S!TypeOK /\ Bus!TypeOK /\ PayInv
      /\ \A p \in Order : CheckoutInv(p) /\ ShipInv(p)
  BY TypeParts DEF IInv
<1>2. /\ orders[o] \notin {"none", "deleted"}
      /\ \E s \in {"cancelled"} \cup OrderPut : orders' = [orders EXCEPT ![o] = s]
      /\ UNCHANGED <<checkoutVars, reservation, paymentVars, shippingVars>>
  BY DEF CancelOrder, UpdateOrder
<1>3. Bus!TypeOK' /\ UNCHANGED handled
  <2>1. CASE UNCHANGED busVars
    BY <1>1, <2>1 DEF busVars, Bus!TypeOK
  <2>2. CASE Bus!Emit(Cancelled(o), CancelQueue)
    BY <1>1, <2>2, EmitSteps, EventTypes
  <2> QED
    BY <2>1, <2>2 DEF CancelOrder, UpdateOrder
<1>4. /\ orders' \in [Order -> {"none", "confirmed", "cancelled", "deleted"} \cup OrderPut]
      /\ \A p \in Order : (Deleted(p)' <=> Deleted(p)) /\ (Unborn(p)' <=> Unborn(p))
  BY <1>1, <1>2, StatusAssumption DEF Deleted, Unborn
<1>5. P!TypeOK' /\ PayInv' /\ \A p \in Order : NoPayment(p) => NoPayment(p)'
  BY <1>1, <1>2, PaymentsKept
<1>6. UNCHANGED <<reservation, answered>> /\ reservation' \in [Order -> L!State]
  BY <1>1, <1>2 DEF paymentVars
<1>7. CheckoutTypes' /\ \A p \in Order : CheckoutInv(p)'
  BY <1>1, <1>2, <1>4, <1>5, <1>6, CheckoutsKept
<1>8. S!TypeOK' /\ \A p \in Order : ShipInv(p)'
  <2>1. UNCHANGED <<shipments, fetched>>
    BY <1>2 DEF shippingVars
  <2>2. S!TypeOK'
    BY <1>1, <2>1 DEF S!TypeOK
  <2>3. UNCHANGED ToldShipping /\ \A p \in Order : Moved(p) => Moved(p)'
    BY <1>3, <2>1 DEF ToldShipping, Moved
  <2> QED
    BY <1>1, <2>2, <2>3, ShipmentsStay
<1> QED
  BY <1>3, <1>5, <1>7, <1>8, TypeParts DEF IInv

LEMMA PaymentServiceSteps ==
  ASSUME IInv,
         UNCHANGED <<orders, checkoutVars, reservation, shippingVars>>,
         P!TypeOK', PayInv', RowsKept, UNCHANGED answered,
         \A i \in PaymentId : HasRow(i)' <=> HasRow(i),
         Bus!TypeOK', UNCHANGED ToldShipping
  PROVE  IInv'
<1> USE DEF CheckoutTypes
<1>1. /\ CheckoutTypes /\ S!TypeOK
      /\ \A p \in Order : CheckoutInv(p) /\ ShipInv(p)
  BY TypeParts DEF IInv
<1>2. \A p \in Order : NoPayment(p) => NoPayment(p)'
  BY DEF NoPayment, RowsKept
<1>3. CheckoutTypes' /\ \A p \in Order : CheckoutInv(p)'
  BY <1>1, <1>2, CheckoutsKept DEF Deleted, Unborn
<1>4. UNCHANGED <<shipments, fetched>>
  BY DEF shippingVars
<1>5. S!TypeOK' /\ \A p \in Order : Moved(p) => Moved(p)'
  BY <1>1, <1>4 DEF S!TypeOK, Moved
<1>6. \A p \in Order : ShipInv(p)'
  BY <1>1, <1>5, ShipmentsStay
<1> QED
  BY <1>3, <1>5, <1>6, TypeParts DEF IInv

LEMMA PutStep ==
  ASSUME IInv, NEW id \in PaymentId, NEW status \in PaymentPut, UpdatePayment(id, status)
  PROVE  IInv'
<1>1. P!TypeOK /\ Bus!TypeOK /\ PayInv
  BY TypeParts DEF IInv
<1>2. /\ P!UpdatePayment(id, status)
      /\ Bus!Emit(Settled(payments[id].key), SettledQueue) \/ UNCHANGED busVars
      /\ UNCHANGED <<orders, checkoutVars, reservation, shippingVars>>
  BY DEF UpdatePayment
<1>3. /\ P!TypeOK' /\ PayInv' /\ RowsKept /\ UNCHANGED answered
      /\ \A i \in PaymentId : HasRow(i)' <=> HasRow(i)
      /\ payments[id].key \in Order
  BY <1>1, <1>2, PutSteps
<1>4. Bus!TypeOK' /\ UNCHANGED handled
  <2>1. CASE UNCHANGED busVars
    BY <1>1, <2>1 DEF busVars, Bus!TypeOK
  <2>2. CASE Bus!Emit(Settled(payments[id].key), SettledQueue)
    BY <1>1, <1>3, <2>2, EmitSteps, EventTypes
  <2> QED
    BY <1>2, <2>1, <2>2
<1>5. UNCHANGED ToldShipping
  BY <1>4 DEF ToldShipping
<1> QED
  BY <1>2, <1>3, <1>4, <1>5, PaymentServiceSteps

LEMMA CompensationStep ==
  ASSUME IInv, NEW o \in Order, RefundPayments(o) \/ RefundCommits(o) \/ RefundFails(o)
  PROVE  IInv'
<1>1. P!TypeOK /\ Bus!TypeOK /\ PayInv
  BY TypeParts DEF IInv
<1>2. /\ P!RefundPaymentByOrder(o) \/ P!VoidPendingPaymentByOrder(o) \/ P!RefundFails(o)
      /\ Bus!Handle("order-events-payment", Cancelled(o)) \/ UNCHANGED busVars
      /\ UNCHANGED <<orders, checkoutVars, reservation, shippingVars>>
  BY DEF RefundPayments, RefundCommits, RefundFails
<1>3. /\ P!TypeOK' /\ PayInv' /\ RowsKept /\ UNCHANGED answered
      /\ \A i \in PaymentId : HasRow(i)' <=> HasRow(i)
  BY <1>1, <1>2, RefundSteps
<1>4. Bus!TypeOK' /\ UNCHANGED ToldShipping
  <2>1. CASE UNCHANGED busVars
    BY <1>1, <2>1 DEF busVars, Bus!TypeOK, ToldShipping
  <2>2. CASE Bus!Handle("order-events-payment", Cancelled(o))
    BY <1>1, <2>2, HandleSteps, EventTypes, Queues DEF ToldShipping
  <2> QED
    BY <1>2, <2>1, <2>2
<1> QED
  BY <1>2, <1>3, <1>4, PaymentServiceSteps

(* No writer takes the row of a shipment away.                             *)
LEMMA ShipmentSteps ==
  ASSUME S!TypeOK, NEW o \in Order,
         \/ \E exists \in BOOLEAN : S!FetchDestination(o, exists)
         \/ S!CreateShipmentForOrder(o) \/ S!ArrangeFails(o) \/ S!CancelShipmentForOrder(o)
         \/ S!CreateShipment(o, "preparing")
         \/ \E status \in ShipmentPut : S!UpdateShipment(o, status)
  PROVE  /\ S!TypeOK'
         /\ \A p \in Order : Moved(p) => Moved(p)'
         /\ S!CancelShipmentForOrder(o) => Moved(o)'
<1> USE DEF S!TypeOK, S!Status, Moved
<1>1. S!CancelShipmentForOrder(o) => Moved(o)'
  BY StatusAssumption DEF S!CancelShipmentForOrder
<1>2. CASE \E exists \in BOOLEAN : S!FetchDestination(o, exists)
  <2>1. fetched' = fetched \cup {o} /\ UNCHANGED shipments
    BY <1>2 DEF S!FetchDestination
  <2> QED
    BY <1>1, <2>1
<1>3. CASE S!CreateShipmentForOrder(o) \/ S!ArrangeFails(o)
  BY <1>1, <1>3 DEF S!CreateShipmentForOrder, S!ArrangeFails
<1>4. CASE S!CancelShipmentForOrder(o)
  BY <1>4, StatusAssumption DEF S!CancelShipmentForOrder
<1>5. CASE S!CreateShipment(o, "preparing")
  BY <1>1, <1>5 DEF S!CreateShipment
<1>6. CASE \E status \in ShipmentPut : S!UpdateShipment(o, status)
  BY <1>1, <1>6, StatusAssumption DEF S!UpdateShipment
<1> QED
  BY <1>2, <1>3, <1>4, <1>5, <1>6

LEMMA ShippingServiceSteps ==
  ASSUME IInv, NEW o \in Order,
         \/ FetchDestination(o) \/ DestinationMissing(o) \/ ArrangeShipment(o)
         \/ ArrangeFails(o) \/ CancelShipment(o) \/ ShippingApi(o)
  PROVE  IInv'
<1>1. /\ CheckoutTypes /\ P!TypeOK /\ S!TypeOK /\ Bus!TypeOK /\ PayInv
      /\ \A p \in Order : CheckoutInv(p) /\ ShipInv(p)
  BY TypeParts DEF IInv
<1>2. UNCHANGED <<orders, checkoutVars, reservation, paymentVars>>
  BY DEF FetchDestination, DestinationMissing, ArrangeShipment, ArrangeFails, CancelShipment,
         ShippingApi
<1>3. P!TypeOK' /\ PayInv' /\ \A p \in Order : NoPayment(p) => NoPayment(p)'
  BY <1>1, <1>2, PaymentsKept
<1>4. CheckoutTypes' /\ \A p \in Order : CheckoutInv(p)'
  BY <1>1, <1>2, <1>3, CheckoutsKept DEF paymentVars, Deleted, Unborn, CheckoutTypes
<1>5. UNCHANGED busVars => Bus!TypeOK' /\ UNCHANGED ToldShipping
  BY <1>1 DEF busVars, Bus!TypeOK, ToldShipping
<1>6. UNCHANGED shippingVars => S!TypeOK' /\ \A p \in Order : Moved(p) => Moved(p)'
  BY <1>1 DEF shippingVars, S!TypeOK, Moved
<1>7. CASE FetchDestination(o) \/ ArrangeFails(o) \/ ShippingApi(o)
  <2>1. UNCHANGED busVars
    BY <1>7 DEF FetchDestination, ArrangeFails, ShippingApi
  <2>2. \/ \E exists \in BOOLEAN : S!FetchDestination(o, exists)
        \/ S!ArrangeFails(o)
        \/ S!CreateShipment(o, "preparing")
        \/ \E status \in ShipmentPut : S!UpdateShipment(o, status)
    BY <1>7 DEF FetchDestination, ArrangeFails, ShippingApi, OrderExists
  <2>3. S!TypeOK' /\ \A p \in Order : Moved(p) => Moved(p)'
    BY <1>1, <2>2, ShipmentSteps
  <2> QED
    BY <1>1, <1>3, <1>4, <1>5, <2>1, <2>3, ShipmentsStay, TypeParts DEF IInv
<1>8. CASE DestinationMissing(o)
  <2>1. Bus!Isolate("payment-events-shipping", Settled(o)) /\ UNCHANGED shippingVars
    BY <1>8 DEF DestinationMissing
  <2>2. Bus!TypeOK' /\ UNCHANGED ToldShipping
    BY <1>1, <2>1, IsolateSteps, EventTypes, Queues DEF ToldShipping
  <2> QED
    BY <1>1, <1>3, <1>4, <1>6, <2>1, <2>2, ShipmentsStay, TypeParts DEF IInv
<1>9. CASE ArrangeShipment(o)
  <2>1. S!CreateShipmentForOrder(o) /\ Bus!Handle("payment-events-shipping", Settled(o))
    BY <1>9 DEF ArrangeShipment
  <2>2. S!TypeOK' /\ \A p \in Order : Moved(p) => Moved(p)'
    BY <1>1, <2>1, ShipmentSteps
  <2>3. Bus!TypeOK' /\ UNCHANGED ToldShipping
    BY <1>1, <2>1, HandleSteps, EventTypes, Queues DEF ToldShipping
  <2> QED
    BY <1>1, <1>3, <1>4, <2>2, <2>3, ShipmentsStay, TypeParts DEF IInv
<1>10. CASE CancelShipment(o)
  <2>1. S!CancelShipmentForOrder(o) /\ Bus!Handle("order-events-shipping", Cancelled(o))
    BY <1>10 DEF CancelShipment
  <2>2. S!TypeOK' /\ Moved(o)' /\ \A p \in Order : Moved(p) => Moved(p)'
    BY <1>1, <2>1, ShipmentSteps
  <2>3. Bus!TypeOK' /\ ToldShipping' = ToldShipping \cup {Cancelled(o)}
    BY <1>1, <2>1, HandleSteps, EventTypes, Queues DEF ToldShipping
  <2>4. \A p \in Order : ShipInv(p)'
    <3> SUFFICES ASSUME NEW p \in Order, Cancelled(p) \in ToldShipping'
                 PROVE  Moved(p)'
      BY DEF ShipInv, ToldShipping, Moved, Cancelled
    <3>1. p = o \/ Cancelled(p) \in ToldShipping
      BY <2>3, EventTypes
    <3> QED
      BY <1>1, <2>2, <3>1 DEF ShipInv, ToldShipping, Moved
  <2> QED
    BY <1>3, <1>4, <2>2, <2>3, <2>4, TypeParts DEF IInv
<1> QED
  BY <1>7, <1>8, <1>9, <1>10

LEMMA ReservationSteps ==
  ASSUME IInv,
         ExpireReservations \/ \E o \in Order : ConfirmReservation(o) \/ CompensateReservation(o)
  PROVE  IInv'
<1> USE DEF CheckoutTypes
<1>1. /\ CheckoutTypes /\ P!TypeOK /\ S!TypeOK /\ Bus!TypeOK /\ PayInv
      /\ \A p \in Order : CheckoutInv(p) /\ ShipInv(p)
  BY TypeParts DEF IInv
<1>2. UNCHANGED <<orders, checkoutVars, paymentVars, shippingVars>>
  BY DEF ExpireReservations, ConfirmReservation, CompensateReservation
<1>3. /\ reservation' \in [Order -> L!State]
      /\ \A p \in Order : reservation'[p] = "none" <=> reservation[p] = "none"
  <2>1. CASE ExpireReservations
    <3>1. PICK lapsed \in SUBSET {o \in Order : reservation[o] = "pending"} :
            reservation' = [o \in Order |-> IF o \in lapsed THEN "expired" ELSE reservation[o]]
      BY <2>1 DEF ExpireReservations, L!Expire
    <3> QED
      BY <1>1, <3>1 DEF L!State
  <2>2. ASSUME NEW o \in Order, ConfirmReservation(o)
        PROVE  /\ reservation' \in [Order -> L!State]
               /\ \A p \in Order : reservation'[p] = "none" <=> reservation[p] = "none"
    BY <1>1, <2>2 DEF ConfirmReservation, L!Move, L!State
  <2>3. ASSUME NEW o \in Order, CompensateReservation(o)
        PROVE  /\ reservation' \in [Order -> L!State]
               /\ \A p \in Order : reservation'[p] = "none" <=> reservation[p] = "none"
    <3>1. CASE reservation[o] = "confirmed"
      BY <1>1, <2>3, <3>1 DEF CompensateReservation, L!Move, L!State
    <3>2. CASE reservation[o] # "confirmed"
      BY <1>1, <2>3, <3>2, Releases DEF CompensateReservation
    <3> QED
      BY <3>1, <3>2
  <2> QED
    BY <2>1, <2>2, <2>3
<1>4. Bus!TypeOK' /\ UNCHANGED ToldShipping
  <2>1. CASE UNCHANGED busVars
    BY <1>1, <2>1 DEF busVars, Bus!TypeOK, ToldShipping
  <2>2. ASSUME NEW o \in Order, NEW e \in {Settled(o), Cancelled(o)},
               NEW q \in {"payment-events-inventory", "order-events-inventory"},
               Bus!Handle(q, e)
        PROVE  Bus!TypeOK' /\ UNCHANGED ToldShipping
    BY <1>1, <2>2, HandleSteps, EventTypes, Queues DEF ToldShipping
  <2> QED
    BY <2>1, <2>2 DEF ExpireReservations, ConfirmReservation, CompensateReservation
<1>5. P!TypeOK' /\ PayInv' /\ \A p \in Order : NoPayment(p) => NoPayment(p)'
  BY <1>1, <1>2, PaymentsKept
<1>6. CheckoutTypes' /\ \A p \in Order : CheckoutInv(p)'
  BY <1>1, <1>2, <1>3, <1>5, CheckoutsKept DEF paymentVars, Deleted, Unborn
<1>7. UNCHANGED <<shipments, fetched>>
  BY <1>2 DEF shippingVars
<1>8. S!TypeOK' /\ \A p \in Order : Moved(p) => Moved(p)'
  BY <1>1, <1>7 DEF S!TypeOK, Moved
<1> QED
  BY <1>1, <1>4, <1>5, <1>6, <1>8, ShipmentsStay, TypeParts DEF IInv

-----------------------------------------------------------------------------
LEMMA InitSaga == Init => IInv
<1> SUFFICES ASSUME Init PROVE IInv
  OBVIOUS
<1>1. CheckoutTypes
  BY SagaAssumption DEF Init, CheckoutTypes, L!Init, L!State
<1>2. P!TypeOK
  BY SagaAssumption DEF Init, P!Init, P!TypeOK
<1>3. S!TypeOK /\ Bus!TypeOK
  BY DEF Init, S!Init, S!TypeOK, S!Status, Bus!Init, Bus!TypeOK
<1>4. PayInv
  BY DEF Init, P!Init, PayInv, HasRow
<1>5. \A o \in Order : CheckoutInv(o)
  BY DEF Init, CheckoutInv, NoPayment, HasRow, L!Init, P!Init
<1>6. \A o \in Order : ShipInv(o)
  BY Queues DEF Init, ShipInv, Bus!Init
<1> QED
  BY <1>1, <1>2, <1>3, <1>4, <1>5, <1>6, TypeParts DEF IInv

LEMMA NextSaga == IInv /\ [Next]_vars => IInv'
<1> SUFFICES ASSUME IInv, [Next]_vars PROVE IInv'
  OBVIOUS
<1>1. /\ CheckoutTypes /\ P!TypeOK /\ S!TypeOK /\ Bus!TypeOK /\ PayInv
      /\ \A p \in Order : CheckoutInv(p) /\ ShipInv(p)
  BY TypeParts DEF IInv
<1>2. ASSUME NEW o \in Order, CheckoutStep(o) PROVE IInv'
  <2>1. UNCHANGED <<paymentVars, shippingVars, busVars>>
    BY <1>2 DEF CheckoutStep, Checkout, ReserveAnswered, ReserveRefused, ReserveUnknown,
                PostPayment, PaymentAnswered, PaymentUnknown, Release, DeleteOrder, CheckoutFails
  <2> QED
    BY <1>1, <1>2, <2>1, CheckoutSteps, PaymentsKept, ShipmentsKept, TypeParts DEF IInv
<1>3. ASSUME NEW o \in Order, RequestStep(o) PROVE IInv'
  <2>1. UNCHANGED <<shippingVars, busVars>>
    BY <1>3 DEF RequestStep, ReserveApplied, ReserveNotApplied, PostApplied, PostLost
  <2> QED
    BY <1>1, <1>3, <2>1, RequestSteps, ShipmentsKept, TypeParts DEF IInv
<1>4. ASSUME NEW o \in Order, EventStep(o) PROVE IInv'
  BY <1>4, CompensationStep, ShippingServiceSteps, ReservationSteps DEF EventStep
<1>5. ASSUME NEW o \in Order, ApiStep(o) PROVE IInv'
  BY <1>5, OrderApiSteps, ShippingServiceSteps DEF ApiStep
<1>6. ASSUME NEW id \in PaymentId, NEW status \in PaymentPut, UpdatePayment(id, status)
      PROVE  IInv'
  BY <1>6, PutStep
<1>7. CASE ExpireReservations
  BY <1>7, ReservationSteps
<1>8. CASE UNCHANGED vars
  <2>1. UNCHANGED <<orders, checkoutVars, reservation, paymentVars, shippingVars, busVars>>
    BY <1>8 DEF vars
  <2>2. P!TypeOK' /\ PayInv' /\ \A p \in Order : NoPayment(p) => NoPayment(p)'
    BY <1>1, <2>1, PaymentsKept
  <2>3. CheckoutTypes' /\ \A p \in Order : CheckoutInv(p)'
    BY <1>1, <2>1, <2>2, CheckoutsKept DEF paymentVars, Deleted, Unborn, CheckoutTypes
  <2> QED
    BY <1>1, <2>1, <2>2, <2>3, ShipmentsKept, TypeParts DEF IInv
<1> QED
  BY <1>2, <1>3, <1>4, <1>5, <1>6, <1>7, <1>8 DEF Next

(* The inductive invariant holds in every reachable state.                 *)
THEOREM Invariant == Spec => []IInv
<1>1. Init => IInv
  BY InitSaga
<1>2. IInv /\ [Next]_vars => IInv'
  BY NextSaga
<1> QED
  BY <1>1, <1>2, PTL DEF Spec

(* Every variable keeps its type: the requests on their way are at most the*)
(* attempts the client was allowed, and what a queue handled was emitted.  *)
THEOREM TypeCorrect == Spec => []TypeOK
<1>1. IInv => TypeOK
  BY DEF IInv
<1> QED
  BY <1>1, Invariant, PTL

LEMMA PaymentsOfRow ==
  \A o \in Order : P!TypeOK => P!PaymentsOf(o) = {id \in PaymentId : HasRow(id) /\ payments[id].key = o}
<1> SUFFICES ASSUME NEW o \in Order, P!TypeOK
             PROVE  P!PaymentsOf(o) = {id \in PaymentId : HasRow(id) /\ payments[id].key = o}
  OBVIOUS
<1>1. \A id \in PaymentId : HasRow(id) => payments[id].key \in Order
  BY HasRowType, RowType
<1> QED
  BY <1>1 DEF P!PaymentsOf, P!Used, HasRow

(* A checkout answers 201 only when the reservation was made and its one   *)
(* payment exists, for every number of attempts and lost answers.          *)
THEOREM AcceptedIsArrangedHolds == Spec => []AcceptedIsArranged
<1>1. IInv => AcceptedIsArranged
  <2> SUFFICES ASSUME IInv, NEW o \in Order, checkout[o] = "accepted"
               PROVE  reservation[o] # "none" /\ \E id \in P!PaymentsOf(o) : answered[o] = {id}
    BY DEF AcceptedIsArranged
  <2>1. P!TypeOK /\ PayInv /\ CheckoutInv(o)
    BY TypeParts DEF IInv
  <2>2. reservation[o] # "none" /\ answered[o] # {}
    BY <2>1 DEF CheckoutInv
  <2>3. PICK id \in answered[o] : TRUE
    BY <2>2
  <2>4. answered[o] \subseteq PaymentId
    BY <2>1 DEF P!TypeOK
  <2>5. \A i \in answered[o] : i = id
    BY <2>1, <2>3, <2>4 DEF PayInv
  <2>6. id \in P!PaymentsOf(o)
    BY <2>1, <2>3, <2>4, PaymentsOfRow DEF PayInv
  <2> QED
    BY <2>2, <2>3, <2>5, <2>6
<1> QED
  BY <1>1, Invariant, PTL

(* A checkout refused for lack of stock has left no order, no payment and  *)
(* no reservation, and nothing on its way that could make one.             *)
THEOREM RefusedLeavesNothingHolds == Spec => []RefusedLeavesNothing
<1>1. IInv => RefusedLeavesNothing
  <2> SUFFICES ASSUME IInv, NEW o \in Order, checkout[o] = "refused"
               PROVE  /\ orders[o] = "deleted"
                      /\ reservation[o] = "none" /\ reserve[o] # "sent"
                      /\ P!PaymentsOf(o) = {} /\ posts[o] = 0
    BY DEF RefusedLeavesNothing
  <2>1. P!TypeOK /\ CheckoutInv(o)
    BY TypeParts DEF IInv
  <2>2. /\ orders[o] = "deleted" /\ reserve[o] = "refused" /\ reservation[o] = "none"
        /\ posts[o] = 0 /\ NoPayment(o)
    BY <2>1 DEF CheckoutInv
  <2>3. P!PaymentsOf(o) = {}
    BY <2>1, <2>2, PaymentsOfRow DEF NoPayment
  <2> QED
    BY <2>2, <2>3
<1> QED
  BY <1>1, Invariant, PTL

(* Whatever comes after shipping has handled the cancellation (the payment *)
(* event, a repeated one, a shipment arranged by hand), only a PUT can set *)
(* the shipment to its preparation: the row the cancellation leaves stops  *)
(* the others.                                                             *)
THEOREM CancelledIsNotPreparedHolds == Spec => CancelledIsNotPrepared
<1>1. IInv /\ [Next]_vars =>
        [\A o \in Order : CancelledButPrepared(o)' =>
           CancelledButPrepared(o) \/ S!UpdateShipment(o, "preparing")]_vars
  <2> SUFFICES ASSUME IInv, Next, NEW o \in Order, CancelledButPrepared(o)',
                      ~ CancelledButPrepared(o)
               PROVE  S!UpdateShipment(o, "preparing")
    OBVIOUS
  <2>1. shipments \in [Order -> S!Status] /\ ShipInv(o) /\ Bus!TypeOK
    BY TypeParts DEF IInv, S!TypeOK
  <2>2. Cancelled(o) \in ToldShipping' /\ shipments'[o] = "preparing"
    BY DEF CancelledButPrepared, ToldShipping, Cancelled
  <2>3. Cancelled(o) \notin ToldShipping \/ shipments[o] # "preparing"
    BY DEF CancelledButPrepared, ToldShipping
  <2>4. Cancelled(o) \in ToldShipping => shipments[o] # "none"
    BY <2>1 DEF ShipInv, ToldShipping
  <2>5. ASSUME UNCHANGED <<shipments, ToldShipping>>  PROVE FALSE
    BY <2>2, <2>3, <2>5
  <2>6. ASSUME NEW p \in Order, ArrangeShipment(p)  PROVE FALSE
    <3>1. UNCHANGED ToldShipping
      BY <2>1, <2>6, HandleSteps, EventTypes, Queues DEF ArrangeShipment, ToldShipping
    <3>2. shipments' = [shipments EXCEPT ![p] = IF @ = "none" THEN "preparing" ELSE @]
      BY <2>6 DEF ArrangeShipment, S!CreateShipmentForOrder
    <3> QED
      BY <2>1, <2>2, <2>3, <2>4, <3>1, <3>2
  <2>7. ASSUME NEW p \in Order, CancelShipment(p)  PROVE FALSE
    <3>1. ToldShipping' = ToldShipping \cup {Cancelled(p)}
      BY <2>1, <2>7, HandleSteps, EventTypes, Queues DEF CancelShipment, ToldShipping
    <3>2. shipments' = [shipments EXCEPT
            ![p] = IF @ \in {"none", "preparing"} THEN "cancelled" ELSE @]
      BY <2>7 DEF CancelShipment, S!CancelShipmentForOrder
    <3>3. p # o
      BY <2>1, <2>2, <3>2
    <3> QED
      BY <2>1, <2>2, <2>3, <3>1, <3>2, <3>3, EventTypes
  <2>8. ASSUME NEW p \in Order, ShippingApi(p)  PROVE S!UpdateShipment(o, "preparing")
    <3>1. UNCHANGED ToldShipping
      BY <2>8 DEF ShippingApi, busVars, ToldShipping
    <3>2. CASE S!CreateShipment(p, "preparing")
      <4>1. shipments[p] = "none" /\ shipments' = [shipments EXCEPT ![p] = "preparing"]
        BY <3>2 DEF S!CreateShipment
      <4> QED
        BY <2>1, <2>2, <2>3, <2>4, <3>1, <4>1
    <3>3. ASSUME NEW status \in ShipmentPut, S!UpdateShipment(p, status)
          PROVE  S!UpdateShipment(o, "preparing")
      <4>1. shipments' = [shipments EXCEPT ![p] = status]
        BY <3>3 DEF S!UpdateShipment
      <4>2. p = o
        BY <2>1, <2>2, <2>3, <3>1, <4>1
      <4>3. status = "preparing"
        BY <2>1, <2>2, <4>1, <4>2
      <4> QED
        BY <3>3, <4>2, <4>3
    <3> QED
      BY <2>8, <3>2, <3>3 DEF ShippingApi
  <2>9. ASSUME NEW p \in Order, EventStep(p), ~ ArrangeShipment(p), ~ CancelShipment(p)
        PROVE  UNCHANGED <<shipments, ToldShipping>>
    <3>1. UNCHANGED shipments
      BY <2>9 DEF EventStep, RefundPayments, RefundCommits, RefundFails, FetchDestination,
        DestinationMissing, ArrangeFails, ConfirmReservation, CompensateReservation, shippingVars,
        S!FetchDestination, S!ArrangeFails
    <3>2. \/ UNCHANGED busVars
          \/ Bus!Isolate("payment-events-shipping", Settled(p))
          \/ Bus!Handle("order-events-payment", Cancelled(p))
          \/ Bus!Handle("payment-events-inventory", Settled(p))
          \/ Bus!Handle("order-events-inventory", Cancelled(p))
      BY <2>9 DEF EventStep, RefundPayments, RefundCommits, RefundFails, FetchDestination,
        DestinationMissing, ArrangeFails, ConfirmReservation, CompensateReservation
    <3>3. UNCHANGED ToldShipping
      BY <2>1, <3>2, HandleSteps, IsolateSteps, EventTypes, Queues DEF busVars, ToldShipping
    <3> QED
      BY <3>1, <3>3
  <2>10. ASSUME NEW p \in Order,
                CheckoutStep(p) \/ RequestStep(p) \/ CancelOrder(p)
                  \/ \E status \in OrderPut : UpdateOrder(p, status)
         PROVE  UNCHANGED <<shipments, ToldShipping>>
    <3>1. UNCHANGED shippingVars /\ (UNCHANGED busVars \/ Bus!Emit(Cancelled(p), CancelQueue))
      BY <2>10 DEF CheckoutStep, Checkout, ReserveAnswered, ReserveRefused, ReserveUnknown,
        PostPayment, PaymentAnswered, PaymentUnknown, Release, DeleteOrder, CheckoutFails,
        RequestStep, ReserveApplied, ReserveNotApplied, PostApplied, PostLost, CancelOrder, UpdateOrder
    <3> QED
      BY <3>1 DEF shippingVars, busVars, ToldShipping, Bus!Emit
  <2>11. ASSUME ExpireReservations
                  \/ \E id \in PaymentId, status \in PaymentPut : UpdatePayment(id, status)
         PROVE  UNCHANGED <<shipments, ToldShipping>>
    BY <2>11 DEF ExpireReservations, UpdatePayment, shippingVars, busVars, ToldShipping, Bus!Emit
  <2> QED
    BY <2>5, <2>6, <2>7, <2>8, <2>9, <2>10, <2>11 DEF Next, ApiStep
<1> QED
  BY <1>1, Invariant, PTL DEF Spec, CancelledIsNotPrepared

-----------------------------------------------------------------------------
(* The state of OrderLifecycle that a state of the saga stands for.        *)
LifeStatus   == [o \in Order |-> IF orders[o] \in {"none", "deleted"} THEN NULL ELSE orders[o]]
LifeGone     == {o \in Order : orders[o] = "deleted"}
LifeAccepted == {o \in Order : checkout[o] = "accepted"}
LifeTold     == {o \in Order : Cancelled(o) \in emitted}

Alive(o) == orders[o] \notin {"none", "deleted"}

(* What a step of one order does to that state.                            *)
LEMMA LifeStatusStep ==
  ASSUME CheckoutTypes, NEW o \in Order, NEW s \in OrderPut \cup {"confirmed", "cancelled", "deleted"},
         orders' = [orders EXCEPT ![o] = s]
  PROVE  /\ s = "deleted" => /\ LifeStatus' = [LifeStatus EXCEPT ![o] = NULL]
                             /\ LifeGone' = LifeGone \cup {o}
         /\ s # "deleted" => LifeStatus' = [LifeStatus EXCEPT ![o] = s]
         /\ s # "deleted" /\ ~ Deleted(o) => LifeGone' = LifeGone
<1>1. /\ orders'[o] = s
      /\ \A p \in Order \ {o} : orders'[p] = orders[p]
  BY DEF CheckoutTypes
<1>2. s # "none"
  BY StatusAssumption
<1>3. s = "deleted" => LifeStatus' = [LifeStatus EXCEPT ![o] = NULL]
  BY <1>1 DEF LifeStatus
<1>4. s # "deleted" => LifeStatus' = [LifeStatus EXCEPT ![o] = s]
  BY <1>1, <1>2 DEF LifeStatus
<1>5. s = "deleted" => LifeGone' = LifeGone \cup {o}
  BY <1>1 DEF LifeGone
<1>6. s # "deleted" /\ ~ Deleted(o) => LifeGone' = LifeGone
  BY <1>1 DEF LifeGone, Deleted
<1> QED
  BY <1>3, <1>4, <1>5, <1>6

LEMMA LifeTypes ==
  ASSUME CheckoutTypes, NEW o \in Order
  PROVE  /\ LifeStatus[o] # NULL <=> Alive(o)
         /\ Alive(o) => LifeStatus[o] = orders[o]
         /\ o \in LifeGone <=> Deleted(o)
BY StatusAssumption DEF CheckoutTypes, LifeStatus, LifeGone, Alive, Deleted

LEMMA LifeKept ==
  ASSUME UNCHANGED <<orders, LifeAccepted, LifeTold>>
  PROVE  UNCHANGED Life!vars
BY DEF Life!vars, LifeAccepted, LifeTold

(* The steps of the checkout handler.                                      *)
LEMMA CheckoutLives ==
  ASSUME CheckoutTypes, NEW o \in Order, CheckoutInv(o), CheckoutStep(o)
  PROVE  [Life!Next]_(Life!vars)
<1> USE DEF CheckoutTypes
<1>1. UNCHANGED LifeTold
  BY DEF CheckoutStep, Checkout, ReserveAnswered, ReserveRefused, ReserveUnknown, PostPayment,
    PaymentAnswered, PaymentUnknown, Release, DeleteOrder, CheckoutFails, busVars, LifeTold
<1>2. ASSUME NEW to \in ({"idle"} \cup Active \cup Ended) \ {"accepted"}, checkout[o] # "accepted",
             checkout' = [checkout EXCEPT ![o] = to]
      PROVE  UNCHANGED LifeAccepted
  BY <1>2 DEF LifeAccepted
<1>3. CASE Checkout(o)
  <2>1. orders[o] = "none" /\ orders' = [orders EXCEPT ![o] = "confirmed"]
    BY <1>3 DEF Checkout
  <2>2. UNCHANGED LifeAccepted
    BY <1>2, <1>3 DEF Checkout, Goes, Active
  <2>3. LifeStatus' = [LifeStatus EXCEPT ![o] = "confirmed"] /\ LifeGone' = LifeGone
    BY <2>1, LifeStatusStep DEF Deleted
  <2>4. LifeStatus[o] = NULL /\ o \notin LifeGone
    BY <2>1, LifeTypes DEF Alive, Deleted
  <2>5. Life!Place(o, "confirmed")
    BY <1>1, <2>2, <2>3, <2>4
      DEF Life!Place, Life!Exists, LifeStatus, LifeGone, LifeAccepted, LifeTold
  <2> QED
    BY <2>5 DEF Life!Next, Status
<1>4. CASE PaymentAnswered(o)
  <2>1. /\ checkout[o] = "paying" /\ checkout' = [checkout EXCEPT ![o] = "accepted"]
        /\ UNCHANGED orders
    BY <1>4 DEF PaymentAnswered, Goes
  <2>2. LifeAccepted' = LifeAccepted \cup {o}
    BY <2>1 DEF LifeAccepted
  <2>3. LifeStatus[o] # NULL
    BY <2>1, LifeTypes DEF Alive, CheckoutInv, Active
  <2>4. UNCHANGED <<LifeStatus, LifeGone>>
    BY <2>1 DEF LifeStatus, LifeGone
  <2>5. Life!Accept(o)
    BY <1>1, <2>2, <2>3, <2>4
      DEF Life!Accept, Life!Exists, LifeStatus, LifeGone, LifeAccepted, LifeTold
  <2> QED
    BY <2>5 DEF Life!Next
<1>5. ASSUME checkout[o] \in Active, NEW to \in Ended \ {"accepted"},
             checkout' = [checkout EXCEPT ![o] = to],
             orders' = [orders EXCEPT ![o] = "deleted"]
      PROVE  Life!Next
  <2>1. Alive(o) /\ checkout[o] # "accepted"
    BY <1>5 DEF CheckoutInv, Active, Alive
  <2>2. UNCHANGED LifeAccepted
    BY <1>2, <1>5, <2>1
  <2>3. LifeStatus' = [LifeStatus EXCEPT ![o] = NULL] /\ LifeGone' = LifeGone \cup {o}
    BY <1>5, LifeStatusStep
  <2>4. LifeStatus[o] # NULL /\ o \notin LifeAccepted
    BY <2>1, LifeTypes DEF LifeAccepted
  <2>5. Life!Remove(o)
    BY <1>1, <2>2, <2>3, <2>4
      DEF Life!Remove, Life!Exists, LifeStatus, LifeGone, LifeAccepted, LifeTold
  <2> QED
    BY <2>5 DEF Life!Next
<1>6. CASE DeleteOrder(o)
  BY <1>5, <1>6 DEF DeleteOrder, Goes, Active, Ended
<1>7. CASE CheckoutFails(o)
  <2>1. checkout[o] \in Active /\ checkout' = [checkout EXCEPT ![o] = "failed"]
    BY <1>7 DEF CheckoutFails, Goes
  <2>2. CASE UNCHANGED orders
    <3>1. UNCHANGED LifeAccepted
      BY <1>2, <2>1 DEF Active, Ended
    <3> QED
      BY <1>1, <2>2, <3>1, LifeKept
  <2>3. CASE orders' = [orders EXCEPT ![o] = "deleted"]
    BY <1>5, <2>1, <2>3 DEF Ended
  <2> QED
    BY <1>7, <2>2, <2>3 DEF CheckoutFails
<1>8. CASE ReserveAnswered(o) \/ ReserveRefused(o) \/ ReserveUnknown(o) \/ PostPayment(o)
             \/ PaymentUnknown(o) \/ Release(o)
  <2>1. /\ UNCHANGED orders
        /\ \/ UNCHANGED checkout
           \/ /\ checkout[o] # "accepted"
              /\ \E to \in Active : checkout' = [checkout EXCEPT ![o] = to]
    BY <1>8 DEF ReserveAnswered, ReserveRefused, ReserveUnknown, PostPayment, PaymentUnknown,
      Release, Goes, Active
  <2>2. UNCHANGED LifeAccepted
    BY <1>2, <2>1 DEF LifeAccepted, Active
  <2> QED
    BY <1>1, <2>1, <2>2, LifeKept
<1> QED
  BY <1>3, <1>4, <1>6, <1>7, <1>8 DEF CheckoutStep

(* The other requests to the order service.                                *)
LEMMA ApiLives ==
  ASSUME CheckoutTypes, NEW o \in Order,
         CancelOrder(o) \/ \E status \in OrderPut : UpdateOrder(o, status)
  PROVE  [Life!Next]_(Life!vars)
<1>1. Alive(o) /\ ~ Deleted(o) /\ UNCHANGED LifeAccepted
  BY DEF CancelOrder, UpdateOrder, Alive, Deleted, checkoutVars, LifeAccepted
<1>2. LifeStatus[o] # NULL /\ LifeStatus[o] = orders[o]
  BY <1>1, LifeTypes
<1>3. CASE CancelOrder(o)
  <2>1. /\ orders[o] \notin {"shipped", "cancelled"}
        /\ orders' = [orders EXCEPT ![o] = "cancelled"]
    BY <1>3 DEF CancelOrder
  <2>2. LifeStatus' = [LifeStatus EXCEPT ![o] = "cancelled"] /\ LifeGone' = LifeGone
    BY <1>1, <2>1, LifeStatusStep
  <2>3. LifeTold' = LifeTold \cup {o}
    <3>1. CASE Cancelled(o) \in emitted /\ UNCHANGED busVars
      BY <3>1 DEF LifeTold, busVars
    <3>2. CASE Bus!Emit(Cancelled(o), CancelQueue)
      <4>1. emitted' = emitted \cup {Cancelled(o)}
        BY <3>2 DEF Bus!Emit
      <4> QED
        BY <4>1, EventTypes DEF LifeTold
    <3> QED
      BY <1>3, <3>1, <3>2 DEF CancelOrder
  <2>4. Life!Cancel(o)
    BY <1>1, <1>2, <2>1, <2>2, <2>3
      DEF Life!Cancel, Life!Exists, LifeStatus, LifeGone, LifeAccepted, LifeTold
  <2> QED
    BY <2>4 DEF Life!Next
<1>4. ASSUME NEW status \in OrderPut, UpdateOrder(o, status)
      PROVE  Life!Next
  <2>1. orders' = [orders EXCEPT ![o] = status] /\ UNCHANGED LifeTold /\ status # "deleted"
    BY <1>4, StatusAssumption DEF UpdateOrder, busVars, LifeTold
  <2>2. LifeStatus' = [LifeStatus EXCEPT ![o] = status] /\ LifeGone' = LifeGone
    BY <1>1, <2>1, LifeStatusStep
  <2>3. Life!Write(o, status)
    BY <1>1, <1>2, <2>1, <2>2
      DEF Life!Write, Life!Exists, LifeStatus, LifeGone, LifeAccepted, LifeTold
  <2> QED
    BY <2>3 DEF Life!Next, Status
<1> QED
  BY <1>3, <1>4

(* The other services touch no order, and tell nobody of its cancellation. *)
LEMMA OthersLive ==
  ASSUME P!TypeOK, Next,
         \A o \in Order : ~ CheckoutStep(o) /\ ~ CancelOrder(o)
                            /\ \A status \in OrderPut : ~ UpdateOrder(o, status)
  PROVE  UNCHANGED Life!vars
<1>1. UNCHANGED <<orders, checkout>>
  BY DEF Next, RequestStep, ReserveApplied, ReserveNotApplied, PostApplied, PostLost,
    EventStep, RefundPayments, RefundCommits, RefundFails, FetchDestination, DestinationMissing,
    ArrangeShipment, ArrangeFails, CancelShipment, ConfirmReservation, CompensateReservation,
    ApiStep, ShippingApi, UpdatePayment, ExpireReservations, checkoutVars
<1>2. UNCHANGED LifeTold
  <2>1. ASSUME NEW id \in PaymentId, NEW status \in PaymentPut, UpdatePayment(id, status)
        PROVE  UNCHANGED LifeTold
    <3>1. payments[id].key \in Order
      BY <2>1, HasRowType, RowType DEF UpdatePayment, P!UpdatePayment, P!Used, HasRow
    <3>2. UNCHANGED emitted \/ emitted' = emitted \cup {Settled(payments[id].key)}
      BY <2>1 DEF UpdatePayment, Bus!Emit, busVars
    <3> QED
      BY <3>1, <3>2, EventTypes DEF LifeTold
  <2>2. CASE UNCHANGED emitted
    BY <2>2 DEF LifeTold
  <2>3. ASSUME ~ \E id \in PaymentId, status \in PaymentPut : UpdatePayment(id, status)
        PROVE  UNCHANGED emitted
    BY <2>3 DEF Next, RequestStep, ReserveApplied, ReserveNotApplied, PostApplied, PostLost,
      EventStep, RefundPayments, RefundCommits, RefundFails, FetchDestination, DestinationMissing,
      ArrangeShipment, ArrangeFails, CancelShipment, ConfirmReservation, CompensateReservation,
      ApiStep, ShippingApi, ExpireReservations, busVars, Bus!Handle, Bus!Isolate
  <2> QED
    BY <2>1, <2>2, <2>3
<1>3. UNCHANGED LifeAccepted
  BY <1>1 DEF LifeAccepted
<1> QED
  BY <1>1, <1>2, <1>3, LifeKept

(* Across the services an order has the life its own service promises: for *)
(* every number of orders, payments and attempts, whatever is lost.        *)
THEOREM SagaImplementsLifecycle == Spec => ImplementsLifecycle
<1>1. Init => Life!Init
  <2> SUFFICES ASSUME Init PROVE Life!Init
    OBVIOUS
  <2>1. LifeStatus = [o \in Order |-> NULL] /\ LifeGone = {} /\ LifeAccepted = {} /\ LifeTold = {}
    BY DEF Init, Bus!Init, LifeStatus, LifeGone, LifeAccepted, LifeTold
  <2> QED
    BY <2>1 DEF Life!Init, LifeStatus, LifeGone, LifeAccepted, LifeTold
<1>2. IInv /\ [Next]_vars => [Life!Next]_(Life!vars)
  <2> SUFFICES ASSUME IInv, [Next]_vars PROVE [Life!Next]_(Life!vars)
    OBVIOUS
  <2>1. CheckoutTypes /\ P!TypeOK /\ \A o \in Order : CheckoutInv(o)
    BY TypeParts DEF IInv
  <2>2. CASE UNCHANGED vars
    <3>1. UNCHANGED <<orders, checkout, emitted>>
      BY <2>2 DEF vars, checkoutVars, busVars
    <3> QED
      BY <3>1, LifeKept DEF LifeAccepted, LifeTold
  <2>3. CASE Next
    BY <2>1, <2>3, CheckoutLives, ApiLives, OthersLive
  <2> QED
    BY <2>2, <2>3
<1> QED
  BY <1>1, <1>2, Invariant, PTL DEF Spec, ImplementsLifecycle, Life!Spec

-----------------------------------------------------------------------------
(* The saga uses its components as they promise to be used: each of its    *)
(* steps is one step of the payment service, of the life of a reservation  *)
(* and of the event bus, or leaves that component as it is.                *)

LEMMA ReservationLives ==
  ASSUME [Next]_vars
  PROVE  [L!Next]_reservation
<1>1. ASSUME NEW o \in Order, NEW to \in L!State, L!Move(o, to)
      PROVE  L!Next
  BY <1>1 DEF L!Next
<1>2. ASSUME NEW o \in Order, ReleaseReservation(o)
      PROVE  [L!Next]_reservation
  <2>1. CASE reservation[o] = "pending"
    <3>1. L!Move(o, "released") /\ "released" \in L!State
      BY <1>2, <2>1 DEF ReleaseReservation, L!State
    <3> QED
      BY <1>1, <3>1
  <2>2. CASE reservation[o] # "pending"
    BY <1>2, <2>2 DEF ReleaseReservation
  <2> QED
    BY <2>1, <2>2
<1>3. ASSUME NEW o \in Order, Release(o) \/ CheckoutFails(o) \/ CompensateReservation(o)
      PROVE  [L!Next]_reservation
  <2>1. CASE L!Move(o, "cancelled")
    <3>1. "cancelled" \in L!State
      BY DEF L!State
    <3> QED
      BY <1>1, <2>1, <3>1
  <2>2. CASE ReleaseReservation(o)
    BY <1>2, <2>2
  <2>3. CASE UNCHANGED reservation
    BY <2>3
  <2> QED
    BY <1>3, <2>1, <2>2, <2>3 DEF Release, CheckoutFails, CompensateReservation
<1>4. ASSUME NEW o \in Order, ReserveApplied(o) \/ ConfirmReservation(o)
      PROVE  [L!Next]_reservation
  <2>1. L!Move(o, "pending") \/ L!Move(o, "confirmed") \/ UNCHANGED reservation
    BY <1>4 DEF ReserveApplied, ConfirmReservation
  <2>2. "pending" \in L!State /\ "confirmed" \in L!State
    BY DEF L!State
  <2> QED
    BY <1>1, <2>1, <2>2
<1>5. CASE ExpireReservations
  <2>1. PICK lapsed \in SUBSET {o \in Order : reservation[o] = "pending"} : L!Expire(lapsed)
    BY <1>5 DEF ExpireReservations
  <2> QED
    BY <2>1 DEF L!Next
<1>6. CASE UNCHANGED reservation
  BY <1>6
<1>7. ASSUME Next, ~ ExpireReservations,
             \A o \in Order : ~ Release(o) /\ ~ CheckoutFails(o) /\ ~ CompensateReservation(o)
                                /\ ~ ReserveApplied(o) /\ ~ ConfirmReservation(o)
      PROVE  UNCHANGED reservation
  BY <1>7 DEF Next, CheckoutStep, Checkout, ReserveAnswered, ReserveRefused, ReserveUnknown,
    PostPayment, PaymentAnswered, PaymentUnknown, DeleteOrder, RequestStep, ReserveNotApplied,
    PostApplied, PostLost, EventStep, RefundPayments, RefundCommits, RefundFails,
    FetchDestination, DestinationMissing, ArrangeShipment, ArrangeFails, CancelShipment,
    ApiStep, CancelOrder, UpdateOrder, ShippingApi, UpdatePayment
<1> QED
  BY <1>3, <1>4, <1>5, <1>6, <1>7 DEF vars

LEMMA PaymentLives ==
  ASSUME [Next]_vars
  PROVE  [P!Next]_(P!vars)
<1>1. ASSUME NEW o \in Order, PostApplied(o)
      PROVE  P!Next
  BY <1>1 DEF PostApplied, P!Next
<1>2. ASSUME NEW o \in Order, RefundPayments(o) \/ RefundCommits(o) \/ RefundFails(o)
      PROVE  P!Next
  BY <1>2 DEF RefundPayments, RefundCommits, RefundFails, P!Next
<1>3. ASSUME NEW id \in PaymentId, NEW status \in PaymentPut, UpdatePayment(id, status)
      PROVE  P!Next
  BY <1>3 DEF UpdatePayment, P!Next
<1>4. CASE UNCHANGED paymentVars
  BY <1>4 DEF paymentVars, P!vars
<1>5. ASSUME Next, ~ \E id \in PaymentId, status \in PaymentPut : UpdatePayment(id, status),
             \A o \in Order : ~ PostApplied(o) /\ ~ RefundPayments(o) /\ ~ RefundCommits(o)
                                /\ ~ RefundFails(o)
      PROVE  UNCHANGED paymentVars
  BY <1>5 DEF Next, CheckoutStep, Checkout, ReserveAnswered, ReserveRefused, ReserveUnknown,
    PostPayment, PaymentAnswered, PaymentUnknown, Release, DeleteOrder, CheckoutFails,
    RequestStep, ReserveApplied, ReserveNotApplied, PostLost, EventStep,
    FetchDestination, DestinationMissing, ArrangeShipment, ArrangeFails, CancelShipment,
    ConfirmReservation, CompensateReservation,
    ApiStep, CancelOrder, UpdateOrder, ShippingApi, ExpireReservations
<1>6. CASE UNCHANGED vars
  BY <1>4, <1>6 DEF vars
<1> QED
  BY <1>1, <1>2, <1>3, <1>4, <1>5, <1>6

LEMMA BusLives ==
  ASSUME IInv, [Next]_vars
  PROVE  [Bus!Next]_(Bus!vars)
<1>1. ASSUME NEW e \in Event, NEW subscribed \in SUBSET Queue, Bus!Emit(e, subscribed)
      PROVE  Bus!Next
  BY <1>1 DEF Bus!Next
<1>2. ASSUME NEW e \in Event, NEW q \in Queue, Bus!Handle(q, e) \/ Bus!Isolate(q, e)
      PROVE  Bus!Next
  BY <1>2 DEF Bus!Next
<1>3. CASE UNCHANGED busVars
  BY <1>3 DEF busVars, Bus!vars
<1>4. ASSUME NEW o \in Order, CancelOrder(o)
      PROVE  [Bus!Next]_(Bus!vars)
  BY <1>1, <1>3, <1>4, EventTypes, Queues DEF CancelOrder
<1>5. ASSUME NEW id \in PaymentId, NEW status \in PaymentPut, UpdatePayment(id, status)
      PROVE  [Bus!Next]_(Bus!vars)
  <2>1. P!TypeOK
    BY TypeParts DEF IInv
  <2>2. HasRow(id)
    BY <1>5 DEF UpdatePayment, P!UpdatePayment, P!Used, HasRow
  <2>3. PICK o \in Order : o = payments[id].key
    BY <2>1, <2>2, HasRowType, RowType
  <2>4. Bus!Emit(Settled(o), SettledQueue) \/ UNCHANGED busVars
    BY <1>5, <2>3 DEF UpdatePayment
  <2> QED
    BY <1>1, <1>3, <2>4, EventTypes, Queues
<1>6. ASSUME NEW o \in Order, RefundCommits(o) \/ DestinationMissing(o) \/ ArrangeShipment(o)
               \/ CancelShipment(o) \/ ConfirmReservation(o) \/ CompensateReservation(o)
      PROVE  Bus!Next
  <2>1. \E q \in Queue, e \in Event : Bus!Handle(q, e) \/ Bus!Isolate(q, e)
    BY <1>6, EventTypes, Queues DEF RefundCommits, DestinationMissing, ArrangeShipment,
      CancelShipment, ConfirmReservation, CompensateReservation
  <2> QED
    BY <1>2, <2>1
<1>7. ASSUME Next, ~ \E id \in PaymentId, status \in PaymentPut : UpdatePayment(id, status),
             \A o \in Order : ~ CancelOrder(o) /\ ~ RefundCommits(o) /\ ~ DestinationMissing(o)
                                /\ ~ ArrangeShipment(o) /\ ~ CancelShipment(o)
                                /\ ~ ConfirmReservation(o) /\ ~ CompensateReservation(o)
      PROVE  UNCHANGED busVars
  BY <1>7 DEF Next, CheckoutStep, Checkout, ReserveAnswered, ReserveRefused, ReserveUnknown,
    PostPayment, PaymentAnswered, PaymentUnknown, Release, DeleteOrder, CheckoutFails,
    RequestStep, ReserveApplied, ReserveNotApplied, PostApplied, PostLost, EventStep,
    RefundPayments, RefundFails, FetchDestination, ArrangeFails,
    ApiStep, UpdateOrder, ShippingApi, ExpireReservations
<1>8. CASE UNCHANGED vars
  BY <1>3, <1>8 DEF vars
<1> QED
  BY <1>3, <1>4, <1>5, <1>6, <1>7, <1>8

(* What Payment, ReservationLifecycle and EventBus promise therefore holds *)
(* of the saga: its orders' payments, reservations and events are theirs.  *)
THEOREM SagaComposes == Spec => P!Spec /\ L!Spec /\ Bus!Steps
<1>1. Init => P!Init /\ L!Init /\ Bus!Init
  BY DEF Init
<1>2. IInv /\ [Next]_vars => [P!Next]_(P!vars) /\ [L!Next]_reservation /\ [Bus!Next]_(Bus!vars)
  BY ReservationLives, PaymentLives, BusLives
<1> QED
  BY <1>1, <1>2, Invariant, PTL DEF Spec, P!Spec, L!Spec, Bus!Steps

-----------------------------------------------------------------------------
(* What is proved of the payment service by itself.                        *)
PP == INSTANCE PaymentProofs WITH Key <- Order, OrderOf <- [o \in Order |-> o],
                                  PutStatus <- PaymentPut

LEMMA PaymentAssumptions ==
  PP!IdAssumption /\ PP!KeyAssumption /\ PP!PutAssumption /\ PP!NoRowAssumption
BY SagaAssumption, StatusAssumption
  DEF PP!IdAssumption, PP!KeyAssumption, PP!PutAssumption, PP!NoRowAssumption,
    PP!Row, PP!Status, P!Row, P!Status

LEMMA SamePayment ==
  /\ P!Init => PP!Init
  /\ [P!Next]_(P!vars) => [PP!Next]_(PP!vars)
  /\ PP!NoDoubleCharge => P!NoDoubleCharge
  /\ PP!RefundsBacked => P!RefundsBacked
<1>1. P!Init => PP!Init
  BY DEF P!Init, PP!Init
<1>2. P!Used = PP!Used /\ P!vars = PP!vars /\ P!vars' = PP!vars'
  BY DEF P!Used, PP!Used, P!vars, PP!vars
<1>3. \A o \in Order : P!PaymentWithKey(o) = PP!PaymentWithKey(o) /\ P!PaymentsOf(o) = PP!PaymentsOf(o)
  BY <1>2 DEF P!PaymentWithKey, PP!PaymentWithKey, P!PaymentsOf, PP!PaymentsOf
<1>4. ASSUME NEW o \in Order, P!CreatePayment(o)
      PROVE  PP!Next
  BY <1>2, <1>3, <1>4 DEF PP!Next, P!CreatePayment, P!InsertPayment, P!GetPaymentByIdempotencyKey,
    PP!CreatePayment, PP!InsertPayment, PP!GetPaymentByIdempotencyKey
<1>5. ASSUME NEW id \in PaymentId, NEW status \in PaymentPut, P!UpdatePayment(id, status)
      PROVE  PP!Next
  BY <1>2, <1>5 DEF PP!Next, P!UpdatePayment, PP!UpdatePayment, P!Locked, PP!Locked,
    P!SettledStatus, PP!SettledStatus
<1>6. ASSUME NEW o \in Order,
             P!RefundPaymentByOrder(o) \/ P!VoidPendingPaymentByOrder(o) \/ P!RefundFails(o)
      PROVE  PP!Next
  BY <1>3, <1>6 DEF PP!Next, P!RefundPaymentByOrder, PP!RefundPaymentByOrder,
    P!VoidPendingPaymentByOrder, PP!VoidPendingPaymentByOrder, P!RefundFails, PP!RefundFails,
    P!Refundable, PP!Refundable, P!IsSettled, PP!IsSettled, P!SettledStatus, PP!SettledStatus
<1>7. [P!Next]_(P!vars) => [PP!Next]_(PP!vars)
  BY <1>2, <1>4, <1>5, <1>6 DEF P!Next
<1>8. PP!NoDoubleCharge => P!NoDoubleCharge
  BY <1>3 DEF PP!NoDoubleCharge, P!NoDoubleCharge, P!Cardinality, PP!Cardinality
<1>9. PP!RefundsBacked => P!RefundsBacked
  BY <1>2 DEF PP!RefundsBacked, P!RefundsBacked, P!IsSettled, PP!IsSettled,
    P!SettledStatus, PP!SettledStatus
<1> QED
  BY <1>1, <1>7, <1>8, <1>9

(* Whatever the checkouts repeat, the bus delivers again and the handlers  *)
(* have to give up, no checkout is charged twice and no payment is paid    *)
(* back more often than it was settled.                                    *)
THEOREM SagaPaysOnce == Spec => [](P!NoDoubleCharge /\ P!RefundsBacked)
<1>1. Spec => PP!Spec
  <2>1. P!Spec => PP!Spec
    BY SamePayment, PTL DEF P!Spec, PP!Spec
  <2> QED
    BY <2>1, SagaComposes, PTL
<1>2. PP!Spec => []PP!NoDoubleCharge
  BY PaymentAssumptions, PP!NoDoubleChargeHolds, PTL
<1>3. PP!Spec => []PP!RefundsBacked
  BY PaymentAssumptions, PP!RefundsBackedHolds, PTL
<1> QED
  BY <1>1, <1>2, <1>3, SamePayment, PTL

-----------------------------------------------------------------------------
(* What an ack of a service means.  A payment exists only after the        *)
(* reservation was answered, payment.settled is of a payment, and without  *)
(* cancellations in flight a cancelled order has no request on its way.    *)
PaidInv(o) ==
  /\ posts[o] > 0 \/ ~NoPayment(o) => reserve[o] = "reserved"
  /\ Settled(o) \in emitted => ~NoPayment(o)

QuietInv(o) == ~CancelInFlight /\ Cancelled(o) \in emitted =>
  ~RequestsInFlight(o) /\ checkout[o] # "idle"

LEMMA InitQuiet == Init => \A o \in Order : PaidInv(o) /\ QuietInv(o)
BY DEF Init, PaidInv, QuietInv, NoPayment, HasRow, P!Init, Bus!Init

(* The rows of payments stay, and a new one answers a POST of its order.   *)
LEMMA PaymentRows ==
  ASSUME IInv, [Next]_vars
  PROVE  /\ RowsKept
         /\ \A o \in Order : NoPayment(o) /\ posts[o] = 0 => NoPayment(o)'
<1>1. P!TypeOK /\ PayInv /\ CheckoutTypes
  BY TypeParts DEF IInv
<1>2. CASE UNCHANGED paymentVars
  <2>1. RowsKept
    BY <1>2 DEF paymentVars, RowsKept, HasRow
  <2> QED
    BY <1>2, <2>1, PaymentsKept
<1>3. ASSUME NEW o \in Order, PostApplied(o)
      PROVE  /\ RowsKept
             /\ \A p \in Order : NoPayment(p) /\ posts[p] = 0 => NoPayment(p)'
  <2>1. RowsKept /\ OnlyFor(o) /\ posts[o] > 0
    BY <1>1, <1>3, PostPaymentSteps DEF PostApplied
  <2>2. posts[o] # 0
    BY <2>1
  <2>3. \A p \in Order \ {o} : NoPayment(p) => NoPayment(p)'
    BY <2>1 DEF OnlyFor, RowsKept, NoPayment
  <2> QED
    BY <2>1, <2>2, <2>3
<1>4. ASSUME RowsKept, \A i \in PaymentId : HasRow(i)' <=> HasRow(i)
      PROVE  \A p \in Order : NoPayment(p) => NoPayment(p)'
  BY <1>4 DEF NoPayment, RowsKept
<1>5. ASSUME NEW id \in PaymentId, NEW status \in PaymentPut, UpdatePayment(id, status)
      PROVE  RowsKept /\ \A p \in Order : NoPayment(p) => NoPayment(p)'
  <2>1. RowsKept /\ \A i \in PaymentId : HasRow(i)' <=> HasRow(i)
    BY <1>1, <1>5, PutSteps DEF UpdatePayment
  <2> QED
    BY <1>4, <2>1
<1>6. ASSUME NEW o \in Order, RefundPayments(o) \/ RefundCommits(o) \/ RefundFails(o)
      PROVE  RowsKept /\ \A p \in Order : NoPayment(p) => NoPayment(p)'
  <2>1. P!RefundPaymentByOrder(o) \/ P!VoidPendingPaymentByOrder(o) \/ P!RefundFails(o)
    BY <1>6 DEF RefundPayments, RefundCommits, RefundFails
  <2>2. RowsKept /\ \A i \in PaymentId : HasRow(i)' <=> HasRow(i)
    BY <1>1, <2>1, RefundSteps
  <2> QED
    BY <1>4, <2>2
<1>7. ASSUME Next, ~ \E id \in PaymentId, status \in PaymentPut : UpdatePayment(id, status),
             \A o \in Order : ~ PostApplied(o) /\ ~ RefundPayments(o) /\ ~ RefundCommits(o)
                                /\ ~ RefundFails(o)
      PROVE  UNCHANGED paymentVars
  BY <1>7 DEF Next, CheckoutStep, Checkout, ReserveAnswered, ReserveRefused, ReserveUnknown,
    PostPayment, PaymentAnswered, PaymentUnknown, Release, DeleteOrder, CheckoutFails,
    RequestStep, ReserveApplied, ReserveNotApplied, PostLost, EventStep,
    FetchDestination, DestinationMissing, ArrangeShipment, ArrangeFails, CancelShipment,
    ConfirmReservation, CompensateReservation,
    ApiStep, CancelOrder, UpdateOrder, ShippingApi, ExpireReservations
<1>8. CASE UNCHANGED vars
  BY <1>2, <1>8 DEF vars
<1> QED
  BY <1>2, <1>3, <1>5, <1>6, <1>7, <1>8

(* The requests: reserve is answered once, posts are sent while the        *)
(* checkout is paying.                                                     *)
LEMMA Requests ==
  ASSUME IInv, [Next]_vars, NEW o \in Order
  PROVE  /\ reserve[o] = "reserved" => reserve'[o] = "reserved"
         /\ posts'[o] > posts[o] => checkout[o] = "paying"
         /\ reserve'[o] = "sent" => reserve[o] = "sent" \/ checkout[o] = "idle"
         /\ reserve'[o] = "reserved" => reserve[o] \in {"reserved", "sent"}
         /\ checkout'[o] \in Active => checkout[o] \in Active \cup {"idle"}
         /\ checkout[o] # "idle" => checkout'[o] # "idle"
<1>1. CheckoutTypes /\ \A p \in Order : CheckoutInv(p)
  BY TypeParts DEF IInv
<1> USE DEF CheckoutTypes
<1>2. CASE UNCHANGED checkoutVars
  BY <1>1, <1>2 DEF checkoutVars
<1>3. ASSUME NEW p \in Order, RequestStep(p)
      PROVE  /\ UNCHANGED checkout
             /\ reserve[o] = "reserved" => reserve'[o] = "reserved"
             /\ ~ posts'[o] > posts[o]
             /\ reserve'[o] = "sent" => reserve[o] = "sent"
             /\ reserve'[o] = "reserved" => reserve[o] \in {"reserved", "sent"}
  BY <1>1, <1>3 DEF RequestStep, ReserveApplied, ReserveNotApplied, PostApplied, PostLost
<1>4. ASSUME NEW p \in Order, CheckoutStep(p)
      PROVE  /\ reserve[o] = "reserved" => reserve'[o] = "reserved"
             /\ posts'[o] > posts[o] => checkout[o] = "paying"
             /\ reserve'[o] = "sent" => reserve[o] = "sent" \/ checkout[o] = "idle"
             /\ reserve'[o] = "reserved" => reserve[o] \in {"reserved", "sent"}
             /\ checkout'[o] \in Active => checkout[o] \in Active \cup {"idle"}
             /\ checkout[o] # "idle" => checkout'[o] # "idle"
  <2>1. CASE Checkout(p)
    BY <1>1, <2>1 DEF Checkout, Goes, CheckoutInv, Active
  <2>2. CASE PostPayment(p)
    BY <1>1, <2>2 DEF PostPayment
  <2>3. CASE ReserveAnswered(p) \/ ReserveRefused(p) \/ ReserveUnknown(p)
               \/ PaymentAnswered(p) \/ PaymentUnknown(p)
    BY <1>1, <2>3 DEF ReserveAnswered, ReserveRefused, ReserveUnknown,
      PaymentAnswered, PaymentUnknown, Goes, Active
  <2>4. CASE Release(p) \/ DeleteOrder(p) \/ CheckoutFails(p)
    BY <1>1, <2>4 DEF Release, DeleteOrder, CheckoutFails, Goes, Active
  <2> QED
    BY <1>4, <2>1, <2>2, <2>3, <2>4 DEF CheckoutStep
<1>5. ASSUME Next, \A p \in Order : ~ CheckoutStep(p) /\ ~ RequestStep(p)
      PROVE  UNCHANGED checkoutVars
  BY <1>5 DEF Next, EventStep, RefundPayments, RefundCommits, RefundFails,
    FetchDestination, DestinationMissing, ArrangeShipment, ArrangeFails, CancelShipment,
    ConfirmReservation, CompensateReservation,
    ApiStep, CancelOrder, UpdateOrder, ShippingApi, UpdatePayment, ExpireReservations
<1>6. CASE UNCHANGED vars
  BY <1>2, <1>6 DEF vars
<1> QED
  BY <1>2, <1>3, <1>4, <1>5, <1>6

(* The events: who emits one.                                              *)
LEMMA Emissions ==
  ASSUME IInv, [Next]_vars, NEW o \in Order
  PROVE  /\ Cancelled(o) \in emitted' /\ Cancelled(o) \notin emitted => CancelOrder(o)
         /\ Settled(o) \in emitted' /\ Settled(o) \notin emitted => ~NoPayment(o)
<1>1. CASE UNCHANGED emitted
  BY <1>1
<1>2. ASSUME NEW p \in Order, CancelOrder(p)
      PROVE  emitted' \in {emitted, emitted \cup {Cancelled(p)}}
  BY <1>2 DEF CancelOrder, Bus!Emit, busVars
<1>3. ASSUME NEW id \in PaymentId, NEW status \in PaymentPut, UpdatePayment(id, status)
      PROVE  /\ HasRow(id) /\ payments[id].key \in Order
             /\ emitted' \in {emitted, emitted \cup {Settled(payments[id].key)}}
  <2>1. HasRow(id)
    BY <1>3 DEF UpdatePayment, P!UpdatePayment, P!Used, HasRow
  <2>2. P!TypeOK
    BY TypeParts DEF IInv
  <2>3. payments[id].key \in Order
    BY <2>1, <2>2, HasRowType, RowType
  <2> QED
    BY <1>3, <2>1, <2>3 DEF UpdatePayment, Bus!Emit, busVars
<1>4. ASSUME Next, ~ \E id \in PaymentId, status \in PaymentPut : UpdatePayment(id, status),
             \A p \in Order : ~ CancelOrder(p)
      PROVE  UNCHANGED emitted
  BY <1>4 DEF Next, CheckoutStep, Checkout, ReserveAnswered, ReserveRefused, ReserveUnknown,
    PostPayment, PaymentAnswered, PaymentUnknown, Release, DeleteOrder, CheckoutFails,
    RequestStep, ReserveApplied, ReserveNotApplied, PostApplied, PostLost, EventStep,
    RefundPayments, RefundCommits, RefundFails, FetchDestination, DestinationMissing,
    ArrangeShipment, ArrangeFails, CancelShipment, ConfirmReservation, CompensateReservation,
    ApiStep, UpdateOrder, ShippingApi, ExpireReservations, busVars, Bus!Handle, Bus!Isolate
<1>5. CASE UNCHANGED vars
  BY <1>1, <1>5 DEF vars, busVars
<1>6. ASSUME NEW p \in Order, CancelOrder(p)
      PROVE  /\ Cancelled(o) \in emitted' /\ Cancelled(o) \notin emitted => CancelOrder(o)
             /\ Settled(o) \in emitted' /\ Settled(o) \notin emitted => ~NoPayment(o)
  BY <1>2, <1>6, EventTypes
<1>7. ASSUME NEW id \in PaymentId, NEW status \in PaymentPut, UpdatePayment(id, status)
      PROVE  /\ Cancelled(o) \in emitted' /\ Cancelled(o) \notin emitted => CancelOrder(o)
             /\ Settled(o) \in emitted' /\ Settled(o) \notin emitted => ~NoPayment(o)
  <2>1. Cancelled(o) \in emitted' => Cancelled(o) \in emitted
    BY <1>3, <1>7, EventTypes
  <2>2. ASSUME Settled(o) \in emitted', Settled(o) \notin emitted
        PROVE  ~NoPayment(o)
    <3>1. Settled(o) = Settled(payments[id].key)
      BY <1>3, <1>7, <2>2
    <3>2. o = payments[id].key
      BY <3>1 DEF Settled
    <3> QED
      BY <1>3, <1>7, <3>2 DEF NoPayment
  <2> QED
    BY <2>1, <2>2
<1> QED
  BY <1>1, <1>4, <1>5, <1>6, <1>7

LEMMA QuietStep ==
  ASSUME IInv, [Next]_vars, NEW o \in Order, PaidInv(o), QuietInv(o)
  PROVE  PaidInv(o)' /\ QuietInv(o)'
<1>1. CheckoutTypes /\ CheckoutTypes' /\ CheckoutInv(o) /\ CheckoutInv(o)'
  BY NextSaga, TypeParts DEF IInv
<1>2. posts[o] \in Nat /\ posts'[o] \in Nat
  BY <1>1, SagaAssumption DEF CheckoutTypes
<1>3. ~NoPayment(o) => ~NoPayment(o)'
  BY PaymentRows DEF NoPayment, RowsKept
<1>4. Settled(o) \in emitted' => ~NoPayment(o)'
  BY <1>3, Emissions DEF PaidInv
<1>5. posts'[o] > 0 => reserve[o] = "reserved"
  <2>1. CASE posts[o] > 0
    BY <2>1 DEF PaidInv
  <2>2. CASE posts[o] = 0 /\ posts'[o] > 0
    BY <1>1, <1>2, <2>2, Requests DEF CheckoutInv
  <2> QED
    BY <1>2, <2>1, <2>2
<1>6. ~NoPayment(o)' => reserve[o] = "reserved"
  BY <1>2, PaymentRows DEF PaidInv
<1>7. PaidInv(o)'
  BY <1>4, <1>5, <1>6, Requests DEF PaidInv
<1>8. ASSUME ~CancelInFlight, Cancelled(o) \in emitted'
      PROVE  ~RequestsInFlight(o)' /\ checkout'[o] # "idle"
  <2>1. ~RequestsInFlight(o) /\ checkout[o] # "idle"
    <3>1. CASE Cancelled(o) \in emitted
      BY <1>8, <3>1 DEF QuietInv
    <3>2. CASE CancelOrder(o)
      BY <1>1, <1>8, <3>2 DEF CancelOrder, CheckoutInv
    <3> QED
      BY <1>8, <3>1, <3>2, Emissions
  <2>2. checkout[o] \notin Active /\ ~ posts[o] > 0 /\ reserve[o] # "sent"
    BY <2>1 DEF RequestsInFlight
  <2>3. checkout'[o] \notin Active /\ checkout'[o] # "idle" /\ reserve'[o] # "sent"
    BY <2>1, <2>2, Requests
  <2>4. ~ posts'[o] > 0
    BY <1>2, <2>2, Requests DEF Active
  <2> QED
    BY <2>3, <2>4 DEF RequestsInFlight
<1> QED
  BY <1>7, <1>8 DEF QuietInv

-----------------------------------------------------------------------------
(* Who acks an event of one of these queues.                               *)
LEMMA Acks ==
  ASSUME IInv, [Next]_vars, NEW o \in Order
  PROVE  /\ Settled(o) \in handled'["payment-events-shipping"] =>
              Settled(o) \in handled["payment-events-shipping"] \/ ArrangeShipment(o)
         /\ Settled(o) \in handled'["payment-events-inventory"] =>
              Settled(o) \in handled["payment-events-inventory"] \/ ConfirmReservation(o)
         /\ Cancelled(o) \in handled'["order-events-inventory"] =>
              Cancelled(o) \in handled["order-events-inventory"] \/ CompensateReservation(o)
         /\ Cancelled(o) \in handled'["order-events-payment"] =>
              Cancelled(o) \in handled["order-events-payment"] \/ RefundCommits(o)
<1>1. Bus!TypeOK
  BY TypeParts DEF IInv
<1>2. /\ {"payment-events-shipping", "payment-events-inventory", "order-events-inventory",
          "order-events-payment", "order-events-shipping"} = Queue
      /\ \A p \in Order : Settled(p) = Settled(o) => p = o
  BY DEF Queue, CancelQueue, SettledQueue, Settled
<1>3. CASE UNCHANGED handled
  BY <1>3
<1>4. ASSUME NEW p \in Order, NEW q \in Queue, NEW e \in Event, Bus!Handle(q, e)
      PROVE  /\ handled'[q] = handled[q] \cup {e}
             /\ \A r \in Queue \ {q} : handled'[r] = handled[r]
  BY <1>1, <1>4, HandleSteps
<1>5. ASSUME NEW p \in Order, ArrangeShipment(p)
      PROVE  /\ handled'["payment-events-shipping"] = handled["payment-events-shipping"] \cup {Settled(p)}
             /\ \A r \in Queue \ {"payment-events-shipping"} : handled'[r] = handled[r]
  BY <1>2, <1>4, <1>5, EventTypes DEF ArrangeShipment
<1>6. ASSUME NEW p \in Order, ConfirmReservation(p)
      PROVE  /\ handled'["payment-events-inventory"] = handled["payment-events-inventory"] \cup {Settled(p)}
             /\ \A r \in Queue \ {"payment-events-inventory"} : handled'[r] = handled[r]
  BY <1>2, <1>4, <1>6, EventTypes DEF ConfirmReservation
<1>7. ASSUME NEW p \in Order, CompensateReservation(p)
      PROVE  /\ handled'["order-events-inventory"] = handled["order-events-inventory"] \cup {Cancelled(p)}
             /\ \A r \in Queue \ {"order-events-inventory"} : handled'[r] = handled[r]
  BY <1>2, <1>4, <1>7, EventTypes DEF CompensateReservation
<1>8. ASSUME NEW p \in Order, RefundCommits(p)
      PROVE  /\ handled'["order-events-payment"] = handled["order-events-payment"] \cup {Cancelled(p)}
             /\ \A r \in Queue \ {"order-events-payment"} : handled'[r] = handled[r]
  BY <1>2, <1>4, <1>8, EventTypes DEF RefundCommits
<1>9. ASSUME NEW p \in Order, CancelShipment(p)
      PROVE  \A r \in Queue \ {"order-events-shipping"} : handled'[r] = handled[r]
  BY <1>2, <1>4, <1>9, EventTypes DEF CancelShipment
<1>10. ASSUME Next, \A p \in Order : ~ ArrangeShipment(p) /\ ~ ConfirmReservation(p)
               /\ ~ CompensateReservation(p) /\ ~ RefundCommits(p) /\ ~ CancelShipment(p)
       PROVE  UNCHANGED handled
  BY <1>10 DEF Next, CheckoutStep, Checkout, ReserveAnswered, ReserveRefused, ReserveUnknown,
    PostPayment, PaymentAnswered, PaymentUnknown, Release, DeleteOrder, CheckoutFails,
    RequestStep, ReserveApplied, ReserveNotApplied, PostApplied, PostLost, EventStep,
    RefundPayments, RefundFails, FetchDestination, DestinationMissing, ArrangeFails,
    ApiStep, CancelOrder, UpdateOrder, ShippingApi, UpdatePayment, ExpireReservations, busVars,
    Bus!Emit, Bus!Isolate
<1>11. CASE UNCHANGED vars
  BY <1>3, <1>11 DEF vars, busVars
<1>12. ASSUME NEW p \in Order, ArrangeShipment(p) \/ ConfirmReservation(p)
                \/ CompensateReservation(p) \/ RefundCommits(p) \/ CancelShipment(p)
       PROVE  /\ Settled(o) \in handled'["payment-events-shipping"] =>
                   Settled(o) \in handled["payment-events-shipping"] \/ ArrangeShipment(o)
              /\ Settled(o) \in handled'["payment-events-inventory"] =>
                   Settled(o) \in handled["payment-events-inventory"] \/ ConfirmReservation(o)
              /\ Cancelled(o) \in handled'["order-events-inventory"] =>
                   Cancelled(o) \in handled["order-events-inventory"] \/ CompensateReservation(o)
              /\ Cancelled(o) \in handled'["order-events-payment"] =>
                   Cancelled(o) \in handled["order-events-payment"] \/ RefundCommits(o)
  <2>1. CASE ArrangeShipment(p)
    BY <1>2, <1>5, <2>1
  <2>2. CASE ConfirmReservation(p)
    BY <1>2, <1>6, <2>2
  <2>3. CASE CompensateReservation(p)
    BY <1>2, <1>7, <2>3, EventTypes
  <2>4. CASE RefundCommits(p)
    BY <1>2, <1>8, <2>4, EventTypes
  <2>5. CASE CancelShipment(p)
    BY <1>2, <1>9, <2>5
  <2> QED
    BY <1>12, <2>1, <2>2, <2>3, <2>4, <2>5
<1> QED
  BY <1>3, <1>10, <1>11, <1>12

(* No shipment row is taken away, and an arrangement leaves one.           *)
LEMMA ShipmentsKeptByAll ==
  ASSUME IInv, [Next]_vars, NEW o \in Order
  PROVE  /\ Moved(o) => Moved(o)'
         /\ ArrangeShipment(o) => Moved(o)'
<1>1. S!TypeOK
  BY TypeParts DEF IInv
<1>2. CASE UNCHANGED shipments
  BY <1>1, <1>2 DEF ArrangeShipment, S!CreateShipmentForOrder, Moved, S!TypeOK
<1>3. ArrangeShipment(o) => Moved(o)'
  BY <1>1 DEF ArrangeShipment, S!CreateShipmentForOrder, Moved, S!TypeOK
<1>4. ASSUME NEW p \in Order, ArrangeShipment(p) \/ CancelShipment(p) \/ ShippingApi(p)
      PROVE  Moved(o) => Moved(o)'
  BY <1>1, <1>4, ShipmentSteps DEF ArrangeShipment, CancelShipment, ShippingApi
<1>5. ASSUME Next, \A p \in Order : ~ ArrangeShipment(p) /\ ~ CancelShipment(p) /\ ~ ShippingApi(p)
      PROVE  UNCHANGED shipments
  BY <1>5 DEF Next, CheckoutStep, Checkout, ReserveAnswered, ReserveRefused, ReserveUnknown,
    PostPayment, PaymentAnswered, PaymentUnknown, Release, DeleteOrder, CheckoutFails,
    RequestStep, ReserveApplied, ReserveNotApplied, PostApplied, PostLost, EventStep,
    RefundPayments, RefundCommits, RefundFails, FetchDestination, DestinationMissing, ArrangeFails,
    ConfirmReservation, CompensateReservation, ApiStep, CancelOrder, UpdateOrder,
    UpdatePayment, ExpireReservations, shippingVars, S!FetchDestination, S!ArrangeFails
<1>6. CASE UNCHANGED vars
  BY <1>2, <1>6 DEF vars, shippingVars
<1> QED
  BY <1>2, <1>3, <1>4, <1>5, <1>6

(* The edges a reservation takes.                                          *)
LEMMA ReservationEdges ==
  ASSUME CheckoutTypes, [Next]_vars, NEW o \in Order
  PROVE  reservation'[o] # reservation[o] => <<reservation[o], reservation'[o]>> \in L!Edge
<1>1. CASE UNCHANGED reservation
  BY <1>1
<1>2. ASSUME NEW p \in Order, NEW to \in L!State, L!Move(p, to)
      PROVE  reservation'[o] # reservation[o] => <<reservation[o], reservation'[o]>> \in L!Edge
  BY <1>2 DEF L!Move, CheckoutTypes
<1>3. ASSUME NEW lapsed \in SUBSET Order, L!Expire(lapsed)
      PROVE  reservation'[o] # reservation[o] => <<reservation[o], reservation'[o]>> \in L!Edge
  BY <1>3 DEF L!Expire, L!Edge, CheckoutTypes
<1> QED
  BY <1>1, <1>2, <1>3, ReservationLives DEF L!Next

NoPending(o) ==
  \A id \in PaymentId : HasRow(id) /\ payments[id].key = o => payments[id].status # "pending"

LEMMA PendingSteps ==
  ASSUME IInv, [Next]_vars, NEW o \in Order
  PROVE  /\ NoPending(o) /\ posts[o] = 0 /\ "pending" \notin PaymentPut => NoPending(o)'
         /\ RefundCommits(o) => NoPending(o)'
<1>1. P!TypeOK /\ PayInv
  BY TypeParts DEF IInv
<1>2. CASE UNCHANGED paymentVars /\ ~RefundCommits(o)
  BY <1>2 DEF paymentVars, NoPending, HasRow
<1>3. ASSUME NEW p \in Order, PostApplied(p)
      PROVE  NoPending(o) /\ posts[o] = 0 => NoPending(o)'
  <2>1. CASE p = o
    BY <1>3, <2>1 DEF PostApplied
  <2>2. CASE p # o /\ P!InsertPayment(p)
    <3>1. PICK id \in PaymentId : payments' = [payments EXCEPT ![id] = [key |-> p, status |-> "pending"]]
      BY <2>2 DEF P!InsertPayment
    <3>2. payments'[id].key # o /\ \A i \in PaymentId \ {id} : payments'[i] = payments[i]
      BY <1>1, <2>2, <3>1 DEF P!TypeOK
    <3> QED
      BY <3>2 DEF NoPending, HasRow
  <2>3. CASE P!GetPaymentByIdempotencyKey(p)
    BY <2>3 DEF P!GetPaymentByIdempotencyKey, NoPending, HasRow
  <2> QED
    BY <1>3, <2>1, <2>2, <2>3 DEF PostApplied, P!CreatePayment
<1>4. ASSUME NEW id \in PaymentId, NEW status \in PaymentPut, UpdatePayment(id, status),
             status # "pending"
      PROVE  NoPending(o) => NoPending(o)'
  <2>1. HasRow(id) /\ payments[id] \in P!Row
    BY <1>1, <1>4, HasRowType DEF UpdatePayment, P!UpdatePayment, P!Used, HasRow
  <2>2. payments' = [payments EXCEPT ![id] = With(payments[id], status)]
    BY <1>4 DEF UpdatePayment, P!UpdatePayment, With
  <2>3. /\ payments'[id] = With(payments[id], status)
        /\ \A i \in PaymentId \ {id} : payments'[i] = payments[i]
    BY <1>1, <2>2 DEF P!TypeOK
  <2>4. With(payments[id], status).status = status
    BY <2>1 DEF With, P!Row
  <2> QED
    BY <1>4, <2>3, <2>4 DEF NoPending, HasRow
<1>5. ASSUME NEW p \in Order, RefundCommits(p)
      PROVE  /\ NoPending(o) => NoPending(o)'
             /\ p = o => NoPending(o)'
  <2>1. payments' = [id \in PaymentId |->
              CASE id \in refunding[p] -> With(payments[id], "refunded")
                [] id \in P!PaymentsOf(p) /\ payments[id].status = "pending" ->
                     With(payments[id], "cancelled")
                [] OTHER -> payments[id]]
    BY <1>5 DEF RefundCommits, P!VoidPendingPaymentByOrder, With
  <2>2. /\ \A id \in refunding[p] : HasRow(id)
        /\ \A id \in P!PaymentsOf(p) : HasRow(id)
    BY <1>1, <1>5 DEF RefundCommits, P!VoidPendingPaymentByOrder, PayInv, P!PaymentsOf, P!Used, HasRow
  <2>3. ASSUME NEW id \in PaymentId
        PROVE  \/ /\ HasRow(id)
                  /\ \E s \in {"refunded", "cancelled"} : payments'[id] = With(payments[id], s)
               \/ /\ payments'[id] = payments[id]
                  /\ id \in P!PaymentsOf(p) => payments[id].status # "pending"
    <3> DEFINE voided == id \in P!PaymentsOf(p) /\ payments[id].status = "pending"
    <3>1. payments'[id] =
            CASE id \in refunding[p] -> With(payments[id], "refunded")
              [] voided -> With(payments[id], "cancelled")
              [] OTHER -> payments[id]
      BY <2>1
    <3>2. voided \in BOOLEAN /\ (voided => HasRow(id))
          /\ (~voided => (id \in P!PaymentsOf(p) => payments[id].status # "pending"))
      BY <2>2
    <3> HIDE DEF voided
    <3>3. \/ id \in refunding[p] /\ payments'[id] = With(payments[id], "refunded")
          \/ voided /\ payments'[id] = With(payments[id], "cancelled")
          \/ id \notin refunding[p] /\ ~voided /\ payments'[id] = payments[id]
      BY <3>1, <3>2
    <3> QED
      BY <2>2, <3>2, <3>3
  <2>4. ASSUME NEW id \in PaymentId, NEW s \in {"refunded", "cancelled"}, HasRow(id)
        PROVE  With(payments[id], s).status # "pending"
    <3>1. payments[id] \in P!Row
      BY <1>1, <2>4, HasRowType
    <3> QED
      BY <3>1 DEF With, P!Row
  <2>5. NoPending(o) => NoPending(o)'
    BY <2>3, <2>4 DEF NoPending, HasRow
  <2>6. p = o => NoPending(o)'
    <3>1. P!PaymentsOf(o) = {id \in PaymentId : HasRow(id) /\ payments[id].key = o}
      BY <1>1, PaymentsOfRow
    <3> QED
      BY <2>3, <2>4, <3>1 DEF NoPending, HasRow
  <2> QED
    BY <2>5, <2>6
<1>6. ASSUME NEW p \in Order, RefundPayments(p) \/ RefundFails(p)
      PROVE  NoPending(o) => NoPending(o)'
  BY <1>6 DEF RefundPayments, RefundFails, P!RefundPaymentByOrder, P!RefundFails, NoPending, HasRow
<1>7. ASSUME Next, ~ \E id \in PaymentId, status \in PaymentPut : UpdatePayment(id, status),
             \A p \in Order : ~ PostApplied(p) /\ ~ RefundPayments(p) /\ ~ RefundCommits(p)
                                /\ ~ RefundFails(p)
      PROVE  UNCHANGED paymentVars
  BY <1>7 DEF Next, CheckoutStep, Checkout, ReserveAnswered, ReserveRefused, ReserveUnknown,
    PostPayment, PaymentAnswered, PaymentUnknown, Release, DeleteOrder, CheckoutFails,
    RequestStep, ReserveApplied, ReserveNotApplied, PostLost, EventStep,
    FetchDestination, DestinationMissing, ArrangeShipment, ArrangeFails, CancelShipment,
    ConfirmReservation, CompensateReservation,
    ApiStep, CancelOrder, UpdateOrder, ShippingApi, ExpireReservations
<1>8. UNCHANGED vars => UNCHANGED paymentVars
  BY DEF vars
<1>9. NoPending(o) /\ posts[o] = 0 /\ "pending" \notin PaymentPut => NoPending(o)'
  BY <1>2, <1>3, <1>4, <1>5, <1>6, <1>7, <1>8
<1> QED
  BY <1>5, <1>9

(* Step by step: an ack that has been given stays true.                    *)
Done(o) ==
  /\ Settled(o) \in handled["payment-events-shipping"] => Moved(o)
  /\ Settled(o) \in handled["payment-events-inventory"] =>
       reservation[o] \notin {"none", "pending"}
  /\ ~CancelInFlight /\ Cancelled(o) \in handled["order-events-inventory"] =>
       reservation[o] \notin {"pending", "confirmed"}
  /\ ~CancelInFlight /\ Cancelled(o) \in handled["order-events-payment"]
       /\ "pending" \notin PaymentPut => NoPending(o)

LEMMA DoneStep ==
  ASSUME IInv, [Next]_vars, NEW o \in Order, PaidInv(o), QuietInv(o), Done(o)
  PROVE  Done(o)'
<1>1. /\ CheckoutTypes /\ CheckoutTypes' /\ CheckoutInv(o) /\ CheckoutInv(o)'
      /\ Bus!TypeOK /\ P!TypeOK
  BY NextSaga, TypeParts DEF IInv
<1>2. /\ Cancelled(o) \in handled["order-events-inventory"] => Cancelled(o) \in emitted
      /\ Cancelled(o) \in handled["order-events-payment"] => Cancelled(o) \in emitted
  BY <1>1, Queues DEF Bus!TypeOK
<1>3. /\ Cancelled(o) \in emitted /\ ~CancelInFlight => reserve[o] # "sent" /\ posts[o] = 0
  BY <1>1, SagaAssumption DEF QuietInv, RequestsInFlight, CheckoutTypes
<1>4. reservation'[o] # reservation[o] => <<reservation[o], reservation'[o]>> \in L!Edge
  BY <1>1, ReservationEdges
<1>5. Settled(o) \in handled'["payment-events-shipping"] => Moved(o)'
  BY Acks, ShipmentsKeptByAll DEF Done
<1>6. Settled(o) \in handled'["payment-events-inventory"] =>
        reservation'[o] \notin {"none", "pending"}
  <2>1. CASE Settled(o) \in handled["payment-events-inventory"]
    BY <1>4, <2>1 DEF Done, L!Edge
  <2>2. CASE ConfirmReservation(o)
    <3>1. Settled(o) \in emitted
      BY <2>2 DEF ConfirmReservation, Bus!Handle
    <3>2. reservation[o] # "none"
      BY <1>1, <3>1 DEF PaidInv, CheckoutInv
    <3> QED
      BY <1>1, <2>2, <3>2 DEF ConfirmReservation, L!Move, CheckoutTypes
  <2> QED
    BY <2>1, <2>2, Acks
<1>7. ASSUME ~CancelInFlight, Cancelled(o) \in handled'["order-events-inventory"]
      PROVE  reservation'[o] \notin {"pending", "confirmed"}
  <2>1. CASE Cancelled(o) \in handled["order-events-inventory"]
    <3>1. reservation[o] \notin {"pending", "confirmed"} /\ reserve[o] # "sent"
      BY <1>2, <1>3, <1>7, <2>1 DEF Done
    <3>2. reservation[o] = "none" => reservation'[o] = "none"
      BY <1>1, <3>1, Requests DEF CheckoutInv
    <3> QED
      BY <1>4, <3>1, <3>2 DEF L!Edge
  <2>2. CASE CompensateReservation(o)
    BY <1>1, <2>2 DEF CompensateReservation, ReleaseReservation, L!Move, CheckoutTypes
  <2> QED
    BY <1>7, <2>1, <2>2, Acks
<1>8. ASSUME ~CancelInFlight, Cancelled(o) \in handled'["order-events-payment"],
             "pending" \notin PaymentPut
      PROVE  NoPending(o)'
  <2>1. CASE Cancelled(o) \in handled["order-events-payment"]
    BY <1>2, <1>3, <1>8, <2>1, PendingSteps DEF Done
  <2>2. CASE RefundCommits(o)
    BY <2>2, PendingSteps
  <2> QED
    BY <1>8, <2>1, <2>2, Acks
<1> QED
  BY <1>5, <1>6, <1>7, <1>8 DEF Done

(* What a service has acked is done and stays done: the safety half of the *)
(* convergence of the services, for every number of orders, payments and   *)
(* attempts, in whatever order the events come.                            *)
THEOREM HandledIsDoneHolds == Spec => []HandledIsDone
<1> DEFINE DoneInv == \A o \in Order : PaidInv(o) /\ QuietInv(o) /\ Done(o)
<1>1. Init => DoneInv
  <2> SUFFICES ASSUME Init, NEW o \in Order
               PROVE  PaidInv(o) /\ QuietInv(o) /\ Done(o)
    OBVIOUS
  <2>1. Done(o)
    BY Queues DEF Init, Done, Bus!Init
  <2> QED
    BY <2>1, InitQuiet
<1>2. IInv /\ DoneInv /\ [Next]_vars => DoneInv'
  BY QuietStep, DoneStep
<1>3. IInv /\ DoneInv => HandledIsDone
  <2> SUFFICES ASSUME IInv, NEW o \in Order, Done(o)
               PROVE  /\ Settled(o) \in handled["payment-events-shipping"] => shipments[o] # "none"
                      /\ Settled(o) \in handled["payment-events-inventory"] =>
                           reservation[o] \notin {"none", "pending"}
                      /\ ~CancelInFlight /\ Cancelled(o) \in handled["order-events-inventory"] =>
                           reservation[o] \notin {"pending", "confirmed"}
                      /\ ~CancelInFlight /\ Cancelled(o) \in handled["order-events-payment"]
                           /\ "pending" \notin PaymentPut =>
                           \A id \in P!PaymentsOf(o) : payments[id].status # "pending"
    BY DEF HandledIsDone
  <2>1. P!PaymentsOf(o) = {id \in PaymentId : HasRow(id) /\ payments[id].key = o}
    BY PaymentsOfRow, TypeParts DEF IInv
  <2> QED
    BY <2>1 DEF Done, NoPending, Moved
<1> HIDE DEF DoneInv
<1> QED
  BY <1>1, <1>2, <1>3, Invariant, PTL DEF Spec
=============================================================================
