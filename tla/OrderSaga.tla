------------------------------ MODULE OrderSaga ------------------------------
(***************************************************************************)
(* An order from checkout to shipment or cancellation, across the services *)
(* that keep its parts: the order service orchestrates the checkout with   *)
(* synchronous calls (reserve, create the payment, and their undoing), and *)
(* payment.settled and order.cancelled drive the rest through the broker.  *)
(*                                                                         *)
(* A call is a request that may be applied although its caller has given it*)
(* up, or never.  Payment and Shipping are the modules of those services,  *)
(* the reservation is the life cycle that Inventory implements, and the    *)
(* events travel as EventBus promises, which Delivery implements.          *)
(***************************************************************************)
EXTENDS Integers, FiniteSets

CONSTANTS
  Order,          \* orders; each is one checkout, which issues one key
  PaymentId,      \* payments.id
  PaymentPut,     \* statuses of PUT /payments/{id}
  ShipmentPut,    \* statuses of PUT /shipments/{id}
  OrderPut,       \* statuses of PUT /orders/{id}
  MaxPut,         \* bound on the PUTs that settle a payment
  MaxAttempts,    \* attempts of the retrying client (3)
  CancelInFlight, \* may an order be cancelled while requests of its checkout
                  \* are still on their way?
  NULL

ASSUME SagaAssumption ==
  /\ PaymentId \subseteq Nat
  /\ MaxAttempts \in Nat \ {0} /\ MaxPut \in Nat
  /\ CancelInFlight \in BOOLEAN

VARIABLES
  orders,       \* the status of the order row, "none" before and "deleted" after
  checkout,     \* where the checkout handler stands
  reserve,      \* its request to the inventory service
  attempts,     \* the POSTs /payments it has sent
  posts,        \* those of them still on their way
  reservation,  \* the state of the order's reservation
  payments, outbox, refunding, refunds, answered,  \* Payment
  shipments, fetched,                              \* Shipping
  emitted, due, handled, dead                      \* EventBus

checkoutVars == <<checkout, reserve, attempts, posts>>
paymentVars  == <<payments, outbox, refunding, refunds, answered>>
shippingVars == <<shipments, fetched>>
busVars      == <<emitted, due, handled, dead>>
vars == <<orders, checkoutVars, reservation, paymentVars, shippingVars, busVars>>

Event == [type : {"order.cancelled", "payment.settled"}, order : Order]

Cancelled(o) == [type |-> "order.cancelled", order |-> o]
Settled(o)   == [type |-> "payment.settled", order |-> o]

CancelQueue  == {"order-events-payment", "order-events-shipping", "order-events-inventory"}
SettledQueue == {"payment-events-shipping", "payment-events-inventory"}
Queue        == CancelQueue \cup SettledQueue

P == INSTANCE Payment WITH Key <- Order, OrderOf <- [o \in Order |-> o], PutStatus <- PaymentPut
S == INSTANCE Shipping WITH PutStatus <- ShipmentPut
L == INSTANCE ReservationLifecycle WITH status <- reservation
Bus == INSTANCE EventBus

(* "none" and "deleted" stand for the absence of a row, no text a PUT wrote.*)
ASSUME StatusAssumption ==
  /\ NULL \notin P!Row /\ NULL \notin OrderPut \cup {"confirmed", "cancelled"}
  /\ "none" \notin ShipmentPut /\ OrderPut \cap {"none", "deleted"} = {}

-----------------------------------------------------------------------------
Active  == {"reserving", "refusing", "paying", "releasing", "deleting"}
Ended   == {"accepted", "refused", "abandoned", "failed"}

TypeOK ==
  /\ orders \in [Order -> {"none", "confirmed", "cancelled", "deleted"} \cup OrderPut]
  /\ checkout \in [Order -> {"idle"} \cup Active \cup Ended]
  /\ reserve \in [Order -> {"unsent", "sent", "reserved", "refused", "failed"}]
  /\ attempts \in [Order -> 0..MaxAttempts]
  /\ posts \in [Order -> 0..MaxAttempts]
  /\ L!TypeOK /\ P!TypeOK /\ S!TypeOK /\ Bus!TypeOK

Init ==
  /\ orders = [o \in Order |-> "none"]
  /\ checkout = [o \in Order |-> "idle"]
  /\ reserve = [o \in Order |-> "unsent"]
  /\ attempts = [o \in Order |-> 0]
  /\ posts = [o \in Order |-> 0]
  /\ L!Init /\ P!Init /\ S!Init /\ Bus!Init

-----------------------------------------------------------------------------
(* POST /checkout (the order service's handler).  It moves from one state  *)
(* to the next; what else a step does is conjoined to this.                *)
Goes(o, from, to) ==
  /\ checkout[o] = from
  /\ checkout' = [checkout EXCEPT ![o] = to]

(* The rows of the order are committed and Reserve is called.              *)
Checkout(o) ==
  /\ orders[o] = "none"
  /\ Goes(o, "idle", "reserving")
  /\ orders' = [orders EXCEPT ![o] = "confirmed"]
  /\ reserve' = [reserve EXCEPT ![o] = "sent"]
  /\ UNCHANGED <<attempts, posts, reservation, paymentVars, shippingVars, busVars>>

(* 201: on to the payment.                                                 *)
ReserveAnswered(o) ==
  /\ reserve[o] = "reserved"
  /\ Goes(o, "reserving", "paying")
  /\ UNCHANGED <<orders, reserve, attempts, posts, reservation, paymentVars, shippingVars, busVars>>

(* 409, insufficient stock: there is nothing to release.                   *)
ReserveRefused(o) ==
  /\ reserve[o] = "refused"
  /\ Goes(o, "reserving", "refusing")
  /\ UNCHANGED <<orders, reserve, attempts, posts, reservation, paymentVars, shippingVars, busVars>>

\* BUG: a POST /reservations without an answer is sent again.
ReserveRetried(o) ==
  /\ checkout[o] = "reserving"
  /\ reserve' = [reserve EXCEPT ![o] = "sent"]
  /\ UNCHANGED <<orders, checkout, attempts, posts, reservation, paymentVars, shippingVars, busVars>>

(* No answer, or an error: abandonCheckout.                                *)
ReserveUnknown(o) ==
  /\ Goes(o, "reserving", "releasing")
  /\ UNCHANGED <<orders, reserve, attempts, posts, reservation, paymentVars, shippingVars, busVars>>

\* BUG: the attempts are not counted.
PostPaymentAgain(o) ==
  /\ checkout[o] = "paying"
  /\ attempts' = [attempts EXCEPT ![o] = @ + 1]
  /\ posts' = [posts EXCEPT ![o] = @ + 1]
  /\ UNCHANGED <<orders, checkout, reserve, reservation, paymentVars, shippingVars, busVars>>

(* An attempt of the retrying client, whose earlier ones were not answered.*)
PostPayment(o) ==
  /\ checkout[o] = "paying"
  /\ attempts[o] < MaxAttempts
  /\ attempts' = [attempts EXCEPT ![o] = @ + 1]
  /\ posts' = [posts EXCEPT ![o] = @ + 1]
  /\ UNCHANGED <<orders, checkout, reserve, reservation, paymentVars, shippingVars, busVars>>

(* 201: the checkout is accepted.                                          *)
PaymentAnswered(o) ==
  /\ answered[o] # {}
  /\ Goes(o, "paying", "accepted")
  /\ UNCHANGED <<orders, reserve, attempts, posts, reservation, paymentVars, shippingVars, busVars>>

\* BUG: the order is kept and the payment left to be arranged later.
PaymentDeferred(o) ==
  /\ Goes(o, "paying", "accepted")
  /\ UNCHANGED <<orders, reserve, attempts, posts, reservation, paymentVars, shippingVars, busVars>>

(* No attempt was answered, the breaker is open and none is made, or an    *)
(* answer that is final is not 201: abandonCheckout.                       *)
PaymentUnknown(o) ==
  /\ Goes(o, "paying", "releasing")
  /\ UNCHANGED <<orders, reserve, attempts, posts, reservation, paymentVars, shippingVars, busVars>>

(* The inventory service releases what the order has pending.              *)
ReleaseReservation(o) ==
  IF reservation[o] = "pending" THEN L!Move(o, "released") ELSE UNCHANGED reservation

Release(o) ==
  /\ Goes(o, "releasing", "deleting")
  /\ ReleaseReservation(o)
  /\ UNCHANGED <<orders, reserve, attempts, posts, paymentVars, shippingVars, busVars>>

DeleteOrder(o) ==
  /\ Goes(o, "refusing", "refused") \/ Goes(o, "deleting", "abandoned")
  /\ orders' = [orders EXCEPT ![o] = "deleted"]
  /\ UNCHANGED <<reserve, attempts, posts, reservation, paymentVars, shippingVars, busVars>>

(* A call of the handler fails, is cancelled with the caller's request, or *)
(* the process stops: what it has done stays.  Release and DeleteOrder may *)
(* have been carried out.                                                  *)
CheckoutFails(o) ==
  /\ \E from \in Active : Goes(o, from, "failed")
  /\ \/ UNCHANGED <<orders, reservation>>
     \/ checkout[o] = "releasing" /\ ReleaseReservation(o) /\ UNCHANGED orders
     \/ /\ checkout[o] \in {"refusing", "deleting"}
        /\ orders' = [orders EXCEPT ![o] = "deleted"]
        /\ UNCHANGED reservation
  /\ UNCHANGED <<reserve, attempts, posts, paymentVars, shippingVars, busVars>>

-----------------------------------------------------------------------------
(* The requests on their way.                                              *)

ReserveApplied(o) ==
  /\ reserve[o] = "sent"
  /\ reserve' = [reserve EXCEPT ![o] = "reserved"]
  /\ L!Move(o, "pending")
  /\ UNCHANGED <<orders, checkout, attempts, posts, paymentVars, shippingVars, busVars>>

(* Refused for lack of stock, rolled back on an error, or lost.            *)
ReserveNotApplied(o) ==
  /\ reserve[o] = "sent"
  /\ \E outcome \in {"refused", "failed"} : reserve' = [reserve EXCEPT ![o] = outcome]
  /\ UNCHANGED <<orders, checkout, attempts, posts, reservation, paymentVars, shippingVars, busVars>>

PostApplied(o) ==
  /\ posts[o] > 0
  /\ posts' = [posts EXCEPT ![o] = @ - 1]
  /\ P!CreatePayment(o)
  /\ UNCHANGED <<orders, checkout, reserve, attempts, reservation, shippingVars, busVars>>

PostLost(o) ==
  /\ posts[o] > 0
  /\ posts' = [posts EXCEPT ![o] = @ - 1]
  /\ UNCHANGED <<orders, checkout, reserve, attempts, reservation, paymentVars, shippingVars, busVars>>

-----------------------------------------------------------------------------
(* The other requests to the order service.                                *)

RequestsInFlight(o) == checkout[o] \in Active \/ posts[o] > 0 \/ reserve[o] = "sent"

\* BUG: the status is written whether or not the row is still there.
CancelOrderUpserting(o) ==
  /\ orders[o] \notin {"none", "shipped", "cancelled"}
  /\ CancelInFlight \/ ~RequestsInFlight(o)
  /\ orders' = [orders EXCEPT ![o] = "cancelled"]
  /\ IF Cancelled(o) \in emitted THEN UNCHANGED busVars ELSE Bus!Emit(Cancelled(o), CancelQueue)
  /\ UNCHANGED <<checkoutVars, reservation, paymentVars, shippingVars>>

(* POST /orders/{id}/cancel, one transaction.  On a shipped order it is    *)
(* refused, on a cancelled one it changes nothing.  A second event of the  *)
(* order is a duplicate of the first.                                      *)
CancelOrder(o) ==
  /\ orders[o] \notin {"none", "deleted", "shipped", "cancelled"}
  /\ CancelInFlight \/ ~RequestsInFlight(o)
  /\ orders' = [orders EXCEPT ![o] = "cancelled"]
  /\ IF Cancelled(o) \in emitted THEN UNCHANGED busVars ELSE Bus!Emit(Cancelled(o), CancelQueue)
  /\ UNCHANGED <<checkoutVars, reservation, paymentVars, shippingVars>>

(* PUT /orders/{id}: any status over any other.                            *)
UpdateOrder(o, status) ==
  /\ orders[o] \notin {"none", "deleted"}
  /\ orders' = [orders EXCEPT ![o] = status]
  /\ UNCHANGED <<checkoutVars, reservation, paymentVars, shippingVars, busVars>>

-----------------------------------------------------------------------------
(* The payment service.  Its PUTs are the notifications of the provider; a *)
(* second payment.settled of the same order is a duplicate of the first.   *)

UpdatePayment(id, status) ==
  /\ P!UpdatePayment(id, status)
  /\ IF status \in P!SettledStatus /\ Settled(payments[id].key) \notin emitted
       THEN Bus!Emit(Settled(payments[id].key), SettledQueue)
       ELSE UNCHANGED busVars
  /\ UNCHANGED <<orders, checkoutVars, reservation, shippingVars>>

RefundPayments(o) ==
  /\ Cancelled(o) \in emitted
  /\ P!RefundPaymentByOrder(o)
  /\ UNCHANGED <<orders, checkoutVars, reservation, shippingVars, busVars>>

RefundCommits(o) ==
  /\ P!VoidPendingPaymentByOrder(o)
  /\ Bus!Handle("order-events-payment", Cancelled(o))
  /\ UNCHANGED <<orders, checkoutVars, reservation, shippingVars>>

RefundFails(o) ==
  /\ P!RefundFails(o)
  /\ UNCHANGED <<orders, checkoutVars, reservation, shippingVars, busVars>>

-----------------------------------------------------------------------------
(* The shipping service.                                                   *)

OrderExists(o) == orders[o] \notin {"none", "deleted"}

FetchDestination(o) ==
  /\ Settled(o) \in emitted
  /\ S!FetchDestination(o, OrderExists(o))
  /\ UNCHANGED <<orders, checkoutVars, reservation, paymentVars, busVars>>

(* GET /orders/{id} answers 404 every time until the message is dead.      *)
DestinationMissing(o) ==
  /\ Settled(o) \in emitted
  /\ orders[o] = "deleted"
  /\ Bus!Isolate("payment-events-shipping", Settled(o))
  /\ UNCHANGED <<orders, checkoutVars, reservation, paymentVars, shippingVars>>

ArrangeShipment(o) ==
  /\ S!CreateShipmentForOrder(o)
  /\ Bus!Handle("payment-events-shipping", Settled(o))
  /\ UNCHANGED <<orders, checkoutVars, reservation, paymentVars>>

\* BUG: the message is acked although the shipment was not arranged.
ArrangeFailsAndAcks(o) ==
  /\ S!ArrangeFails(o)
  /\ Bus!Handle("payment-events-shipping", Settled(o))
  /\ UNCHANGED <<orders, checkoutVars, reservation, paymentVars>>

ArrangeFails(o) ==
  /\ S!ArrangeFails(o)
  /\ UNCHANGED <<orders, checkoutVars, reservation, paymentVars, busVars>>

CancelShipment(o) ==
  /\ S!CancelShipmentForOrder(o)
  /\ Bus!Handle("order-events-shipping", Cancelled(o))
  /\ UNCHANGED <<orders, checkoutVars, reservation, paymentVars>>

(* An operator arranges a shipment by hand, or reports its progress.       *)
ShippingApi(o) ==
  /\ \/ S!CreateShipment(o, "preparing")
     \/ \E status \in ShipmentPut : S!UpdateShipment(o, status)
  /\ UNCHANGED <<orders, checkoutVars, reservation, paymentVars, busVars>>

-----------------------------------------------------------------------------
(* The inventory service.                                                  *)

ConfirmReservation(o) ==
  /\ IF reservation[o] = "pending" THEN L!Move(o, "confirmed") ELSE UNCHANGED reservation
  /\ Bus!Handle("payment-events-inventory", Settled(o))
  /\ UNCHANGED <<orders, checkoutVars, paymentVars, shippingVars>>

\* BUG: a confirmed reservation is not given back.
ReleaseOnly(o) ==
  /\ ReleaseReservation(o)
  /\ Bus!Handle("order-events-inventory", Cancelled(o))
  /\ UNCHANGED <<orders, checkoutVars, paymentVars, shippingVars>>

CompensateReservation(o) ==
  /\ IF reservation[o] = "confirmed" THEN L!Move(o, "cancelled") ELSE ReleaseReservation(o)
  /\ Bus!Handle("order-events-inventory", Cancelled(o))
  /\ UNCHANGED <<orders, checkoutVars, paymentVars, shippingVars>>

ExpireReservations ==
  /\ \E lapsed \in SUBSET {o \in Order : reservation[o] = "pending"} : L!Expire(lapsed)
  /\ UNCHANGED <<orders, checkoutVars, paymentVars, shippingVars, busVars>>

-----------------------------------------------------------------------------
CheckoutStep(o) ==
  \/ Checkout(o) \/ ReserveAnswered(o) \/ ReserveRefused(o) \/ ReserveUnknown(o)
  \/ PostPayment(o) \/ PaymentAnswered(o) \/ PaymentUnknown(o)
  \/ Release(o) \/ DeleteOrder(o) \/ CheckoutFails(o)

RequestStep(o) ==
  \/ ReserveApplied(o) \/ ReserveNotApplied(o)
  \/ PostApplied(o) \/ PostLost(o)

EventStep(o) ==
  \/ RefundPayments(o) \/ RefundCommits(o) \/ RefundFails(o)
  \/ FetchDestination(o) \/ DestinationMissing(o) \/ ArrangeShipment(o) \/ ArrangeFails(o)
  \/ CancelShipment(o)
  \/ ConfirmReservation(o) \/ CompensateReservation(o)

ApiStep(o) ==
  \/ CancelOrder(o)
  \/ \E status \in OrderPut : UpdateOrder(o, status)
  \/ ShippingApi(o)

Next ==
  \/ \E o \in Order : CheckoutStep(o) \/ RequestStep(o) \/ EventStep(o) \/ ApiStep(o)
  \/ \E id \in PaymentId, status \in PaymentPut : UpdatePayment(id, status)
  \/ ExpireReservations

Spec == Init /\ [][Next]_vars

(* An event is handled once for certain (EventBus), later deliveries may   *)
(* come or not.  A handler whose calls fail now and then gets through: the *)
(* redelivery outlasts a transient fault (sqsx.go, maxReceiveCount).  The  *)
(* reaper of the inventory service runs every minute.                      *)
Unhandled(q, e) == e \in due[q] /\ e \notin handled[q]

Fairness ==
  /\ WF_vars(ExpireReservations)
  /\ \A o \in Order :
    /\ WF_vars(RequestStep(o))
    /\ WF_vars(Unhandled("order-events-payment", Cancelled(o)) /\ RefundPayments(o))
    /\ SF_vars(Unhandled("order-events-payment", Cancelled(o)) /\ RefundCommits(o))
    /\ WF_vars(Unhandled("order-events-shipping", Cancelled(o)) /\ CancelShipment(o))
    /\ WF_vars(Unhandled("order-events-inventory", Cancelled(o)) /\ CompensateReservation(o))
    /\ WF_vars(Unhandled("payment-events-inventory", Settled(o)) /\ ConfirmReservation(o))
    /\ WF_vars(Unhandled("payment-events-shipping", Settled(o)) /\ FetchDestination(o))
    /\ SF_vars(Unhandled("payment-events-shipping", Settled(o)) /\ ArrangeShipment(o))
    /\ WF_vars(Unhandled("payment-events-shipping", Settled(o)) /\ DestinationMissing(o))

FairSpec == Spec /\ Fairness

-----------------------------------------------------------------------------
(* A checkout is answered with 201 only when the reservation was made and  *)
(* the payment exists, whatever was lost or repeated on the way            *)
(* ("未入金で注文を通さない", ADR 202606261216).                           *)
AcceptedIsArranged ==
  \A o \in Order : checkout[o] = "accepted" =>
    reservation[o] # "none" /\ \E id \in P!PaymentsOf(o) : answered[o] = {id}

(* A checkout refused for lack of stock leaves no order, no payment and no *)
(* reservation, nor will a late request make one ("在庫不足時に注文・決済を*)
(* 残さない", ADR 202606262000).                                           *)
RefusedLeavesNothing ==
  \A o \in Order : checkout[o] = "refused" =>
    /\ orders[o] = "deleted"
    /\ reservation[o] = "none" /\ reserve[o] # "sent"
    /\ P!PaymentsOf(o) = {} /\ posts[o] = 0

(* What a service has acked is done, and nothing takes it back: no late    *)
(* confirmation or release, no event that is delivered again, no request of*)
(* the checkout.  Of a cancellation this needs that it did not overtake the*)
(* requests of its checkout; a PUT that makes a payment pending is the     *)
(* operator's.                                                             *)
HandledIsDone ==
  \A o \in Order :
    /\ Settled(o) \in handled["payment-events-shipping"] => shipments[o] # "none"
    /\ Settled(o) \in handled["payment-events-inventory"] =>
         reservation[o] \notin {"none", "pending"}
    /\ ~CancelInFlight /\ Cancelled(o) \in handled["order-events-inventory"] =>
         reservation[o] \notin {"pending", "confirmed"}
    /\ ~CancelInFlight /\ Cancelled(o) \in handled["order-events-payment"]
         /\ "pending" \notin PaymentPut =>
         \A id \in P!PaymentsOf(o) : payments[id].status # "pending"

(* In whichever order the two events come, and however often (ADR          *)
(* 202608160810): once shipping has handled a cancellation, only an        *)
(* operator's PUT can set a shipment of the order to its preparation.      *)
CancelledButPrepared(o) ==
  Cancelled(o) \in handled["order-events-shipping"] /\ shipments[o] = "preparing"

CancelledIsNotPrepared ==
  [][\A o \in Order : CancelledButPrepared(o)' =>
       CancelledButPrepared(o) \/ S!UpdateShipment(o, "preparing")]_vars

(* Seen from outside, an order goes through the life OrderLifecycle allows *)
(* it, whatever is lost or fails on the way of its checkout: one that was  *)
(* answered with 201 stays, one that was taken back does not return.       *)
Status == OrderPut \cup {"confirmed", "cancelled"}

Life == INSTANCE OrderLifecycle WITH
  status <- [o \in Order |-> IF orders[o] \in {"none", "deleted"} THEN NULL ELSE orders[o]],
  gone <- {o \in Order : orders[o] = "deleted"},
  accepted <- {o \in Order : checkout[o] = "accepted"},
  told <- {o \in Order : Cancelled(o) \in emitted}

ImplementsLifecycle == Life!Spec

(* The services converge on a cancellation, however the two kinds of events*)
(* and the provider's notifications interleave: its stock is given back for*)
(* good, no payment of it stays pending and no shipment is prepared        *)
(* ("順不同でも収束させる", ADR 202608160800).                             *)
Undone(o) ==
  /\ reservation[o] \notin {"pending", "confirmed"}
  /\ \A id \in P!PaymentsOf(o) : payments[id].status # "pending"
  /\ shipments[o] # "preparing"

CancelConverges ==
  \A o \in Order : Cancelled(o) \in emitted ~> []Undone(o)

(* The money of a payment that is settled when its order is cancelled, and *)
(* before the compensation begins, is paid back.                           *)
PaidIsRefunded ==
  \A id \in PaymentId :
    (id \in P!Used /\ P!IsSettled(id) /\ refunding[payments[id].key] = NULL
       /\ Unhandled("order-events-payment", Cancelled(payments[id].key)))
      ~> refunds[id] > 0

(* A settled payment leads to a shipment (perhaps a cancelled one), except *)
(* of an order whose checkout was undone.                                  *)
PaidIsShipped ==
  \A o \in Order : Settled(o) \in emitted ~> shipments[o] # "none" \/ orders[o] = "deleted"

(* Undone twice over: once the checkout has undone itself                  *)
(* ("確定前に失敗した checkout の巻き戻し", abandonCheckout) and a         *)
(* cancellation was accepted too ("順不同でも収束させる", ADR              *)
(* 202608160800), nothing of the order can be paid any more.  Whoever      *)
(* violates this violates what is said of either alone.                    *)
TwiceUndoneIsUndone ==
  \A o \in Order :
    checkout[o] = "abandoned" /\ Cancelled(o) \in emitted ~> []Undone(o)
=============================================================================
