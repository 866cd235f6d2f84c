------------------------------ MODULE Shipping ------------------------------
(***************************************************************************)
(* The shipping service: one row per order, written by the consumer of     *)
(* payment.settled (which first asks the order service for the             *)
(* destination), the consumer of order.cancelled and the HTTP API.         *)
(***************************************************************************)
CONSTANTS
  Order,      \* orders
  PutStatus   \* the statuses the API may write

VARIABLES
  shipments,  \* the status of each order's shipment, or "none" without a row
  fetched     \* the orders whose destination the consumer of payment.settled
              \* has fetched, and whose shipment it has not yet inserted

vars == <<shipments, fetched>>

Status == {"none", "preparing", "cancelled"} \cup PutStatus

TypeOK ==
  /\ shipments \in [Order -> Status]
  /\ fetched \subseteq Order

Init ==
  /\ shipments = [o \in Order |-> "none"]
  /\ fetched = {}

-----------------------------------------------------------------------------
(* payment.settled: FetchDestination, while the order exists.              *)
FetchDestination(o, exists) ==
  /\ exists
  /\ fetched' = fetched \cup {o}
  /\ UNCHANGED shipments

(* CreateShipmentForOrder: ON CONFLICT DO NOTHING, and the ack.            *)
CreateShipmentForOrder(o) ==
  /\ o \in fetched
  /\ fetched' = fetched \ {o}
  /\ shipments' = [shipments EXCEPT ![o] = IF @ = "none" THEN "preparing" ELSE @]

(* An error or a stop between the two.                                     *)
ArrangeFails(o) ==
  /\ o \in fetched
  /\ fetched' = fetched \ {o}
  /\ UNCHANGED shipments

\* BUG: an UPDATE, which has no row to change when the cancellation is first.
CancelExistingShipment(o) ==
  /\ shipments' = [shipments EXCEPT ![o] = IF @ = "preparing" THEN "cancelled" ELSE @]
  /\ UNCHANGED fetched

(* order.cancelled: CancelShipmentForOrder, which inserts the row when the *)
(* shipment has not been arranged yet.                                     *)
CancelShipmentForOrder(o) ==
  /\ shipments' = [shipments EXCEPT ![o] = IF @ \in {"none", "preparing"} THEN "cancelled" ELSE @]
  /\ UNCHANGED fetched

-----------------------------------------------------------------------------
(* The HTTP API.                                                           *)

(* POST /shipments: the UNIQUE order_id refuses a second row.              *)
CreateShipment(o, status) ==
  /\ shipments[o] = "none"
  /\ shipments' = [shipments EXCEPT ![o] = status]
  /\ UNCHANGED fetched

(* PUT /shipments/{id}: any status over any other.                         *)
UpdateShipment(o, status) ==
  /\ shipments[o] # "none"
  /\ shipments' = [shipments EXCEPT ![o] = status]
  /\ UNCHANGED fetched
=============================================================================
