------------------------ MODULE ReservationLifecycle ------------------------
(***************************************************************************)
(* What the inventory service promises about the reservation of one order  *)
(* as a whole, as the API shows it (Reservation.state in its OpenAPI       *)
(* document): it exists completely or not at all, it gets one outcome, and *)
(* only a confirmed one can be cancelled afterwards.                       *)
(***************************************************************************)
CONSTANT Order

VARIABLE status

State == {"none", "pending", "confirmed", "cancelled", "released", "expired"}

TypeOK == status \in [Order -> State]

Init == status = [o \in Order |-> "none"]

(* The edges of the life cycle.                                            *)
Edge == {<<"none", "pending">>,
         <<"pending", "confirmed">>, <<"pending", "released">>, <<"pending", "expired">>,
         <<"confirmed", "cancelled">>}

(* One statement moves one order, except that the reaper expires every     *)
(* reservation that is due.                                                *)
Move(o, to) ==
  /\ <<status[o], to>> \in Edge
  /\ status' = [status EXCEPT ![o] = to]

Expire(due) ==
  /\ \A o \in due : status[o] = "pending"
  /\ status' = [o \in Order |-> IF o \in due THEN "expired" ELSE status[o]]

Next == (\E o \in Order, to \in State : Move(o, to)) \/ (\E due \in SUBSET Order : Expire(due))

Spec == Init /\ [][Next]_status
=============================================================================
