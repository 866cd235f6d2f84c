------------------------------ MODULE EventBus ------------------------------
(***************************************************************************)
(* What a topic promises its producer and its subscribers: an event that   *)
(* was committed is handled by every queue that was subscribed by then, at *)
(* least once and in any order, or it is put aside in that queue's dead    *)
(* letter queue.                                                           *)
(***************************************************************************)
CONSTANTS Event, Queue

VARIABLES
  emitted,  \* events whose transaction has committed
  due,      \* for each queue, the events committed since it subscribed
  handled,  \* for each queue, the events its consumers have handled
  dead      \* for each queue, the events in its dead letter queue

vars == <<emitted, due, handled, dead>>

TypeOK ==
  /\ emitted \subseteq Event
  /\ due \in [Queue -> SUBSET emitted]
  /\ handled \in [Queue -> SUBSET emitted]
  /\ dead \in [Queue -> SUBSET emitted]

Init ==
  /\ emitted = {}
  /\ due = [q \in Queue |-> {}]
  /\ handled = [q \in Queue |-> {}]
  /\ dead = [q \in Queue |-> {}]

Emit(e, subscribed) ==
  /\ e \notin emitted
  /\ emitted' = emitted \cup {e}
  /\ due' = [q \in Queue |-> IF q \in subscribed THEN due[q] \cup {e} ELSE due[q]]
  /\ UNCHANGED <<handled, dead>>

Handle(q, e) ==
  /\ e \in emitted
  /\ handled' = [handled EXCEPT ![q] = @ \cup {e}]
  /\ UNCHANGED <<emitted, due, dead>>

Isolate(q, e) ==
  /\ e \in emitted
  /\ dead' = [dead EXCEPT ![q] = @ \cup {e}]
  /\ UNCHANGED <<emitted, due, handled>>

Next ==
  \E e \in Event :
    \/ \E subscribed \in SUBSET Queue : Emit(e, subscribed)
    \/ \E q \in Queue : Handle(q, e) \/ Isolate(q, e)

Delivered ==
  \A q \in Queue, e \in Event : e \in due[q] ~> e \in handled[q] \cup dead[q]

Steps == Init /\ [][Next]_vars

Spec == Steps /\ Delivered
=============================================================================
