------------------------------ MODULE Delivery ------------------------------
(***************************************************************************)
(* How a committed domain event reaches its consumers: the producer writes *)
(* it to the outbox table in the transaction of the state change, the      *)
(* relay (every replica of the producer runs one) publishes unpublished    *)
(* rows to the topic, the broker puts a copy in the queue of each          *)
(* subscriber, and the consume loops handle and ack the copies.            *)
(*                                                                         *)
(* The relay's replicas share the table and nothing else, a copy becomes   *)
(* visible again when its visibility timeout passes before the ack, and    *)
(* any process may stop between two steps.                                 *)
(***************************************************************************)
EXTENDS Integers, FiniteSets

CONSTANTS
  MaxRow,      \* outbox ids are 1..MaxRow
  Relay,       \* the replicas of the producer, each with a relay
  Queue,       \* one per subscribing service
  Consumer,    \* the replicas of the consumers
  QueueOf,     \* the queue each consumer receives from
  Supervised,  \* the consumers that are a process of their own (the workers):
               \* it exits with the consume loop, and is started again
  Batch,       \* rows the relay fetches at a time (64)
  ReceiveMax,  \* messages a consumer receives at a time (10)
  MaxReceive,  \* receptions before a message goes to the dead letter queue (10)
  MaxSend,     \* bound on the times a row is published: each relay may have
               \* fetched it before it was marked, and may again after a fault
  MaxFaults    \* bound on failed calls and process stops

ASSUME SizesAssumption ==
  /\ MaxRow \in Nat /\ MaxSend \in Nat /\ MaxFaults \in Nat
  /\ Batch \in Nat \ {0} /\ ReceiveMax \in Nat \ {0} /\ MaxReceive \in Nat \ {0}
ASSUME QueueOfAssumption == QueueOf \in [Consumer -> Queue] /\ Supervised \subseteq Consumer

Row == 1..MaxRow

(* What a consumer receives: a published row, and the receipt handle.      *)
Message  == [row : Row, send : 1..MaxSend]
Received == [message : Message, handle : 1..MaxReceive]

VARIABLES
  row,        \* each outbox row: its id is taken when its transaction inserts it
  sends,      \* times a row was published
  fetched,    \* the rest of the batch each relay works on, in the order of ids
  sent,       \* has the relay published the first of them
  subscribed, \* the queues that exist and receive from the topic
  copy,       \* each queue's copy of each message
  receives,   \* times that copy was received
  loop,       \* is the consumer starting, polling, or has its loop ended
  batch,      \* what it has received and is not through with
  acking,     \* the one of them it has handled, or none
  faults,     \* faults so far
  due,        \* rows committed since the queue was subscribed
  handled,    \* rows a consumer of the queue has handled
  dead        \* rows in its dead letter queue

relayVars  == <<fetched, sent>>
brokerVars == <<subscribed, copy, receives, dead>>
loopVars   == <<loop, batch, acking, handled>>
vars == <<row, sends, relayVars, brokerVars, loopVars, faults, due>>


TypeOK ==
  /\ row \in [Row -> {"open", "pending", "published", "gone"}]
  /\ sends \in [Row -> 0..MaxSend]
  /\ fetched \in [Relay -> SUBSET Row]
  /\ sent \in [Relay -> BOOLEAN]
  /\ subscribed \subseteq Queue
  /\ copy \in [Queue -> [Message -> {"none", "visible", "inflight", "deleted", "dead"}]]
  /\ receives \in [Queue -> [Message -> 0..MaxReceive]]
  /\ loop \in [Consumer -> {"starting", "polling", "ended"}]
  /\ batch \in [Consumer -> SUBSET Received]
  /\ acking \in [Consumer -> SUBSET Received]
  /\ faults \in 0..MaxFaults
  /\ due \in [Queue -> SUBSET Row]
  /\ handled \in [Queue -> SUBSET Row]
  /\ dead \in [Queue -> SUBSET Row]

Init ==
  /\ row = [i \in Row |-> "open"]
  /\ sends = [i \in Row |-> 0]
  /\ fetched = [r \in Relay |-> {}]
  /\ sent = [r \in Relay |-> FALSE]
  /\ subscribed = {}
  /\ copy = [q \in Queue |-> [m \in Message |-> "none"]]
  /\ receives = [q \in Queue |-> [m \in Message |-> 0]]
  /\ loop = [c \in Consumer |-> "starting"]
  /\ batch = [c \in Consumer |-> {}]
  /\ acking = [c \in Consumer |-> {}]
  /\ faults = 0
  /\ due = [q \in Queue |-> {}]
  /\ handled = [q \in Queue |-> {}]
  /\ dead = [q \in Queue |-> {}]

Fault == faults < MaxFaults /\ faults' = faults + 1

-----------------------------------------------------------------------------
(* The producer's transaction, which changes the aggregate and inserts the *)
(* row: ids are taken in the order of the inserts, commits come in any.    *)
Commit(i) ==
  /\ row[i] = "open"
  /\ row' = [row EXCEPT ![i] = "pending"]
  /\ due' = [q \in Queue |-> IF q \in subscribed THEN due[q] \cup {i} ELSE due[q]]
  /\ UNCHANGED <<sends, relayVars, brokerVars, loopVars, faults>>

Rollback(i) ==
  /\ row[i] = "open"
  /\ row' = [row EXCEPT ![i] = "gone"]
  /\ UNCHANGED <<sends, relayVars, brokerVars, loopVars, faults, due>>

-----------------------------------------------------------------------------
(* The relay (Relay.drain).                                                *)

Unpublished == {i \in Row : row[i] = "pending"}

(* The first rows of a set, at most n of them.                             *)
FirstRows(rows, n) == {i \in rows : Cardinality({j \in rows : j < i}) < n}

Fetch(r) ==
  /\ fetched[r] = {}
  /\ Unpublished # {}
  /\ fetched' = [fetched EXCEPT ![r] = FirstRows(Unpublished, Batch)]
  /\ UNCHANGED <<row, sends, sent, brokerVars, loopVars, faults, due>>

(* sns.Publish: a copy for each subscribed queue.                          *)
Publish(r) ==
  /\ ~sent[r]
  /\ \E i \in FirstRows(fetched[r], 1) :
       /\ sends[i] < MaxSend
       /\ sends' = [sends EXCEPT ![i] = @ + 1]
       /\ copy' = [q \in Queue |->
            IF q \in subscribed
              THEN [copy[q] EXCEPT ![[row |-> i, send |-> sends[i] + 1]] = "visible"]
              ELSE copy[q]]
  /\ sent' = [sent EXCEPT ![r] = TRUE]
  /\ UNCHANGED <<row, fetched, subscribed, receives, dead, loopVars, faults, due>>

\* BUG: rows are marked before they are published.
MarkUnsent(r) ==
  /\ \E i \in FirstRows(fetched[r], 1) :
       /\ row' = [row EXCEPT ![i] = "published"]
       /\ fetched' = [fetched EXCEPT ![r] = @ \ {i}]
  /\ sent' = [sent EXCEPT ![r] = FALSE]
  /\ UNCHANGED <<sends, brokerVars, loopVars, faults, due>>

Mark(r) ==
  /\ sent[r]
  /\ \E i \in FirstRows(fetched[r], 1) :
       /\ row' = [row EXCEPT ![i] = "published"]
       /\ fetched' = [fetched EXCEPT ![r] = @ \ {i}]
  /\ sent' = [sent EXCEPT ![r] = FALSE]
  /\ UNCHANGED <<sends, brokerVars, loopVars, faults, due>>

(* A call fails and drain returns, or the process stops: the rest of the   *)
(* batch is forgotten.  A failed publish may have reached the topic.       *)
StopDraining(r) ==
  /\ fetched[r] # {}
  /\ Fault
  /\ fetched' = [fetched EXCEPT ![r] = {}]
  /\ sent' = [sent EXCEPT ![r] = FALSE]
  /\ UNCHANGED <<row, sends, brokerVars, loopVars, due>>

-----------------------------------------------------------------------------
(* The broker.                                                             *)

(* The visibility timeout of a received copy passes.                       *)
Timeout(q, m) ==
  /\ copy[q][m] = "inflight"
  /\ copy' = [copy EXCEPT ![q][m] = "visible"]
  /\ UNCHANGED <<row, sends, relayVars, subscribed, receives, dead, loopVars, faults, due>>

(* The redrive policy: instead of one reception too many.                  *)
Redrive(q, m) ==
  /\ copy[q][m] = "visible"
  /\ receives[q][m] = MaxReceive
  /\ copy' = [copy EXCEPT ![q][m] = "dead"]
  /\ dead' = [dead EXCEPT ![q] = @ \cup {m.row}]
  /\ UNCHANGED <<row, sends, relayVars, subscribed, receives, loopVars, faults, due>>

-----------------------------------------------------------------------------
(* The consume loop (messaging.Consume).                                   *)

Subscribe(c) ==
  /\ loop[c] # "polling"
  /\ subscribed' = subscribed \cup {QueueOf[c]}
  /\ loop' = [loop EXCEPT ![c] = "polling"]
  /\ UNCHANGED <<row, sends, relayVars, copy, receives, dead, batch, acking, handled, faults, due>>

\* BUG: nothing counts the receptions.
ReceivableForever(q) == {m \in Message : copy[q][m] = "visible"}

Receivable(q) == {m \in Message : copy[q][m] = "visible" /\ receives[q][m] < MaxReceive}

(* Up to ReceiveMax messages, which the loop then takes one after another. *)
Receive(c) ==
  LET q == QueueOf[c] IN
  /\ loop[c] = "polling" /\ batch[c] = {}
  /\ \E ms \in SUBSET Receivable(q) :
       /\ ms # {} /\ Cardinality(ms) <= ReceiveMax
       /\ copy' = [copy EXCEPT ![q] = [m \in Message |-> IF m \in ms THEN "inflight" ELSE @[m]]]
       /\ receives' = [receives EXCEPT ![q] = [m \in Message |-> IF m \in ms THEN @[m] + 1 ELSE @[m]]]
       /\ batch' = [batch EXCEPT ![c] = {[message |-> m, handle |-> receives[q][m] + 1] : m \in ms}]
  /\ UNCHANGED <<row, sends, relayVars, subscribed, dead, loop, acking, handled, faults, due>>

HandleEvent(c) ==
  /\ acking[c] = {}
  /\ \E m \in batch[c] :
       /\ handled' = [handled EXCEPT ![QueueOf[c]] = @ \cup {m.message.row}]
       /\ acking' = [acking EXCEPT ![c] = {m}]
  /\ UNCHANGED <<row, sends, relayVars, brokerVars, loop, batch, faults, due>>

\* BUG: the error is logged and the message acked.
HandleFailsAndAcks(c) ==
  /\ acking[c] = {}
  /\ Fault
  /\ \E m \in batch[c] : acking' = [acking EXCEPT ![c] = {m}]
  /\ UNCHANGED <<row, sends, relayVars, brokerVars, loop, batch, handled, due>>

(* process returns an error: no ack, on to the next message.               *)
HandleFails(c) ==
  /\ acking[c] = {}
  /\ Fault
  /\ \E m \in batch[c] : batch' = [batch EXCEPT ![c] = @ \ {m}]
  /\ UNCHANGED <<row, sends, relayVars, brokerVars, loop, acking, handled, due>>

(* DeleteMessage: only the handle of the last reception deletes the copy.  *)
Ack(c) ==
  LET q == QueueOf[c]
      deletes(m) == \E a \in acking[c] :
        a.message = m /\ a.handle = receives[q][m] /\ copy[q][m] # "dead"
  IN
  /\ acking[c] # {}
  /\ copy' = [copy EXCEPT ![q] = [m \in Message |-> IF deletes(m) THEN "deleted" ELSE @[m]]]
  /\ batch' = [batch EXCEPT ![c] = @ \ acking[c]]
  /\ acking' = [acking EXCEPT ![c] = {}]
  /\ UNCHANGED <<row, sends, relayVars, subscribed, receives, dead, loop, handled, faults, due>>

AckFails(c) ==
  /\ acking[c] # {}
  /\ Fault
  /\ batch' = [batch EXCEPT ![c] = @ \ acking[c]]
  /\ acking' = [acking EXCEPT ![c] = {}]
  /\ UNCHANGED <<row, sends, relayVars, brokerVars, loop, handled, due>>

(* Subscribe or Receive returns an error and the loop with it, or the      *)
(* process stops.                                                          *)
Exit(c) ==
  /\ loop[c] # "ended"
  /\ Fault
  /\ loop' = [loop EXCEPT ![c] = "ended"]
  /\ batch' = [batch EXCEPT ![c] = {}]
  /\ acking' = [acking EXCEPT ![c] = {}]
  /\ UNCHANGED <<row, sends, relayVars, brokerVars, handled, due>>

-----------------------------------------------------------------------------
RelayStep(r)    == Fetch(r) \/ Publish(r) \/ Mark(r)
BrokerStep(q)   == \E m \in Message : Timeout(q, m) \/ Redrive(q, m)
ConsumerStep(c) == Receive(c) \/ HandleEvent(c) \/ Ack(c)

Next ==
  \/ \E i \in Row : Commit(i) \/ Rollback(i)
  \/ \E r \in Relay : RelayStep(r) \/ StopDraining(r)
  \/ \E q \in Queue : BrokerStep(q)
  \/ \E c \in Consumer : Subscribe(c) \/ ConsumerStep(c) \/ HandleFails(c) \/ AckFails(c) \/ Exit(c)

Spec == Init /\ [][Next]_vars

Fairness ==
  /\ \A r \in Relay : WF_vars(RelayStep(r))
  /\ \A q \in Queue, m \in Message : WF_vars(Timeout(q, m) \/ Redrive(q, m))
  /\ \A c \in Consumer :
       /\ WF_vars(ConsumerStep(c))
       /\ WF_vars(loop[c] = "starting" /\ Subscribe(c))
  /\ \A c \in Supervised : WF_vars(Subscribe(c))

FairSpec == Spec /\ Fairness

-----------------------------------------------------------------------------
Emitted == {i \in Row : row[i] \in {"pending", "published"}}

Bus == INSTANCE EventBus WITH Event <- Row, emitted <- Emitted

(* The outbox, the relays, the broker and the consume loops together keep  *)
(* the promise of the topic.                                               *)
ImplementsBus == Bus!Spec

(* An event a queue is owed is handled by a consumer of the queue or ends  *)
(* in its dead letter queue: "補償は order.cancelled を購読する            *)
(* payment/shipping/inventory が各自で行う" (order_write.go).              *)
EveryEventHandled == Bus!Delivered

(* An event on its way: still to be published, or in the queue.            *)
OnItsWay(q, i) ==
  row[i] = "pending" \/ \E m \in Message : m.row = i /\ copy[q][m] \in {"visible", "inflight"}

(* No event is lost between two steps of the relay, the broker and the     *)
(* consumer, whichever of them stops: a due event that was not handled is  *)
(* on its way or in the dead letter queue ("commit 済みは必ず送出",        *)
(* outbox.go).                                                             *)
NothingLost ==
  \A q \in Queue : \A i \in due[q] : i \in handled[q] \cup dead[q] \/ OnItsWay(q, i)
=============================================================================
