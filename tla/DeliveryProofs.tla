--------------------------- MODULE DeliveryProofs ---------------------------
(***************************************************************************)
(* Theorems about Delivery, for any number of rows, replicas and queues,   *)
(* and without any bound on the faults but MaxFaults itself.               *)
(***************************************************************************)
EXTENDS Delivery, TLAPS, FiniteSetTheorems

USE SizesAssumption, QueueOfAssumption

-----------------------------------------------------------------------------
(* Types.                                                                  *)

LEMMA InitTypes == Init => TypeOK
BY DEF Init, TypeOK, Row

(* Every step of the producer, the relays, the broker and the consumers    *)
(* keeps the types.                                                        *)
LEMMA NextTypes == TypeOK /\ [Next]_vars => TypeOK'
<1> SUFFICES ASSUME TypeOK, [Next]_vars PROVE TypeOK'
  OBVIOUS
<1>1. ASSUME NEW i \in Row, Commit(i) PROVE TypeOK'
  BY <1>1 DEF Commit, TypeOK, relayVars, brokerVars, loopVars
<1>2. ASSUME NEW i \in Row, Rollback(i) PROVE TypeOK'
  BY <1>2 DEF Rollback, TypeOK, relayVars, brokerVars, loopVars
<1>3. ASSUME NEW r \in Relay, Fetch(r) PROVE TypeOK'
  BY <1>3 DEF Fetch, FirstRows, Unpublished, TypeOK, relayVars, brokerVars, loopVars
<1>4. ASSUME NEW r \in Relay, Publish(r) PROVE TypeOK'
  <2>1. PICK i \in FirstRows(fetched[r], 1) :
          /\ sends[i] < MaxSend
          /\ sends' = [sends EXCEPT ![i] = @ + 1]
          /\ copy' = [q \in Queue |->
               IF q \in subscribed
                 THEN [copy[q] EXCEPT ![[row |-> i, send |-> sends[i] + 1]] = "visible"]
                 ELSE copy[q]]
    BY <1>4 DEF Publish
  <2>2. i \in Row
    BY DEF FirstRows, TypeOK
  <2>3. copy' \in [Queue -> [Message -> {"none", "visible", "inflight", "deleted", "dead"}]]
    BY <2>1 DEF TypeOK
  <2>4. sends' \in [Row -> 0..MaxSend]
    BY <2>1, <2>2 DEF TypeOK
  <2> QED
    BY <1>4, <2>3, <2>4 DEF Publish, TypeOK, relayVars, brokerVars, loopVars
<1>5. ASSUME NEW r \in Relay, Mark(r) PROVE TypeOK'
  BY <1>5 DEF Mark, FirstRows, TypeOK, relayVars, brokerVars, loopVars
<1>6. ASSUME NEW r \in Relay, StopDraining(r) PROVE TypeOK'
  BY <1>6 DEF StopDraining, Fault, TypeOK, relayVars, brokerVars, loopVars
<1>7. ASSUME NEW q \in Queue, NEW m \in Message, Timeout(q, m) PROVE TypeOK'
  BY <1>7 DEF Timeout, TypeOK, relayVars, brokerVars, loopVars
<1>8. ASSUME NEW q \in Queue, NEW m \in Message, Redrive(q, m) PROVE TypeOK'
  BY <1>8 DEF Redrive, TypeOK, Message, relayVars, brokerVars, loopVars
<1>9. ASSUME NEW c \in Consumer, Subscribe(c) PROVE TypeOK'
  BY <1>9 DEF Subscribe, TypeOK, relayVars, brokerVars, loopVars
<1>10. ASSUME NEW c \in Consumer, Receive(c) PROVE TypeOK'
  <2> DEFINE q == QueueOf[c]
  <2>1. q \in Queue
    OBVIOUS
  <2> HIDE DEF q
  <2>2. PICK ms \in SUBSET Receivable(q) :
          /\ copy' = [copy EXCEPT ![q] = [m \in Message |-> IF m \in ms THEN "inflight" ELSE @[m]]]
          /\ receives' = [receives EXCEPT ![q] = [m \in Message |-> IF m \in ms THEN @[m] + 1 ELSE @[m]]]
          /\ batch' = [batch EXCEPT ![c] = {[message |-> m, handle |-> receives[q][m] + 1] : m \in ms}]
    BY <1>10 DEF Receive, q
  <2>3. \A m \in ms : m \in Message /\ receives[q][m] < MaxReceive
    BY <2>2 DEF Receivable
  <2>4. copy' \in [Queue -> [Message -> {"none", "visible", "inflight", "deleted", "dead"}]]
    BY <2>1, <2>2 DEF TypeOK
  <2>5. receives' \in [Queue -> [Message -> 0..MaxReceive]]
    BY <2>1, <2>2, <2>3 DEF TypeOK
  <2>6. {[message |-> m, handle |-> receives[q][m] + 1] : m \in ms} \subseteq Received
    BY <2>1, <2>3 DEF TypeOK, Received
  <2>7. batch' \in [Consumer -> SUBSET Received]
    BY <2>2, <2>6 DEF TypeOK
  <2> QED
    BY <1>10, <2>4, <2>5, <2>7 DEF Receive, TypeOK, relayVars, brokerVars, loopVars
<1>11. ASSUME NEW c \in Consumer, HandleEvent(c) PROVE TypeOK'
  BY <1>11 DEF HandleEvent, TypeOK, Received, Message, relayVars, brokerVars, loopVars
<1>12. ASSUME NEW c \in Consumer, HandleFails(c) PROVE TypeOK'
  BY <1>12 DEF HandleFails, Fault, TypeOK, relayVars, brokerVars, loopVars
<1>13. ASSUME NEW c \in Consumer, Ack(c) PROVE TypeOK'
  BY <1>13 DEF Ack, TypeOK, relayVars, brokerVars, loopVars
<1>14. ASSUME NEW c \in Consumer, AckFails(c) PROVE TypeOK'
  BY <1>14 DEF AckFails, Fault, TypeOK, relayVars, brokerVars, loopVars
<1>15. ASSUME NEW c \in Consumer, Exit(c) PROVE TypeOK'
  BY <1>15 DEF Exit, Fault, TypeOK, relayVars, brokerVars, loopVars
<1>16. CASE UNCHANGED vars
  BY <1>16 DEF vars, TypeOK, relayVars, brokerVars, loopVars
<1> QED
  BY <1>1, <1>2, <1>3, <1>4, <1>5, <1>6, <1>7, <1>8, <1>9, <1>10, <1>11, <1>12, <1>13,
     <1>14, <1>15, <1>16 DEF Next, RelayStep, BrokerStep, ConsumerStep

(* Every variable keeps its type: in particular no message is received     *)
(* more often than the redrive policy allows.                              *)
THEOREM TypeCorrect == Spec => []TypeOK
BY InitTypes, NextTypes, PTL DEF Spec
-----------------------------------------------------------------------------
(* Nothing is lost.                                                        *)

(* The queue has the event, or is through with it.                         *)
Reached(q, i) ==
  \/ i \in handled[q] \cup dead[q]
  \/ \E m \in Message : m.row = i /\ copy[q][m] \in {"visible", "inflight"}

(* Only committed rows leave the outbox table or are owed to a queue, and  *)
(* a row is owed to queues that receive from the topic.                    *)
CommittedInv ==
  /\ \A r \in Relay : fetched[r] \subseteq Emitted
  /\ \A q \in Queue : due[q] \subseteq Emitted
  /\ \A q \in Queue : due[q] # {} => q \in subscribed

(* The order of publish and mark: what a relay has published and not yet   *)
(* marked, and every marked row, has reached the queues it is owed to.     *)
PublishedInv ==
  /\ \A r \in Relay : sent[r] =>
       /\ fetched[r] # {}
       /\ \A i \in FirstRows(fetched[r], 1), q \in Queue : i \in due[q] => Reached(q, i)
  /\ \A i \in Row, q \in Queue : row[i] = "published" /\ i \in due[q] => Reached(q, i)

(* The order of handle and ack, and what becomes of a copy.                *)
AckedInv ==
  /\ \A c \in Consumer : \A a \in acking[c] : a.message.row \in handled[QueueOf[c]]
  /\ \A q \in Queue, m \in Message :
       /\ copy[q][m] = "deleted" => m.row \in handled[q]
       /\ copy[q][m] = "dead" => m.row \in dead[q]

DeliveryInv == CommittedInv /\ PublishedInv /\ AckedInv

LEMMA InitDelivery == Init => DeliveryInv
BY DEF Init, DeliveryInv, CommittedInv, PublishedInv, AckedInv, Row, Emitted

(* A queue that an event has reached is not left by it again.              *)
LEMMA ReachedStable ==
  ASSUME TypeOK, AckedInv, [Next]_vars, NEW q \in Queue, NEW i \in Row, Reached(q, i)
  PROVE  Reached(q, i)'
<1> USE DEF Reached
<1>1. ASSUME UNCHANGED <<copy, dead>>, handled[q] \subseteq handled'[q] PROVE Reached(q, i)'
  BY <1>1
<1>2. ASSUME NEW j \in Row, Commit(j) \/ Rollback(j) PROVE Reached(q, i)'
  BY <1>1, <1>2 DEF Commit, Rollback, brokerVars, loopVars
<1>3. ASSUME NEW r \in Relay, Fetch(r) \/ Mark(r) \/ StopDraining(r) PROVE Reached(q, i)'
  BY <1>1, <1>3 DEF Fetch, Mark, StopDraining, brokerVars, loopVars
<1>4. ASSUME NEW r \in Relay, Publish(r) PROVE Reached(q, i)'
  <2>1. \A m \in Message : copy[q][m] \in {"visible", "inflight"} => copy'[q][m] \in {"visible", "inflight"}
    BY <1>4 DEF Publish, TypeOK
  <2> QED
    BY <1>4, <2>1 DEF Publish, loopVars
<1>5. ASSUME NEW p \in Queue, NEW n \in Message, Timeout(p, n) PROVE Reached(q, i)'
  <2>1. \A m \in Message : copy[q][m] \in {"visible", "inflight"} => copy'[q][m] \in {"visible", "inflight"}
    BY <1>5 DEF Timeout, TypeOK
  <2> QED
    BY <1>5, <2>1 DEF Timeout, loopVars
<1>6. ASSUME NEW p \in Queue, NEW n \in Message, Redrive(p, n) PROVE Reached(q, i)'
  <2>1. \A m \in Message : copy[q][m] \in {"visible", "inflight"} =>
          copy'[q][m] \in {"visible", "inflight"} \/ m.row \in dead'[q]
    BY <1>6 DEF Redrive, TypeOK, Message
  <2>2. dead[q] \subseteq dead'[q]
    BY <1>6 DEF Redrive, TypeOK
  <2> QED
    BY <1>6, <2>1, <2>2 DEF Redrive, loopVars
<1>7. ASSUME NEW c \in Consumer, Receive(c) PROVE Reached(q, i)'
  <2>1. \A m \in Message : copy[q][m] \in {"visible", "inflight"} => copy'[q][m] \in {"visible", "inflight"}
    BY <1>7 DEF Receive, TypeOK
  <2> QED
    BY <1>7, <2>1 DEF Receive
<1>8. ASSUME NEW c \in Consumer, HandleEvent(c) PROVE Reached(q, i)'
  BY <1>1, <1>8 DEF HandleEvent, TypeOK, brokerVars
<1>9. ASSUME NEW c \in Consumer, Ack(c) PROVE Reached(q, i)'
  <2>1. \A m \in Message : copy[q][m] \in {"visible", "inflight"} =>
          copy'[q][m] \in {"visible", "inflight"} \/ m.row \in handled[q]
    BY <1>9 DEF Ack, TypeOK, AckedInv
  <2> QED
    BY <1>9, <2>1 DEF Ack
<1>10. ASSUME NEW c \in Consumer,
              Subscribe(c) \/ HandleFails(c) \/ AckFails(c) \/ Exit(c)
       PROVE  Reached(q, i)'
  BY <1>1, <1>10 DEF Subscribe, HandleFails, AckFails, Exit, brokerVars
<1>11. CASE UNCHANGED vars
  BY <1>1, <1>11 DEF vars, brokerVars, loopVars
<1> QED
  BY <1>2, <1>3, <1>4, <1>5, <1>6, <1>7, <1>8, <1>9, <1>10, <1>11
     DEF Next, RelayStep, BrokerStep, ConsumerStep

(* The relay works on one row at a time.                                   *)
LEMMA FirstIsLeast ==
  ASSUME NEW rows \in SUBSET Row, NEW i \in FirstRows(rows, 1), NEW j \in FirstRows(rows, 1)
  PROVE  i = j
<1>1. \A k \in FirstRows(rows, 1) : {l \in rows : l < k} = {}
  <2>0. IsFiniteSet(1..MaxRow)
    BY FS_Interval
  <2>1. IsFiniteSet(rows)
    BY <2>0, FS_Subset DEF Row
  <2>2. ASSUME NEW k \in FirstRows(rows, 1) PROVE {l \in rows : l < k} = {}
    <3>1. IsFiniteSet({l \in rows : l < k})
      BY <2>1, FS_Subset
    <3>2. Cardinality({l \in rows : l < k}) = 0
      BY <3>1, FS_CardinalityType DEF FirstRows
    <3> QED
      BY <3>1, <3>2, FS_EmptySet
  <2> QED
    BY <2>2
<1>2. i \in rows /\ j \in rows /\ i \in Int /\ j \in Int
  BY DEF FirstRows, Row
<1> QED
  BY <1>1, <1>2

LEMMA NextCommitted ==
  ASSUME TypeOK, CommittedInv, [Next]_vars
  PROVE  CommittedInv'
<1> USE DEF CommittedInv, Emitted
<1>1. ASSUME UNCHANGED <<row, due>>, subscribed \subseteq subscribed',
             \A r \in Relay : fetched'[r] \subseteq fetched[r] \cup Unpublished
      PROVE  CommittedInv'
  BY <1>1 DEF Unpublished
<1>2. ASSUME NEW i \in Row, Commit(i) PROVE CommittedInv'
  <2>1. Emitted' = Emitted \cup {i}
    BY <1>2 DEF Commit, TypeOK
  <2>2. \A q \in Queue : due'[q] = IF q \in subscribed THEN due[q] \cup {i} ELSE due[q]
    BY <1>2 DEF Commit
  <2> QED
    BY <1>2, <2>1, <2>2 DEF Commit, relayVars, brokerVars
<1>3. ASSUME NEW i \in Row, Rollback(i) PROVE CommittedInv'
  <2>1. Emitted' = Emitted
    BY <1>3 DEF Rollback, TypeOK
  <2> QED
    BY <1>3, <2>1 DEF Rollback, relayVars, brokerVars
<1>4. ASSUME NEW r \in Relay, Fetch(r) PROVE CommittedInv'
  BY <1>1, <1>4 DEF Fetch, FirstRows, TypeOK, brokerVars
<1>5. ASSUME NEW r \in Relay, Publish(r) PROVE CommittedInv'
  BY <1>1, <1>5 DEF Publish
<1>6. ASSUME NEW r \in Relay, Mark(r) PROVE CommittedInv'
  <2>1. PICK i \in FirstRows(fetched[r], 1) :
          /\ row' = [row EXCEPT ![i] = "published"]
          /\ fetched' = [fetched EXCEPT ![r] = @ \ {i}]
    BY <1>6 DEF Mark
  <2>2. i \in Emitted
    BY DEF FirstRows
  <2>3. Emitted' = Emitted
    BY <2>1, <2>2 DEF TypeOK
  <2>4. \A s \in Relay : fetched'[s] \subseteq fetched[s]
    BY <2>1 DEF TypeOK
  <2>5. UNCHANGED <<due, subscribed>>
    BY <1>6 DEF Mark, brokerVars
  <2> QED
    BY <2>3, <2>4, <2>5
<1>7. ASSUME NEW r \in Relay, StopDraining(r) PROVE CommittedInv'
  BY <1>1, <1>7 DEF StopDraining, TypeOK, brokerVars
<1>8. ASSUME NEW q \in Queue, NEW m \in Message, Timeout(q, m) \/ Redrive(q, m) PROVE CommittedInv'
  BY <1>1, <1>8 DEF Timeout, Redrive, relayVars
<1>9. ASSUME NEW c \in Consumer, Subscribe(c) PROVE CommittedInv'
  BY <1>1, <1>9 DEF Subscribe, relayVars
<1>10. ASSUME NEW c \in Consumer, Receive(c) \/ HandleEvent(c) \/ HandleFails(c) \/ Ack(c)
                                  \/ AckFails(c) \/ Exit(c)
       PROVE  CommittedInv'
  BY <1>1, <1>10 DEF Receive, HandleEvent, HandleFails, Ack, AckFails, Exit, relayVars, brokerVars
<1>11. CASE UNCHANGED vars
  BY <1>1, <1>11 DEF vars, relayVars, brokerVars
<1> QED
  BY <1>2, <1>3, <1>4, <1>5, <1>6, <1>7, <1>8, <1>9, <1>10, <1>11
     DEF Next, RelayStep, BrokerStep, ConsumerStep

LEMMA NextAcked ==
  ASSUME TypeOK, AckedInv, [Next]_vars
  PROVE  AckedInv'
<1> USE DEF AckedInv
<1>1. ASSUME UNCHANGED <<copy, dead, acking, handled>> PROVE AckedInv'
  BY <1>1
<1>2. ASSUME NEW i \in Row, Commit(i) \/ Rollback(i) PROVE AckedInv'
  BY <1>1, <1>2 DEF Commit, Rollback, brokerVars, loopVars
<1>3. ASSUME NEW r \in Relay, Fetch(r) \/ Mark(r) \/ StopDraining(r) PROVE AckedInv'
  BY <1>1, <1>3 DEF Fetch, Mark, StopDraining, brokerVars, loopVars
<1>4. ASSUME NEW r \in Relay, Publish(r) PROVE AckedInv'
  <2>1. \A q \in Queue, m \in Message : copy'[q][m] \in {"deleted", "dead"} => copy'[q][m] = copy[q][m]
    BY <1>4 DEF Publish, TypeOK
  <2> QED
    BY <1>4, <2>1 DEF Publish, loopVars
<1>5. ASSUME NEW p \in Queue, NEW n \in Message, Timeout(p, n) PROVE AckedInv'
  <2>1. \A q \in Queue, m \in Message : copy'[q][m] \in {"deleted", "dead"} => copy'[q][m] = copy[q][m]
    BY <1>5 DEF Timeout, TypeOK
  <2> QED
    BY <1>5, <2>1 DEF Timeout, loopVars
<1>6. ASSUME NEW p \in Queue, NEW n \in Message, Redrive(p, n) PROVE AckedInv'
  <2>1. \A q \in Queue, m \in Message :
          /\ copy'[q][m] = "deleted" => copy[q][m] = "deleted"
          /\ copy'[q][m] = "dead" => copy[q][m] = "dead" \/ (q = p /\ m = n)
    BY <1>6 DEF Redrive, TypeOK
  <2>2. \A q \in Queue : dead[q] \subseteq dead'[q]
    BY <1>6 DEF Redrive, TypeOK
  <2>3. n.row \in dead'[p]
    BY <1>6 DEF Redrive, TypeOK
  <2>4. UNCHANGED <<acking, handled>>
    BY <1>6 DEF Redrive, loopVars
  <2> QED
    BY <2>1, <2>2, <2>3, <2>4
<1>7. ASSUME NEW c \in Consumer, Receive(c) PROVE AckedInv'
  <2>1. \A q \in Queue, m \in Message : copy'[q][m] \in {"deleted", "dead"} => copy'[q][m] = copy[q][m]
    BY <1>7 DEF Receive, TypeOK
  <2> QED
    BY <1>7, <2>1 DEF Receive
<1>8. ASSUME NEW c \in Consumer, HandleEvent(c) PROVE AckedInv'
  <2>1. PICK m \in batch[c] :
          /\ handled' = [handled EXCEPT ![QueueOf[c]] = @ \cup {m.message.row}]
          /\ acking' = [acking EXCEPT ![c] = {m}]
    BY <1>8 DEF HandleEvent
  <2>2. UNCHANGED <<copy, dead>>
    BY <1>8 DEF HandleEvent, brokerVars
  <2>3. \A q \in Queue : handled[q] \subseteq handled'[q]
    BY <2>1 DEF TypeOK
  <2>4. m.message.row \in handled'[QueueOf[c]]
    BY <2>1 DEF TypeOK
  <2>5. \A d \in Consumer : acking'[d] = IF d = c THEN {m} ELSE acking[d]
    BY <2>1 DEF TypeOK
  <2> QED
    BY <2>2, <2>3, <2>4, <2>5
<1>9. ASSUME NEW c \in Consumer, Ack(c) PROVE AckedInv'
  <2>1. \A q \in Queue, m \in Message :
          \/ copy'[q][m] = copy[q][m]
          \/ copy'[q][m] = "deleted" /\ m.row \in handled[q]
    <3>1. ASSUME NEW q \in Queue, NEW m \in Message, copy'[q][m] # copy[q][m]
          PROVE  q = QueueOf[c] /\ copy'[q][m] = "deleted" /\ \E a \in acking[c] : a.message = m
      BY <1>9, <3>1 DEF Ack, TypeOK
    <3> QED
      BY <3>1
  <2>2. acking' = [acking EXCEPT ![c] = {}]
    BY <1>9 DEF Ack
  <2>3. \A d \in Consumer : acking'[d] \subseteq acking[d]
    BY <2>2 DEF TypeOK
  <2>4. UNCHANGED <<handled, dead>>
    BY <1>9 DEF Ack
  <2> QED
    BY <2>1, <2>3, <2>4
<1>10. ASSUME NEW c \in Consumer,
              Subscribe(c) \/ HandleFails(c) \/ AckFails(c) \/ Exit(c)
       PROVE  AckedInv'
  <2>1. \A d \in Consumer : acking'[d] \subseteq acking[d]
    BY <1>10 DEF Subscribe, HandleFails, AckFails, Exit, TypeOK
  <2> QED
    BY <1>10, <2>1 DEF Subscribe, HandleFails, AckFails, Exit, brokerVars
<1>11. CASE UNCHANGED vars
  BY <1>1, <1>11 DEF vars, brokerVars, loopVars
<1> QED
  BY <1>2, <1>3, <1>4, <1>5, <1>6, <1>7, <1>8, <1>9, <1>10, <1>11
     DEF Next, RelayStep, BrokerStep, ConsumerStep

LEMMA NextPublished ==
  ASSUME TypeOK, DeliveryInv, [Next]_vars
  PROVE  PublishedInv'
<1> USE DEF DeliveryInv
<1>1. \A q \in Queue, i \in Row : Reached(q, i) => Reached(q, i)'
  BY ReachedStable
<1>2. ASSUME UNCHANGED <<row, due, fetched, sent>> PROVE PublishedInv'
  BY <1>1, <1>2 DEF PublishedInv, FirstRows, TypeOK
<1>3. ASSUME NEW j \in Row, Commit(j) PROVE PublishedInv'
  <2>1. row[j] = "open" /\ row' = [row EXCEPT ![j] = "pending"]
    BY <1>3 DEF Commit
  <2>2. j \notin Emitted
    BY <2>1 DEF Emitted
  <2>3. \A q \in Queue : due'[q] \subseteq due[q] \cup {j}
    BY <1>3 DEF Commit
  <2>4. \A r \in Relay : FirstRows(fetched[r], 1) \subseteq Row \ {j}
    BY <2>2 DEF CommittedInv, FirstRows, TypeOK
  <2>5. \A i \in Row : row'[i] = "published" => row[i] = "published" /\ i # j
    BY <2>1 DEF TypeOK
  <2>6. UNCHANGED <<fetched, sent>>
    BY <1>3 DEF Commit, relayVars
  <2>7. \A r \in Relay : FirstRows(fetched[r], 1)' = FirstRows(fetched[r], 1)
    BY <2>6 DEF FirstRows
  <2> QED
    BY <1>1, <2>3, <2>4, <2>5, <2>6, <2>7 DEF PublishedInv
<1>4. ASSUME NEW j \in Row, Rollback(j) PROVE PublishedInv'
  <2>1. \A i \in Row : row'[i] = "published" => row[i] = "published"
    BY <1>4 DEF Rollback, TypeOK
  <2>2. UNCHANGED <<due, fetched, sent>>
    BY <1>4 DEF Rollback, relayVars
  <2> QED
    BY <1>1, <2>1, <2>2 DEF PublishedInv, FirstRows, TypeOK
<1>5. ASSUME NEW r \in Relay,
             ~sent'[r], \A s \in Relay \ {r} : sent'[s] = sent[s] /\ fetched'[s] = fetched[s],
             \A i \in Row, q \in Queue : row'[i] = "published" /\ i \in due'[q] => Reached(q, i),
             UNCHANGED due
      PROVE  PublishedInv'
  BY <1>1, <1>5 DEF PublishedInv, FirstRows, TypeOK
<1>6. ASSUME NEW r \in Relay, Fetch(r) PROVE PublishedInv'
  <2>1. ~sent[r]
    BY <1>6 DEF Fetch, PublishedInv
  <2> QED
    BY <1>1, <1>5, <1>6, <2>1 DEF Fetch, TypeOK, PublishedInv
<1>7. ASSUME NEW r \in Relay, Publish(r) PROVE PublishedInv'
  <2>1. PICK i \in FirstRows(fetched[r], 1) :
          /\ sends[i] < MaxSend
          /\ copy' = [q \in Queue |->
               IF q \in subscribed
                 THEN [copy[q] EXCEPT ![[row |-> i, send |-> sends[i] + 1]] = "visible"]
                 ELSE copy[q]]
    BY <1>7 DEF Publish
  <2>2. i \in Row
    BY DEF FirstRows, TypeOK
  <2>3. [row |-> i, send |-> sends[i] + 1] \in Message
    BY <2>1, <2>2 DEF TypeOK, Message
  <2>4. \A q \in Queue : i \in due[q] => Reached(q, i)'
    <3>1. ASSUME NEW q \in Queue, i \in due[q]
          PROVE  copy'[q][[row |-> i, send |-> sends[i] + 1]] = "visible"
      BY <2>1, <2>3, <3>1 DEF CommittedInv, TypeOK
    <3> QED
      BY <1>7, <2>3, <3>1 DEF Publish, Reached
  <2>5. UNCHANGED <<row, due, fetched>>
    BY <1>7 DEF Publish
  <2>6. sent' = [sent EXCEPT ![r] = TRUE]
    BY <1>7 DEF Publish
  <2>7. \A s \in Relay : FirstRows(fetched[s], 1)' = FirstRows(fetched[s], 1)
    BY <2>5 DEF FirstRows
  <2>8. \A j \in FirstRows(fetched[r], 1) : j = i
    BY FirstIsLeast DEF TypeOK
  <2>9. \A s \in Relay \ {r} : sent'[s] = sent[s]
    BY <2>6 DEF TypeOK
  <2>10. \A j \in Row, q \in Queue : row'[j] = "published" /\ j \in due'[q] => Reached(q, j)'
    BY <1>1, <2>5 DEF PublishedInv
  <2>11. fetched'[r] # {}
    BY <2>1, <2>5 DEF FirstRows
  <2>12. \A s \in Relay \ {r} : sent'[s] => fetched'[s] # {} /\
           \A j \in FirstRows(fetched[s], 1)', q \in Queue : j \in due'[q] => Reached(q, j)'
    <3>1. \A s \in Relay : FirstRows(fetched[s], 1) \subseteq Row
      BY DEF FirstRows, TypeOK
    <3> QED
      BY <1>1, <2>5, <2>7, <2>9, <3>1 DEF PublishedInv
  <2>13. \A j \in FirstRows(fetched[r], 1)', q \in Queue : j \in due'[q] => Reached(q, j)'
    BY <2>4, <2>5, <2>7, <2>8
  <2> QED
    BY <2>10, <2>11, <2>12, <2>13 DEF PublishedInv
<1>8. ASSUME NEW r \in Relay, Mark(r) PROVE PublishedInv'
  <2>1. PICK i \in FirstRows(fetched[r], 1) :
          /\ row' = [row EXCEPT ![i] = "published"]
          /\ fetched' = [fetched EXCEPT ![r] = @ \ {i}]
    BY <1>8 DEF Mark
  <2>2. \A q \in Queue : i \in due[q] => Reached(q, i)
    BY <1>8 DEF Mark, PublishedInv
  <2>3. \A j \in Row, q \in Queue : row'[j] = "published" /\ j \in due'[q] => Reached(q, j)
    BY <1>8, <2>1, <2>2 DEF Mark, PublishedInv, TypeOK
  <2>4. ~sent'[r] /\ UNCHANGED due /\ \A s \in Relay \ {r} : sent'[s] = sent[s] /\ fetched'[s] = fetched[s]
    BY <1>8, <2>1 DEF Mark, TypeOK
  <2> QED
    BY <1>5, <2>3, <2>4
<1>9. ASSUME NEW r \in Relay, StopDraining(r) PROVE PublishedInv'
  BY <1>5, <1>9 DEF StopDraining, PublishedInv, TypeOK
<1>10. ASSUME NEW q \in Queue, NEW m \in Message, Timeout(q, m) \/ Redrive(q, m) PROVE PublishedInv'
  BY <1>2, <1>10 DEF Timeout, Redrive, relayVars
<1>11. ASSUME NEW c \in Consumer,
              Subscribe(c) \/ Receive(c) \/ HandleEvent(c) \/ HandleFails(c) \/ Ack(c)
                \/ AckFails(c) \/ Exit(c)
       PROVE  PublishedInv'
  BY <1>2, <1>11 DEF Subscribe, Receive, HandleEvent, HandleFails, Ack, AckFails, Exit, relayVars
<1>12. CASE UNCHANGED vars
  BY <1>2, <1>12 DEF vars, relayVars
<1> QED
  BY <1>3, <1>4, <1>6, <1>7, <1>8, <1>9, <1>10, <1>11, <1>12
     DEF Next, RelayStep, BrokerStep, ConsumerStep

(* The inductive invariant behind NothingLost: publish before mark, handle *)
(* before ack, and a copy leaves its queue only handled or dead.           *)
THEOREM DeliveryCorrect == Spec => []DeliveryInv
<1>1. TypeOK /\ DeliveryInv /\ [Next]_vars => DeliveryInv'
  BY NextCommitted, NextPublished, NextAcked DEF DeliveryInv
<1> QED
  BY <1>1, InitDelivery, TypeCorrect, PTL DEF Spec

(* No committed event is lost, whatever the relays, the broker's timeouts  *)
(* and the consumers do and wherever they stop.                            *)
THEOREM NothingLostHolds == Spec => []NothingLost
<1>1. TypeOK /\ DeliveryInv => NothingLost
  BY DEF TypeOK, DeliveryInv, CommittedInv, PublishedInv, NothingLost, Reached, OnItsWay, Emitted
<1> QED
  BY <1>1, DeliveryCorrect, TypeCorrect, PTL

-----------------------------------------------------------------------------
(* The steps of the bus.                                                   *)

(* Only committed events travel.                                           *)
TravellingInv ==
  /\ \A r \in Relay : fetched[r] \subseteq Emitted
  /\ \A q \in Queue, m \in Message : copy[q][m] # "none" => m.row \in Emitted
  /\ \A c \in Consumer : \A m \in batch[c] \cup acking[c] : m.message.row \in Emitted

LEMMA EmittedGrows ==
  ASSUME TypeOK, CommittedInv, [Next]_vars
  PROVE  Emitted \subseteq Emitted'
<1> USE DEF Emitted
<1>1. ASSUME NEW i \in Row, Commit(i) \/ Rollback(i) PROVE Emitted \subseteq Emitted'
  BY <1>1 DEF Commit, Rollback, TypeOK
<1>2. ASSUME NEW r \in Relay, Mark(r) PROVE Emitted \subseteq Emitted'
  BY <1>2 DEF Mark, TypeOK
<1>3. CASE UNCHANGED row
  BY <1>3
<1> QED
  BY <1>1, <1>2, <1>3 DEF Next, RelayStep, BrokerStep, ConsumerStep, vars, relayVars, Fetch,
     Publish, StopDraining, Timeout, Redrive, Subscribe, Receive, HandleEvent, HandleFails,
     Ack, AckFails, Exit

LEMMA NextTravelling ==
  ASSUME TypeOK, CommittedInv, TravellingInv, [Next]_vars
  PROVE  TravellingInv'
<1>1. Emitted \subseteq Emitted' /\ (\A r \in Relay : fetched[r] \subseteq Emitted)'
  BY EmittedGrows, NextCommitted DEF CommittedInv
<1>2. ASSUME \A q \in Queue, m \in Message : copy'[q][m] # "none" => copy[q][m] # "none",
             \A c \in Consumer : batch'[c] \cup acking'[c] \subseteq batch[c] \cup acking[c]
      PROVE  TravellingInv'
  BY <1>1, <1>2 DEF TravellingInv
<1>3. ASSUME NEW r \in Relay, Publish(r) PROVE TravellingInv'
  <2>1. PICK i \in FirstRows(fetched[r], 1) :
          copy' = [q \in Queue |->
            IF q \in subscribed
              THEN [copy[q] EXCEPT ![[row |-> i, send |-> sends[i] + 1]] = "visible"]
              ELSE copy[q]]
    BY <1>3 DEF Publish
  <2>2. i \in Emitted
    BY DEF FirstRows, TravellingInv
  <2>3. \A q \in Queue, m \in Message : copy'[q][m] # copy[q][m] => m.row = i
    BY <2>1 DEF TypeOK
  <2>4. UNCHANGED <<batch, acking>>
    BY <1>3 DEF Publish, loopVars
  <2> QED
    BY <1>1, <2>2, <2>3, <2>4 DEF TravellingInv
<1>4. ASSUME NEW c \in Consumer, Receive(c) PROVE TravellingInv'
  <2> DEFINE q == QueueOf[c]
  <2>1. q \in Queue
    OBVIOUS
  <2> HIDE DEF q
  <2>2. PICK ms \in SUBSET Receivable(q) :
          /\ copy' = [copy EXCEPT ![q] = [m \in Message |-> IF m \in ms THEN "inflight" ELSE @[m]]]
          /\ batch' = [batch EXCEPT ![c] = {[message |-> m, handle |-> receives[q][m] + 1] : m \in ms}]
    BY <1>4 DEF Receive, q
  <2>3. \A m \in ms : m \in Message /\ copy[q][m] = "visible"
    BY <2>2 DEF Receivable
  <2>4. \A p \in Queue, m \in Message : copy'[p][m] # "none" => copy[p][m] # "none"
    BY <2>1, <2>2, <2>3 DEF TypeOK
  <2>5. \A d \in Consumer : \A m \in batch'[d] : m \in batch[d] \/ m.message \in ms
    BY <2>2 DEF TypeOK
  <2>6. \A m \in ms : m.row \in Emitted
    BY <2>1, <2>3 DEF TravellingInv
  <2>7. UNCHANGED acking
    BY <1>4 DEF Receive
  <2> QED
    BY <1>1, <2>4, <2>5, <2>6, <2>7 DEF TravellingInv
<1>5. ASSUME NEW q \in Queue, NEW m \in Message, Timeout(q, m) \/ Redrive(q, m) PROVE TravellingInv'
  BY <1>2, <1>5 DEF Timeout, Redrive, loopVars, TypeOK
<1>6. ASSUME NEW c \in Consumer, Ack(c) PROVE TravellingInv'
  <2>1. \A m \in Message : copy'[QueueOf[c]][m] # copy[QueueOf[c]][m] => m.row \in Emitted
    BY <1>6 DEF Ack, TypeOK, TravellingInv
  <2>2. \A q \in Queue \ {QueueOf[c]}, m \in Message : copy'[q][m] = copy[q][m]
    BY <1>6 DEF Ack, TypeOK
  <2>3. \A q \in Queue, m \in Message : copy'[q][m] # "none" => m.row \in Emitted
    BY <2>1, <2>2 DEF TravellingInv
  <2>4. \A d \in Consumer : batch'[d] \cup acking'[d] \subseteq batch[d] \cup acking[d]
    BY <1>6 DEF Ack, TypeOK
  <2>5. \A d \in Consumer : \A m \in batch'[d] \cup acking'[d] : m.message.row \in Emitted
    BY <2>4 DEF TravellingInv
  <2>6. fetched' = fetched /\ Emitted' = Emitted
    BY <1>6 DEF Ack, Emitted, relayVars
  <2> QED
    BY <2>3, <2>5, <2>6 DEF TravellingInv
<1>7. ASSUME NEW c \in Consumer, HandleEvent(c) \/ HandleFails(c) \/ AckFails(c) \/ Exit(c)
      PROVE  TravellingInv'
  <2>1. \A d \in Consumer : batch'[d] \cup acking'[d] \subseteq batch[d] \cup acking[d]
    BY <1>7 DEF HandleEvent, HandleFails, AckFails, Exit, TypeOK
  <2> QED
    BY <1>2, <1>7, <2>1 DEF HandleEvent, HandleFails, AckFails, Exit, brokerVars
<1>8. CASE UNCHANGED <<copy, batch, acking>>
  BY <1>2, <1>8
<1> QED
  BY <1>3, <1>4, <1>5, <1>6, <1>7, <1>8 DEF Next, RelayStep, BrokerStep, ConsumerStep, vars,
     brokerVars, loopVars, Commit, Rollback, Fetch, Mark, StopDraining, Subscribe

-----------------------------------------------------------------------------
LEMMA StepRefinesBus ==
  ASSUME TypeOK, TravellingInv, [Next]_vars
  PROVE  [Bus!Next]_(Bus!vars)
<1> USE DEF Bus!vars, Bus!Next
<1>1. ASSUME NEW i \in Row, Commit(i) PROVE [Bus!Next]_(Bus!vars)
  <2>1. i \notin Emitted /\ Emitted' = Emitted \cup {i}
    BY <1>1 DEF Commit, TypeOK, Emitted
  <2>2. subscribed \in SUBSET Queue
    BY DEF TypeOK
  <2>3. Bus!Emit(i, subscribed)
    BY <1>1, <2>1 DEF Commit, Bus!Emit, brokerVars, loopVars
  <2> QED
    BY <2>2, <2>3
<1>2. ASSUME NEW i \in Row, Rollback(i) PROVE [Bus!Next]_(Bus!vars)
  BY <1>2 DEF Rollback, TypeOK, Emitted, brokerVars, loopVars
<1>3. ASSUME NEW r \in Relay, Mark(r) PROVE [Bus!Next]_(Bus!vars)
  <2>1. PICK i \in FirstRows(fetched[r], 1) : row' = [row EXCEPT ![i] = "published"]
    BY <1>3 DEF Mark
  <2>2. Emitted' = Emitted
    BY <2>1 DEF FirstRows, TravellingInv, TypeOK, Emitted
  <2> QED
    BY <1>3, <2>2 DEF Mark, brokerVars, loopVars
<1>4. ASSUME NEW q \in Queue, NEW m \in Message, Redrive(q, m) PROVE [Bus!Next]_(Bus!vars)
  <2>1. m.row \in Emitted /\ m.row \in Row
    BY <1>4 DEF Redrive, TravellingInv, Message
  <2>2. Bus!Isolate(q, m.row)
    BY <1>4, <2>1 DEF Redrive, Bus!Isolate, loopVars, Emitted
  <2> QED
    BY <2>1, <2>2
<1>5. ASSUME NEW c \in Consumer, HandleEvent(c) PROVE [Bus!Next]_(Bus!vars)
  <2>1. PICK m \in batch[c] : handled' = [handled EXCEPT ![QueueOf[c]] = @ \cup {m.message.row}]
    BY <1>5 DEF HandleEvent
  <2>2. m.message.row \in Emitted /\ m.message.row \in Row
    BY DEF TravellingInv, Emitted
  <2>3. Bus!Handle(QueueOf[c], m.message.row)
    BY <1>5, <2>1, <2>2 DEF HandleEvent, Bus!Handle, brokerVars, Emitted
  <2> QED
    BY <2>2, <2>3
<1>6. CASE UNCHANGED <<row, due, handled, dead>>
  BY <1>6 DEF Emitted
<1> QED
  BY <1>1, <1>2, <1>3, <1>4, <1>5, <1>6 DEF Next, RelayStep, BrokerStep, ConsumerStep, vars,
     relayVars, brokerVars, loopVars, Fetch, Publish, StopDraining, Timeout, Subscribe, Receive,
     HandleFails, Ack, AckFails, Exit

(* Every step of the relays, the broker and the consume loops is a step of *)
(* the bus or changes nothing of it: no queue handles, or puts aside, what *)
(* was not committed.                                                      *)
THEOREM DeliverySteps == Spec => Bus!Steps
<1>1. Init => Bus!Init /\ TravellingInv
  BY DEF Init, Bus!Init, TravellingInv, Emitted
<1>2. TypeOK /\ CommittedInv /\ TravellingInv /\ [Next]_vars => TravellingInv'
  BY NextTravelling
<1>3. TypeOK /\ TravellingInv /\ [Next]_vars => [Bus!Next]_(Bus!vars)
  BY StepRefinesBus
<1>4. Spec => []CommittedInv
  BY DeliveryCorrect, PTL DEF DeliveryInv
<1> QED
  BY <1>1, <1>2, <1>3, <1>4, TypeCorrect, PTL DEF Spec, Bus!Steps
=============================================================================
