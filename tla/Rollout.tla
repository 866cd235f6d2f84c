------------------------------ MODULE Rollout ------------------------------
(***************************************************************************)
(* Producers and consumers of an event are deployed one process at a time  *)
(* while the main branch moves on.  A process runs the contract of the     *)
(* version it was built from; events wait in outboxes, queues and dead     *)
(* letter queues across any number of deployments.                         *)
(***************************************************************************)
EXTENDS EventContract, Naturals, Sequences

CONSTANTS
  Producer, Consumer,  \* processes; a crash or a SIGTERM ends one at any time
  First,               \* the contract of the first version
  MaxVersion           \* bound on the versions

ASSUME FirstAssumption ==
  /\ First \in Contract /\ Check(First)
  /\ \A f \in Field : First.parse[f] # NULL => First.recorded[f] # NULL
ASSUME ProcessAssumption == Producer \cap Consumer = {} /\ MaxVersion \in Nat

Process == Producer \cup Consumer

VARIABLES
  main,    \* the contracts merged to the main branch, in order
  version, \* the version each process was built from
  up,      \* the processes that run
  wire,    \* the versions events have been emitted from that are still waiting
  dead     \* those of which a consumer has put one into the dead letter queue

vars == <<main, version, up, wire, dead>>

Version == 1..Len(main)

TypeOK ==
  /\ main \in Seq(Contract) /\ main # <<>>
  /\ version \in [Process -> Version]
  /\ up \subseteq Process
  /\ wire \subseteq Version
  /\ dead \subseteq Version

Init ==
  /\ main = <<First>>
  /\ version = [p \in Process |-> 1]
  /\ up = {}
  /\ wire = {}
  /\ dead = {}

-----------------------------------------------------------------------------
(* The rules of ADR-202608160730 that no check enforces; they are about    *)
(* releases, which the repository does not see.                            *)
Latest == main[Len(main)]

(* Events that may still arrive, from any producer.                        *)
Arriving == wire \cup {version[p] : p \in Producer}

(* What is merged is released before the next change of the contract.      *)
Released == \A p \in Process : version[p] = Len(main)

(* A field is added as optional ...                                        *)
AddsOptional(c) == \A f \in Field :
  Latest.recorded[f] = NULL /\ c.recorded[f] # NULL => c.recorded[f].optional

(* ... and required only once every event that may arrive has it.          *)
PromotesInTime(c) == \A f \in Field :
  c.recorded[f] # NULL /\ ~c.recorded[f].optional /\ Latest.recorded[f] # NULL
    /\ Latest.recorded[f].optional
    => \A v \in Arriving : main[v].values[f] # NULL

(* The name of a removed field does not come back with another type.       *)
KeepsNames(c) == \A f \in Field, v \in Version :
  c.values[f] # NULL /\ main[v].values[f] # NULL => c.values[f] = main[v].values[f]

(* Parse fills the struct that Values empties, and nothing else.           *)
ReadsWhatIsRecorded(c) == \A f \in Field : c.parse[f] # NULL => c.recorded[f] # NULL

Procedure(c) == /\ Released /\ AddsOptional(c) /\ PromotesInTime(c)
                /\ KeepsNames(c) /\ ReadsWhatIsRecorded(c)

(* A pull request passes Check and eventcompat.                            *)
Merge(c) ==
  /\ Len(main) < MaxVersion
  /\ Check(c) /\ Compatible(Latest.recorded, c.recorded)
  /\ Procedure(c)
  /\ main' = Append(main, c)
  /\ UNCHANGED <<version, up, wire, dead>>

-----------------------------------------------------------------------------
(* run of a main: a process starts, from its old image or from the newest. *)
Start(p) ==
  /\ p \notin up
  /\ up' = up \cup {p}
  /\ \E v \in {version[p], Len(main)} : version' = [version EXCEPT ![p] = v]
  /\ UNCHANGED <<main, wire, dead>>

(* SIGTERM, a crash, or a loop of a worker that has failed.                *)
Stop(p) ==
  /\ p \in up
  /\ up' = up \ {p}
  /\ UNCHANGED <<main, version, wire, dead>>

(* A producer commits an event with the row it is about.                   *)
Emit(p) ==
  /\ p \in up
  /\ wire' = wire \cup {version[p]}
  /\ UNCHANGED <<main, version, up, dead>>

(* A consumer is given an event, maybe the last one of its version.  One   *)
(* it refuses comes back until it is a dead letter.                        *)
Handle(p, v) ==
  /\ p \in up /\ v \in wire
  /\ IF Parse(main[version[p]], main[v].values)
       THEN UNCHANGED dead /\ (UNCHANGED wire \/ wire' = wire \ {v})
       ELSE UNCHANGED wire /\ dead' = dead \cup {v}
  /\ UNCHANGED <<main, version, up>>

Next ==
  \/ \E c \in Contract : Merge(c)
  \/ \E p \in Process : Start(p) \/ Stop(p)
  \/ \E p \in Producer : Emit(p)
  \/ \E p \in Consumer, v \in wire : Handle(p, v)

Spec == Init /\ [][Next]_vars
-----------------------------------------------------------------------------
(* No event is ever refused: whatever mixture of versions runs, and however*)
(* old an event is, its consumer can parse it.                             *)
NothingRefused == dead = {}
=============================================================================
