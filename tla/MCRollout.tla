----------------------------- MODULE MCRollout -----------------------------
EXTENDS Rollout, TLC

CONSTANTS f1, int64

(* The first version has one required field. *)
OneField ==
  [values   |-> [f \in Field |-> IF f = f1 THEN int64 ELSE NULL],
   parse    |-> [f \in Field |-> IF f = f1 THEN [type |-> int64, optional |-> FALSE] ELSE NULL],
   recorded |-> [f \in Field |-> IF f = f1 THEN [type |-> int64, optional |-> FALSE] ELSE NULL]]

Replicas == Permutations(Producer) \cup Permutations(Consumer)
=============================================================================
