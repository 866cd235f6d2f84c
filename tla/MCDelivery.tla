----------------------------- MODULE MCDelivery -----------------------------
(* Instances of Delivery for TLC.                                          *)
EXTENDS Delivery, TLC

CONSTANT q1

Symmetry == Permutations(Relay) \cup Permutations(Consumer)

OneQueue == [c \in Consumer |-> q1]
=============================================================================
