---------------------------- MODULE MCInventory ----------------------------
(* Instances of Inventory for TLC.                                         *)
EXTENDS Inventory

CONSTANTS a, b

L(p, q) == [product |-> p, quantity |-> q]

(* Two products, in both orders, and one product on two lines.             *)
CrossingRequests == {<<L(a, 1), L(b, 1)>>, <<L(b, 1), L(a, 1)>>}
MixedRequests    == CrossingRequests \cup {<<L(a, 1), L(a, 1)>>}

(* One product, one unit.                                                  *)
SingleRequests == {<<L(a, 1)>>}
============================================================================
