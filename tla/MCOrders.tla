------------------------------ MODULE MCOrders ------------------------------
(* Instances of Orders for TLC: int32 holds -2..1 and int64 -8..7, so that *)
(* a quantity of 2 is narrowed to -2 and one of 5 to 1.                    *)
EXTENDS Orders

L(p, q) == [product |-> p, quantity |-> q]
CONSTANT p1
Carts == {<<L(p1, 1), L(p1, 1)>>, <<L(p1, 2)>>, <<L(p1, 5)>>}
=============================================================================
