------------------------------ MODULE MCPayment ------------------------------
(* Instances of Payment for TLC.                                           *)
EXTENDS Payment, TLC

CONSTANTS o1, o2, k1, k2

TwoOrders == (k1 :> o1) @@ (k2 :> o2)
OneOrder  == (k1 :> o1)
=============================================================================
