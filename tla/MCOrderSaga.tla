---------------------------- MODULE MCOrderSaga ----------------------------
(* Instances of OrderSaga for TLC.                                         *)
EXTENDS OrderSaga
=============================================================================
