------------------------------ MODULE MCCalls ------------------------------
(* Instances of Calls for TLC: a service whose clients repeat its requests *)
(* is called by c1 and c2, the others by c3 and c4.                        *)
EXTENDS Calls, TLC

CONSTANTS c1, c2, c3, c4
=============================================================================
