---------------------------- MODULE MCStorefront ----------------------------
EXTENDS Storefront, TLC

(* Requests, tokens and passwords are interchangeable. *)
Interchangeable ==
  Permutations(Request) \cup Permutations(Token) \cup Permutations(Password)
=============================================================================
