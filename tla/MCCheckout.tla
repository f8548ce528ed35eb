----------------------------- MODULE MCCheckout -----------------------------
(***************************************************************************)
(* Symmetries of small instances of Checkout, for runs without liveness.   *)
(***************************************************************************)
EXTENDS Checkout, TLC

Symmetry == Permutations(Requests) \cup Permutations(Customers)
=============================================================================
