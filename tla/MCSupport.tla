----------------------------- MODULE MCSupport -----------------------------
(***************************************************************************)
(* Requests, assets and tickets are interchangeable.                       *)
(***************************************************************************)
EXTENDS Support, TLC

Symmetry == Permutations(Requests) \cup Permutations(Assets) \cup Permutations(Tickets)
=============================================================================
