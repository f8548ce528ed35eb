----------------------------- MODULE MCAccounts -----------------------------
(***************************************************************************)
(* Requests are interchangeable; users are not: some are administrators.   *)
(***************************************************************************)
EXTENDS Accounts, TLC

Symmetry == Permutations(Requests)
=============================================================================
