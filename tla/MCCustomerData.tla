--------------------------- MODULE MCCustomerData ---------------------------
(***************************************************************************)
(* Requests are interchangeable, and so are keys of rows.                  *)
(***************************************************************************)
EXTENDS CustomerData, TLC

Symmetry == Permutations(Requests) \cup Permutations(Ids)
=============================================================================
