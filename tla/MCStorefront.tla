---------------------------- MODULE MCStorefront ----------------------------
(***************************************************************************)
(* Days of ten units, a weekday and its neighbour, and the night in which  *)
(* the clocks go from one unit ahead of UTC to two: at unit 1 of day 1.    *)
(***************************************************************************)
EXTENDS Storefront, TLC

Symmetry == Permutations(Requests)
=============================================================================
