------------------------------ MODULE MCOutbox ------------------------------
(***************************************************************************)
(* Values for the constants of Outbox on small instances.                  *)
(***************************************************************************)
EXTENDS Outbox

CONSTANTS u1, u2    \* the customer and a member of the staff

\* A confirmation that customer and staff get, and a status for the customer.
ConfirmThenStatus == <<  <<u1, u2>>, <<u1>>  >>
=============================================================================
