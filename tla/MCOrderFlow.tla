---------------------------- MODULE MCOrderFlow ----------------------------
(***************************************************************************)
(* Values for the constants of OrderFlow on small instances.               *)
(***************************************************************************)
EXTENDS OrderFlow

CONSTANT o1    \* an order

AllCard     == [o \in Orders |-> "card"]
AllCash     == [o \in Orders |-> "cash"]
AllDelivery == [o \in Orders |-> "delivery"]
AllPickup   == [o \in Orders |-> "pickup"]

=============================================================================
