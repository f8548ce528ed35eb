---------------------------- MODULE OrderJourney ----------------------------
(***************************************************************************)
(* What the ordering system promises about one order, whoever moves it:    *)
(* it goes forward through the restaurant one stage at a time, it can be   *)
(* dropped only while nothing is in the oven, and taking its money for the *)
(* first time puts an order that waited for payment in the kitchen queue.  *)
(***************************************************************************)
CONSTANTS Orders,
          Collected    \* orders handed over at the counter or the table

VARIABLES stage,       \* where the order is
          receipted    \* whether its money has ever come in

Stages == {"unpaid", "queued", "cooking", "waiting", "travelling", "served",
           "dropped"}

TypeOK == /\ stage \in [Orders -> Stages]
          /\ receipted \in [Orders -> BOOLEAN]

Init == /\ stage \in [Orders -> {"unpaid", "queued"}]
        /\ receipted = [o \in Orders |-> FALSE]

Ahead == {<<"unpaid", "queued">>, <<"queued", "cooking">>,
          <<"cooking", "waiting">>, <<"waiting", "travelling">>,
          <<"travelling", "served">>}

\* The order moves one stage ahead; at the counter it need not travel.
Advance(o) ==
  /\ \E next \in Stages :
       /\ \/ <<stage[o], next>> \in Ahead
          \/ stage[o] = "waiting" /\ o \in Collected /\ next = "served"
       /\ stage' = [stage EXCEPT ![o] = next]
  /\ UNCHANGED receipted

Drop(o) ==
  /\ stage[o] \in {"unpaid", "queued"}
  /\ stage' = [stage EXCEPT ![o] = "dropped"]
  /\ UNCHANGED receipted

\* The first money for the order, at any stage.
Receive(o) ==
  /\ receipted' = [receipted EXCEPT ![o] = TRUE]
  /\ stage' = [stage EXCEPT ![o] = IF @ = "unpaid" THEN "queued" ELSE @]

Next == \E o \in Orders : Advance(o) \/ Drop(o) \/ Receive(o)

vars == <<stage, receipted>>
Spec == Init /\ [][Next]_vars

\* An order whose money came in does not wait for payment.
NotWaitingOnceReceived ==
  \A o \in Orders : receipted[o] => stage[o] # "unpaid"
=============================================================================
