----------------------------- MODULE OrderFlow -----------------------------
(***************************************************************************)
(* The life of placed orders: OrdersService, DeliveriesService,            *)
(* PaymentsService, RefundsService and the payment provider, interleaved.  *)
(* They share the order row; every step that writes it holds its lock.     *)
(***************************************************************************)
EXTENDS Refunds

vars == <<orderVars, deliveryVars, paymentVars, refundVars>>

Init == OrdersInit /\ DeliveriesInit /\ PaymentsInit /\ RefundsInit

Next == \/ OrdersNext     /\ UNCHANGED <<deliveryVars, paymentVars, refundVars>>
        \/ DeliveriesNext /\ UNCHANGED <<paymentVars, refundVars>>
        \/ PaymentsNext   /\ UNCHANGED refundVars
        \/ RefundsNext

Spec == Init /\ [][Next]_vars

-----------------------------------------------------------------------------
\* The four components are well typed.
TypeOK == OrdersTypeOK /\ DeliveriesTypeOK /\ PaymentsTypeOK /\ RefundsTypeOK

-----------------------------------------------------------------------------
(* Orders and deliveries *)

\* Every row of the status history is a move of the TRANSITIONS table, or the
\* closing of an order handed over at the restaurant, and the last row is the
\* current status: DeliveriesService and PaymentsService, which write order
\* statuses without consulting the table, never leave it.
HistoryFollowsTheTable ==
  \A o \in Orders :
    /\ history[o][Len(history[o])][2] = status[o]
    /\ \A i \in 2 .. Len(history[o]) :
         \/ history[o][i] \in TRANSITIONS
         \/ history[o][i] = <<"ready", "closed">> /\ OrderType[o] \in AtRestaurant

\* An order is confirmed to its customer at most once: by checkout when it is
\* placed at once, by the verified capture when it waited for payment.
ConfirmedAtMostOnce ==
  \A o \in Orders :
    \A i, j \in 1 .. Len(outbox[o]) :
      outbox[o][i][1] = "order.confirmed" /\ outbox[o][j][1] = "order.confirmed"
        => i = j

OnTheRoad == {"picked_up", "en_route", "arriving", "delivered"}

\* The assignment and the order agree: a driver exists only for an order that
\* reached the hand-over, an order in "driver_assigned" has a driver who has
\* not left yet, and an order whose driver left is no longer at the restaurant.
DeliveryMatchesOrder ==
  \A o \in Orders :
    /\ assignment[o] # "none" =>
         status[o] \in {"driver_assigned", "out_for_delivery", "delivered", "closed"}
    /\ status[o] = "driver_assigned" =>
         assignment[o] \in {"none", "assigned", "accepted", "failed"}
    /\ assignment[o] \in OnTheRoad =>
         status[o] \in {"out_for_delivery", "delivered", "closed"}
    /\ assignment[o] = "delivered" => status[o] \in {"delivered", "closed"}

\* A driver never hands over an order that is paid on delivery before its
\* payment is recorded with a receipt.
PaidBeforeHandOver ==
  \A o \in Orders :
    assignment[o] = "delivered" /\ Method[o] \in PayOnDelivery =>
      \E t \in receipts : o \in txnOrder[t]

-----------------------------------------------------------------------------
(* Payments *)

\* An order shown as paid has a receipt, and one that waits for payment has
\* none: no capture is recorded without placing the order.
PaidHasReceipt ==
  \A o \in Orders :
    /\ payStatus[o] \in Settled => \E t \in receipts : o \in txnOrder[t]
    /\ status[o] = "pending_payment" => \A t \in receipts : o \notin txnOrder[t]

\* An order paid on delivery is collected at most once.
CollectedOnce ==
  \A t, u \in receipts :
    \A o \in txnOrder[t] \cap txnOrder[u] :
      Method[o] \in PayOnDelivery => t = u

\* A transaction whose money came in has its receipt, also after refunds and
\* late snapshots have changed its status.
CapturedHasReceipt ==
  \A t \in Txns : txnStatus[t] \in Captured => t \in receipts

\* Once an order is shown as paid, only a refund of its payment changes that:
\* no late, failed or expired checkout of the same order does.
PaidUntilRefunded ==
  [][\A o \in Orders :
       payStatus[o] = "paid" /\ payStatus'[o] # "paid" =>
         \E r \in RefundIds, t \in Txns :
           /\ refundStatus[r] # "refunded" /\ refundStatus'[r] = "refunded"
           /\ t \in refundTxn[r] /\ o \in txnOrder[t]]_vars

-----------------------------------------------------------------------------
(* Refunds *)

\* The refunds that are carried out never add up to more than the payment.
\* Each is within it on its own when it is requested, and several may be
\* requested, approved, repeated and marked as failed at a time: it is approve
\* that has to compare them again (RefundsService), whatever the provider does.
RefundsWithinCapture ==
  \A t \in Txns : RefundedTotal(t) <= Amount

\* A payment whose refunds add up to all of it is shown as refunded.
FullRefundIsShown ==
  \A t \in Txns :
    RefundedTotal(t) = Amount => txnStatus[t] = "refunded"

-----------------------------------------------------------------------------
(* Liveness, under the fairness of the webhook loop: the provider repeats a  *)
(* webhook until it is answered, and an answered one has been applied.       *)

Fairness ==
  /\ \A t \in Txns : WF_vars(FetchCheckout(t) /\ UNCHANGED refundVars)
  /\ \A t \in Txns, s \in ProviderStatuses :
       WF_vars(SynchronizeCheckout(t, s) /\ UNCHANGED refundVars)

FairSpec == Spec /\ Fairness

\* Money the provider has captured reaches the books and its order, whatever
\* other snapshots, checkouts and status changes come first, and the order is
\* shown as paid unless money was returned for it.
CaptureReachesTheOrder ==
  \A t \in Txns :
    checkout[t] = "captured" ~>
      /\ t \in receipts
      /\ \A o \in txnOrder[t] :
           /\ status[o] # "pending_payment"
           /\ \/ payStatus[o] \in Settled
              \/ \E u \in returned : o \in txnOrder[u]

-----------------------------------------------------------------------------
(* What the documents and messages of the repository say, and the code does  *)
(* not do.                                                                   *)

\* CUSTOMER_ADMIN_API_JOURNEY_GUIDE.md: competing refunds are serialized.  A
\* refund the provider has carried out and the books show stays refunded.
RefundedIsFinal ==
  [][\A r \in RefundIds :
       refundStatus[r] = "refunded" => refundStatus'[r] = "refunded"]_vars

-----------------------------------------------------------------------------
(* The abstract journey of an order *)

StageOf(s) ==
  CASE s = "pending_payment"                          -> "unpaid"
    [] s \in {"placed", "accepted", "preparing"}      -> "queued"
    [] s \in {"baking", "packing"}                    -> "cooking"
    [] s \in {"ready", "driver_assigned"}             -> "waiting"
    [] s = "out_for_delivery"                         -> "travelling"
    [] s \in {"delivered", "closed"}                  -> "served"
    [] OTHER                                          -> "dropped"

Journey == INSTANCE OrderJourney WITH
  Collected <- {o \in Orders : OrderType[o] \in AtRestaurant},
  stage     <- [o \in Orders |-> StageOf(status[o])],
  receipted <- [o \in Orders |-> \E t \in receipts : o \in txnOrder[t]]

\* OrderFlow implements OrderJourney.
ImplementsJourney == Journey!Spec
=============================================================================
