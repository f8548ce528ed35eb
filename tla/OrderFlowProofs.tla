-------------------------- MODULE OrderFlowProofs --------------------------
(***************************************************************************)
(* Proofs about OrderFlow, for every set of orders, drivers and refunds,   *)
(* every number of payment transactions and every amount.                  *)
(***************************************************************************)
EXTENDS OrderFlow, FiniteSetTheorems, TLAPS

-----------------------------------------------------------------------------
(* Type correctness, one component after the other.                         *)

\* A move to a known status, announced by a known event, is well typed.
LEMMA MoveType ==
  ASSUME OrdersTypeOK, NEW o \in Orders, NEW next \in OrderStatuses,
         NEW event \in EventTypes, Move(o, next, event)
  PROVE  /\ status' \in [Orders -> OrderStatuses]
         /\ history' \in [Orders -> Seq(HistoryRows)]
         /\ outbox' \in [Orders -> Seq(OutboxRows)]
<1>1. status' \in [Orders -> OrderStatuses]
  BY DEF OrdersTypeOK, Move
<1>2. history' \in [Orders -> Seq(HistoryRows)]
  <2>1. <<status[o], next>> \in HistoryRows
    BY DEF OrdersTypeOK, HistoryRows
  <2>2. Append(history[o], <<status[o], next>>) \in Seq(HistoryRows)
    BY <2>1 DEF OrdersTypeOK
  <2> QED BY <2>2 DEF OrdersTypeOK, Move
<1>3. outbox' \in [Orders -> Seq(OutboxRows)]
  <2>1. <<event, next>> \in OutboxRows
    BY DEF OutboxRows
  <2>2. Append(outbox[o], <<event, next>>) \in Seq(OutboxRows)
    BY <2>1 DEF OrdersTypeOK
  <2> QED BY <2>2 DEF OrdersTypeOK, Move
<1> QED BY <1>1, <1>2, <1>3

\* A request that leaves the order where it is keeps the types.
LEMMA StayType ==
  ASSUME OrdersTypeOK, Stay
  PROVE  /\ status' \in [Orders -> OrderStatuses]
         /\ history' \in [Orders -> Seq(HistoryRows)]
         /\ outbox' \in [Orders -> Seq(OutboxRows)]
BY DEF OrdersTypeOK, Stay

\* The initial states are well typed.
LEMMA InitType == Init => TypeOK
<1> SUFFICES ASSUME Init PROVE TypeOK
  OBVIOUS
<1>1. OrdersTypeOK
  <2>1. \A o \in Orders : InitialStatus(o) \in OrderStatuses
    BY DEF InitialStatus, OrderStatuses
  <2>2. status \in [Orders -> OrderStatuses]
    BY <2>1 DEF Init, OrdersInit
  <2>3. payStatus \in [Orders -> PayStatuses]
    BY DEF Init, OrdersInit, PayStatuses
  <2>4. history \in [Orders -> Seq(HistoryRows)]
    <3>1. \A o \in Orders : <<"none", InitialStatus(o)>> \in HistoryRows
      BY <2>1 DEF HistoryRows
    <3>2. \A o \in Orders : << <<"none", InitialStatus(o)>> >> \in Seq(HistoryRows)
      BY <3>1
    <3> QED BY <3>2 DEF Init, OrdersInit
  <2>5. outbox \in [Orders -> Seq(OutboxRows)]
    <3>1. /\ <<"order.placed", "placed">> \in OutboxRows
          /\ <<"order.confirmed", "placed">> \in OutboxRows
      BY DEF OutboxRows, EventTypes, OrderStatuses
    <3>2. /\ << <<"order.placed", "placed">> >> \in Seq(OutboxRows)
          /\ << <<"order.confirmed", "placed">> >> \in Seq(OutboxRows)
          /\ << >> \in Seq(OutboxRows)
      BY <3>1
    <3>3. \A o \in Orders : InitialEvents(o) \in Seq(OutboxRows)
      BY <3>2 DEF InitialEvents
    <3> QED BY <3>3 DEF Init, OrdersInit
  <2>6. cancelling \in SUBSET Orders
    BY DEF Init, OrdersInit
  <2> QED BY <2>2, <2>3, <2>4, <2>5, <2>6 DEF OrdersTypeOK
<1>2. DeliveriesTypeOK
  BY DEF Init, DeliveriesInit, DeliveriesTypeOK
<1>3. PaymentsTypeOK
  BY DEF Init, PaymentsInit, PaymentsTypeOK
<1>4. RefundsTypeOK
  BY RefundsAssumption DEF Init, RefundsInit, RefundsTypeOK
<1> QED BY <1>1, <1>2, <1>3, <1>4 DEF TypeOK

\* A step of OrdersService keeps the order variables typed.
LEMMA OrdersStepType == OrdersTypeOK /\ OrdersNext => OrdersTypeOK'
<1> SUFFICES ASSUME OrdersTypeOK, NEW o \in Orders,
                    \/ \E next \in OrderStatuses : UpdateStatus(o, next)
                    \/ CheckCancellable(o)
                    \/ CancelByCustomer(o)
             PROVE  OrdersTypeOK'
  BY DEF OrdersNext
<1>1. ASSUME NEW next \in OrderStatuses, UpdateStatus(o, next) PROVE OrdersTypeOK'
  <2>1. Move(o, next, "order.status_changed") /\ "order.status_changed" \in EventTypes
    BY <1>1 DEF UpdateStatus, EventTypes
  <2>2. /\ status' \in [Orders -> OrderStatuses]
        /\ history' \in [Orders -> Seq(HistoryRows)]
        /\ outbox' \in [Orders -> Seq(OutboxRows)]
    BY <2>1, MoveType
  <2> QED BY <1>1, <2>2 DEF UpdateStatus, OrdersTypeOK
<1>2. ASSUME CheckCancellable(o) PROVE OrdersTypeOK'
  BY <1>2 DEF CheckCancellable, OrdersTypeOK
<1>3. ASSUME CancelByCustomer(o) PROVE OrdersTypeOK'
  <2>1. "cancelled" \in OrderStatuses /\ "order.status_changed" \in EventTypes
    BY DEF OrderStatuses, EventTypes
  <2>2. Move(o, "cancelled", "order.status_changed") \/ Stay
    BY <1>3 DEF CancelByCustomer
  <2>3. /\ status' \in [Orders -> OrderStatuses]
        /\ history' \in [Orders -> Seq(HistoryRows)]
        /\ outbox' \in [Orders -> Seq(OutboxRows)]
    BY <2>1, <2>2, MoveType, StayType
  <2> QED BY <1>3, <2>3 DEF CancelByCustomer, OrdersTypeOK
<1> QED BY <1>1, <1>2, <1>3

\* The order status a delivery step implies is an order status.
LEMMA OrderAfterType ==
  ASSUME OrdersTypeOK, NEW o \in Orders, NEW next
  PROVE  OrderAfter(o, next) \in OrderStatuses
BY DEF OrdersTypeOK, OrderAfter, OrderStatuses

\* A step of DeliveriesService keeps orders and deliveries typed.
LEMMA DeliveriesStepType ==
  ASSUME OrdersTypeOK, DeliveriesTypeOK, DeliveriesNext
  PROVE  OrdersTypeOK' /\ DeliveriesTypeOK'
<1>e. "order.status_changed" \in EventTypes /\ "driver_assigned" \in OrderStatuses
  BY DEF EventTypes, OrderStatuses
<1>u. ASSUME UNCHANGED orderVars PROVE OrdersTypeOK'
  BY <1>u DEF orderVars, OrdersTypeOK
<1>1. ASSUME NEW o \in Orders, NEW d \in Drivers, Assign(o, d)
      PROVE  OrdersTypeOK' /\ DeliveriesTypeOK'
  <2>1. Move(o, "driver_assigned", "order.status_changed") \/ Stay
    BY <1>1 DEF Assign
  <2>2. /\ status' \in [Orders -> OrderStatuses]
        /\ history' \in [Orders -> Seq(HistoryRows)]
        /\ outbox' \in [Orders -> Seq(OutboxRows)]
    BY <1>e, <2>1, MoveType, StayType
  <2>3. OrdersTypeOK'
    BY <1>1, <2>2 DEF Assign, OrdersTypeOK
  <2>4. DeliveriesTypeOK'
    BY <1>1 DEF Assign, DeliveriesTypeOK, AssignmentStatuses, TrackingStatuses
  <2> QED BY <2>3, <2>4
<1>2. ASSUME NEW o \in Orders, NEW next \in AssignmentStatuses, Transition(o, next)
      PROVE  OrdersTypeOK' /\ DeliveriesTypeOK'
  <2>1. Move(o, OrderAfter(o, next), "order.status_changed") \/ Stay
    BY <1>2 DEF Transition
  <2>2. /\ status' \in [Orders -> OrderStatuses]
        /\ history' \in [Orders -> Seq(HistoryRows)]
        /\ outbox' \in [Orders -> Seq(OutboxRows)]
    BY <1>e, <2>1, OrderAfterType, MoveType, StayType
  <2>3. OrdersTypeOK'
    BY <1>2, <2>2 DEF Transition, OrdersTypeOK
  <2>4. DeliveriesTypeOK'
    BY <1>2 DEF Transition, DeliveriesTypeOK
  <2> QED BY <2>3, <2>4
<1>3. ASSUME NEW o \in Orders, ReadLocation(o)
      PROVE  OrdersTypeOK' /\ DeliveriesTypeOK'
  BY <1>3, <1>u DEF ReadLocation, DeliveriesTypeOK
<1>4. ASSUME NEW o \in Orders, SaveLocation(o)
      PROVE  OrdersTypeOK' /\ DeliveriesTypeOK'
  BY <1>4, <1>u DEF SaveLocation, DeliveriesTypeOK
<1>5. ASSUME NEW d \in Drivers, CheckDriverIdle(d)
      PROVE  OrdersTypeOK' /\ DeliveriesTypeOK'
  BY <1>5, <1>u DEF CheckDriverIdle, DeliveriesTypeOK
<1>6. ASSUME NEW d \in Drivers, DeactivateDriver(d)
      PROVE  OrdersTypeOK' /\ DeliveriesTypeOK'
  BY <1>6, <1>u DEF DeactivateDriver, DeliveriesTypeOK
<1>7. ASSUME NEW d \in Drivers, NEW isActive \in BOOLEAN, UpdateDriver(d, isActive)
      PROVE  OrdersTypeOK' /\ DeliveriesTypeOK'
  BY <1>7, <1>u DEF UpdateDriver, DeliveriesTypeOK
<1>8. ASSUME NEW d \in Drivers, CreateDriver(d)
      PROVE  OrdersTypeOK' /\ DeliveriesTypeOK'
  BY <1>8, <1>u DEF CreateDriver, DeliveriesTypeOK
<1> QED BY <1>1, <1>2, <1>3, <1>4, <1>5, <1>6, <1>7, <1>8 DEF DeliveriesNext

\* The effects of a snapshot on its order keep the order variables typed.
LEMMA OrderCapturedType ==
  ASSUME OrdersTypeOK, NEW o \in Orders, OrderCaptured(o), UNCHANGED cancelling
  PROVE  OrdersTypeOK'
<1>1. "placed" \in OrderStatuses /\ "order.confirmed" \in EventTypes
  BY DEF OrderStatuses, EventTypes
<1>2. Move(o, "placed", "order.confirmed") \/ Stay
  BY DEF OrderCaptured
<1>3. /\ status' \in [Orders -> OrderStatuses]
      /\ history' \in [Orders -> Seq(HistoryRows)]
      /\ outbox' \in [Orders -> Seq(OutboxRows)]
  BY <1>1, <1>2, MoveType, StayType
<1>4. payStatus' \in [Orders -> PayStatuses]
  BY DEF OrderCaptured, OrdersTypeOK, PayStatuses
<1> QED BY <1>3, <1>4 DEF OrdersTypeOK

\* A checkout that ends without a capture keeps the types of the order.
LEMMA OrderNotCapturedType ==
  ASSUME OrdersTypeOK, NEW o \in Orders, NEW s, OrderNotCaptured(o, s),
         UNCHANGED cancelling
  PROVE  OrdersTypeOK'
<1>1. /\ status' \in [Orders -> OrderStatuses]
      /\ history' \in [Orders -> Seq(HistoryRows)]
      /\ outbox' \in [Orders -> Seq(OutboxRows)]
  BY StayType DEF OrderNotCaptured
<1>2. payStatus' \in [Orders -> PayStatuses]
  BY DEF OrderNotCaptured, OrdersTypeOK, PayStatuses
<1> QED BY <1>1, <1>2 DEF OrdersTypeOK

\* A step of PaymentsService or the provider keeps orders and payments typed;
\* it leaves the deliveries alone.
LEMMA PaymentsStepType ==
  ASSUME OrdersTypeOK, PaymentsTypeOK, PaymentsNext
  PROVE  OrdersTypeOK' /\ PaymentsTypeOK' /\ UNCHANGED deliveryVars
<1>u. ASSUME UNCHANGED orderVars PROVE OrdersTypeOK'
  BY <1>u DEF orderVars, OrdersTypeOK
<1>1. ASSUME NEW t \in Txns, NEW o \in Orders, CreateCheckout(o, t)
      PROVE  OrdersTypeOK' /\ PaymentsTypeOK' /\ UNCHANGED deliveryVars
  BY <1>1, <1>u DEF CreateCheckout, PaymentsTypeOK, TxnStatuses, ProviderStatuses
<1>2. ASSUME NEW t \in Txns, NEW s \in ProviderStatuses, ProviderSettles(t, s)
      PROVE  OrdersTypeOK' /\ PaymentsTypeOK' /\ UNCHANGED deliveryVars
  BY <1>2, <1>u DEF ProviderSettles, PaymentsTypeOK
<1>3. ASSUME NEW t \in Txns, FetchCheckout(t)
      PROVE  OrdersTypeOK' /\ PaymentsTypeOK' /\ UNCHANGED deliveryVars
  BY <1>3, <1>u DEF FetchCheckout, PaymentsTypeOK
<1>4. ASSUME NEW t \in Txns, NEW s \in ProviderStatuses, SynchronizeCheckout(t, s)
      PROVE  OrdersTypeOK' /\ PaymentsTypeOK' /\ UNCHANGED deliveryVars
  <2>0. /\ snapshots' \in SUBSET (Txns \X ProviderStatuses)
        /\ webhookEvents' \in SUBSET (Txns \X ProviderStatuses)
        /\ UNCHANGED <<cancelling, txnOrder, checkout>>
        /\ UNCHANGED deliveryVars
    BY <1>4 DEF SynchronizeCheckout, PaymentsTypeOK
  <2>1. CASE UNCHANGED <<status, payStatus, history, outbox, txnStatus, receipts>>
    BY <2>0, <2>1, <1>u DEF PaymentsTypeOK, orderVars
  <2>2. CASE ApplySnapshot(t, s)
    <3>1. txnStatus' \in [Txns -> TxnStatuses \cup {"none"}]
      BY <2>2 DEF ApplySnapshot, PaymentsTypeOK, TxnStatuses
    <3>2. PICK o \in txnOrder[t] :
            IF s = "captured"
            THEN OrderCaptured(o) /\ receipts' = receipts \cup {t}
            ELSE OrderNotCaptured(o, s) /\ UNCHANGED receipts
      BY <2>2 DEF ApplySnapshot
    <3>3. o \in Orders
      BY DEF PaymentsTypeOK
    <3>4. OrdersTypeOK'
      BY <2>0, <3>2, <3>3, OrderCapturedType, OrderNotCapturedType
    <3>5. receipts' \in SUBSET Txns
      BY <3>2 DEF PaymentsTypeOK
    <3> QED BY <2>0, <3>1, <3>4, <3>5 DEF PaymentsTypeOK
  <2> QED BY <1>4, <2>1, <2>2 DEF SynchronizeCheckout
<1>5. ASSUME NEW t \in Txns, NEW o \in Orders, NEW collector \in Drivers \cup {Staff},
             CollectOnDelivery(o, t, collector)
      PROVE  OrdersTypeOK' /\ PaymentsTypeOK' /\ UNCHANGED deliveryVars
  <2>1. OrdersTypeOK'
    BY <1>5 DEF CollectOnDelivery, Stay, OrdersTypeOK, PayStatuses
  <2>2. PaymentsTypeOK' /\ UNCHANGED deliveryVars
    BY <1>5 DEF CollectOnDelivery, PaymentsTypeOK, TxnStatuses, ProviderStatuses
  <2> QED BY <2>1, <2>2
<1> QED BY <1>1, <1>2, <1>3, <1>4, <1>5 DEF PaymentsNext

\* A step of RefundsService keeps orders, payments and refunds typed.
LEMMA RefundsStepType ==
  ASSUME OrdersTypeOK, PaymentsTypeOK, RefundsTypeOK, RefundsNext
  PROVE  /\ OrdersTypeOK' /\ PaymentsTypeOK' /\ RefundsTypeOK'
         /\ UNCHANGED deliveryVars
<1>u. ASSUME UNCHANGED <<orderVars, paymentVars>> PROVE OrdersTypeOK' /\ PaymentsTypeOK'
  BY <1>u DEF orderVars, OrdersTypeOK, paymentVars, PaymentsTypeOK
<1>r. ASSUME NEW t \in Txns, ProviderReturns(t)
      PROVE  returned' \in SUBSET Txns
  BY <1>r DEF ProviderReturns, RefundsTypeOK
<1>1. ASSUME NEW r \in RefundIds, NEW o \in Orders, NEW t \in Txns,
             NEW amount \in 1 .. Amount, RequestRefund(r, o, t, amount)
      PROVE  /\ OrdersTypeOK' /\ PaymentsTypeOK' /\ RefundsTypeOK'
             /\ UNCHANGED deliveryVars
  BY <1>1, <1>u, RefundsAssumption DEF RequestRefund, RefundsTypeOK, RefundStatuses
<1>2. ASSUME NEW r \in RefundIds, NEW t \in Txns, ApproveRefund(r, t)
      PROVE  /\ OrdersTypeOK' /\ PaymentsTypeOK' /\ RefundsTypeOK'
             /\ UNCHANGED deliveryVars
  <2>1. PICK next \in {"refunded", "partially_refunded"} :
          /\ txnStatus' = [txnStatus EXCEPT ![t] = next]
          /\ \E o \in txnOrder[t] : payStatus' = [payStatus EXCEPT ![o] = next]
    BY <1>2 DEF ApproveRefund
  <2>2. OrdersTypeOK'
    <3>1. payStatus' \in [Orders -> PayStatuses]
      BY <2>1 DEF OrdersTypeOK, PaymentsTypeOK, PayStatuses
    <3> QED BY <1>2, <3>1 DEF ApproveRefund, Stay, OrdersTypeOK
  <2>3. PaymentsTypeOK'
    BY <1>2, <2>1 DEF ApproveRefund, PaymentsTypeOK, TxnStatuses
  <2>4. RefundsTypeOK'
    BY <1>2, <1>r DEF ApproveRefund, RefundsTypeOK, RefundStatuses
  <2> QED BY <1>2, <2>2, <2>3, <2>4 DEF ApproveRefund
<1>3. ASSUME NEW r \in RefundIds, NEW t \in Txns, ApproveFails(r, t)
      PROVE  /\ OrdersTypeOK' /\ PaymentsTypeOK' /\ RefundsTypeOK'
             /\ UNCHANGED deliveryVars
  BY <1>3, <1>u, <1>r DEF ApproveFails, RefundsTypeOK
<1>4. ASSUME NEW r \in RefundIds, NEW t \in Txns, ApproveCrashes(r, t)
      PROVE  /\ OrdersTypeOK' /\ PaymentsTypeOK' /\ RefundsTypeOK'
             /\ UNCHANGED deliveryVars
  BY <1>4, <1>u, <1>r DEF ApproveCrashes, RefundsTypeOK
<1>5. ASSUME NEW r \in RefundIds, MarkFailed(r)
      PROVE  /\ OrdersTypeOK' /\ PaymentsTypeOK' /\ RefundsTypeOK'
             /\ UNCHANGED deliveryVars
  BY <1>5, <1>u DEF MarkFailed, RefundsTypeOK, RefundStatuses
<1> QED BY <1>1, <1>2, <1>3, <1>4, <1>5 DEF RefundsNext

\* Every step of the system keeps every variable typed.
LEMMA NextType == TypeOK /\ [Next]_vars => TypeOK'
<1> SUFFICES ASSUME TypeOK, [Next]_vars PROVE TypeOK'
  OBVIOUS
<1> USE DEF TypeOK
<1>d. ASSUME UNCHANGED deliveryVars PROVE DeliveriesTypeOK'
  BY <1>d DEF deliveryVars, DeliveriesTypeOK
<1>p. ASSUME UNCHANGED paymentVars PROVE PaymentsTypeOK'
  BY <1>p DEF paymentVars, PaymentsTypeOK
<1>r. ASSUME UNCHANGED refundVars PROVE RefundsTypeOK'
  BY <1>r DEF refundVars, RefundsTypeOK
<1>1. CASE OrdersNext /\ UNCHANGED <<deliveryVars, paymentVars, refundVars>>
  BY <1>1, <1>d, <1>p, <1>r, OrdersStepType
<1>2. CASE DeliveriesNext /\ UNCHANGED <<paymentVars, refundVars>>
  BY <1>2, <1>p, <1>r, DeliveriesStepType
<1>3. CASE PaymentsNext /\ UNCHANGED refundVars
  BY <1>3, <1>d, <1>r, PaymentsStepType
<1>4. CASE RefundsNext
  BY <1>4, <1>d, RefundsStepType
<1>5. CASE UNCHANGED vars
  <2>1. OrdersTypeOK'
    BY <1>5 DEF vars, orderVars, OrdersTypeOK
  <2> QED BY <1>5, <2>1, <1>d, <1>p, <1>r DEF vars
<1> QED BY <1>1, <1>2, <1>3, <1>4, <1>5 DEF Next

\* Every variable keeps its type in every reachable state.
THEOREM TypeCorrect == Spec => []TypeOK
<1>1. Init => TypeOK
  BY InitType
<1>2. TypeOK /\ [Next]_vars => TypeOK'
  BY NextType
<1> QED BY <1>1, <1>2, PTL DEF Spec

-----------------------------------------------------------------------------
(* Every order move in the system.                                          *)

\* Whoever moves an order, staff, customer, driver or payment, makes a move that
\* OrdersService would accept, and only placing a waiting order confirms it.
MovesAnOrder ==
  \/ Stay
  \/ \E o \in Orders, next \in OrderStatuses :
       Allowed(o, next) /\ Move(o, next, "order.status_changed")
  \/ \E o \in Orders :
       status[o] = "pending_payment" /\ Move(o, "placed", "order.confirmed")

\* The steps of DeliveriesService and PaymentsService, which do not consult
\* TRANSITIONS, keep to it as well.
LEMMA StepMovesAnOrder == TypeOK /\ [Next]_vars => MovesAnOrder
<1> SUFFICES ASSUME TypeOK, [Next]_vars PROVE MovesAnOrder
  OBVIOUS
<1>u. ASSUME UNCHANGED orderVars PROVE MovesAnOrder
  BY <1>u DEF orderVars, MovesAnOrder, Stay
<1>1. CASE OrdersNext
  <2>1. ASSUME NEW o \in Orders, NEW next \in OrderStatuses, UpdateStatus(o, next)
        PROVE  MovesAnOrder
    BY <2>1 DEF UpdateStatus, MovesAnOrder
  <2>2. ASSUME NEW o \in Orders, CheckCancellable(o) PROVE MovesAnOrder
    BY <2>2 DEF CheckCancellable, MovesAnOrder, Stay
  <2>3. ASSUME NEW o \in Orders, CancelByCustomer(o) PROVE MovesAnOrder
    BY <2>3 DEF CancelByCustomer, MovesAnOrder, OrderStatuses
  <2> QED BY <1>1, <2>1, <2>2, <2>3 DEF OrdersNext
<1>2. CASE DeliveriesNext
  <2>1. ASSUME NEW o \in Orders, NEW d \in Drivers, Assign(o, d) PROVE MovesAnOrder
    <3>1. status[o] = "ready" => Allowed(o, "driver_assigned")
      BY DEF Allowed, TRANSITIONS
    <3> QED BY <2>1, <3>1 DEF Assign, MovesAnOrder, OrderStatuses
  <2>2. ASSUME NEW o \in Orders, NEW next \in AssignmentStatuses, Transition(o, next)
        PROVE  MovesAnOrder
    <3>1. OrderAfter(o, next) # status[o] => Allowed(o, OrderAfter(o, next))
      BY DEF OrderAfter, Allowed, TRANSITIONS
    <3>2. OrderAfter(o, next) \in OrderStatuses
      BY OrderAfterType DEF TypeOK
    <3> QED BY <2>2, <3>1, <3>2 DEF Transition, MovesAnOrder
  <2>3. ASSUME NEW o \in Orders, ReadLocation(o) \/ SaveLocation(o) PROVE MovesAnOrder
    BY <2>3, <1>u DEF ReadLocation, SaveLocation
  <2>4. ASSUME NEW d \in Drivers, NEW isActive \in BOOLEAN,
               \/ CreateDriver(d) \/ CheckDriverIdle(d)
               \/ DeactivateDriver(d) \/ UpdateDriver(d, isActive)
        PROVE  MovesAnOrder
    BY <2>4, <1>u DEF CreateDriver, CheckDriverIdle, DeactivateDriver, UpdateDriver
  <2> QED BY <1>2, <2>1, <2>2, <2>3, <2>4 DEF DeliveriesNext
<1>3. CASE PaymentsNext
  <2>1. ASSUME NEW t \in Txns, NEW o \in Orders, CreateCheckout(o, t) PROVE MovesAnOrder
    BY <2>1, <1>u DEF CreateCheckout
  <2>2. ASSUME NEW t \in Txns, NEW s \in ProviderStatuses, SynchronizeCheckout(t, s)
        PROVE  MovesAnOrder
    <3>1. CASE ApplySnapshot(t, s)
      <4>1. \A o \in txnOrder[t] : o \in Orders
        BY DEF TypeOK, PaymentsTypeOK
      <4> QED BY <3>1, <4>1 DEF ApplySnapshot, OrderCaptured, OrderNotCaptured, MovesAnOrder
    <3>2. CASE UNCHANGED <<status, history, outbox>>
      BY <3>2 DEF MovesAnOrder, Stay
    <3> QED BY <2>2, <3>1, <3>2 DEF SynchronizeCheckout
  <2>3. ASSUME NEW t \in Txns, NEW o \in Orders, NEW collector \in Drivers \cup {Staff},
               CollectOnDelivery(o, t, collector)
        PROVE  MovesAnOrder
    BY <2>3 DEF CollectOnDelivery, MovesAnOrder
  <2>4. ASSUME NEW t \in Txns, FetchCheckout(t) PROVE MovesAnOrder
    BY <2>4, <1>u DEF FetchCheckout
  <2>5. ASSUME NEW t \in Txns, NEW s \in ProviderStatuses, ProviderSettles(t, s)
        PROVE  MovesAnOrder
    BY <2>5, <1>u DEF ProviderSettles
  <2> QED BY <1>3, <2>1, <2>2, <2>3, <2>4, <2>5 DEF PaymentsNext
<1>4. CASE RefundsNext
  <2>1. ASSUME NEW r \in RefundIds, NEW o \in Orders, NEW t \in Txns,
               NEW amount \in 1 .. Amount, RequestRefund(r, o, t, amount)
        PROVE  MovesAnOrder
    BY <2>1, <1>u DEF RequestRefund
  <2>2. ASSUME NEW r \in RefundIds, NEW t \in Txns, ApproveRefund(r, t)
        PROVE  MovesAnOrder
    BY <2>2 DEF ApproveRefund, MovesAnOrder
  <2>3. ASSUME NEW r \in RefundIds, NEW t \in Txns, ApproveFails(r, t) \/ ApproveCrashes(r, t)
        PROVE  MovesAnOrder
    BY <2>3, <1>u DEF ApproveFails, ApproveCrashes
  <2>4. ASSUME NEW r \in RefundIds, MarkFailed(r) PROVE MovesAnOrder
    BY <2>4, <1>u DEF MarkFailed
  <2> QED BY <1>4, <2>1, <2>2, <2>3, <2>4 DEF RefundsNext
<1>5. CASE UNCHANGED vars
  BY <1>5, <1>u DEF vars
<1> QED BY <1>1, <1>2, <1>3, <1>4, <1>5 DEF Next

\* An order always has a row in its history: the one checkout writes.
HistoryInv == HistoryFollowsTheTable /\ \A o \in Orders : history[o] # << >>

\* Checkout's row is not a move, and every later row is one.
THEOREM HistoryCorrect == Spec => []HistoryFollowsTheTable
<1>1. Init => HistoryInv
  BY DEF Init, OrdersInit, HistoryInv, HistoryFollowsTheTable
<1>2. TypeOK /\ HistoryInv /\ [Next]_vars => HistoryInv'
  <2> SUFFICES ASSUME TypeOK, HistoryInv, [Next]_vars PROVE HistoryInv'
    OBVIOUS
  <2>1. CASE Stay
    BY <2>1 DEF Stay, HistoryInv, HistoryFollowsTheTable
  <2>2. ASSUME NEW o \in Orders, NEW next \in OrderStatuses, NEW event,
               \/ Allowed(o, next)
               \/ status[o] = "pending_payment" /\ next = "placed",
               Move(o, next, event)
        PROVE  HistoryInv'
    <3>1. \/ <<status[o], next>> \in TRANSITIONS
          \/ <<status[o], next>> = <<"ready", "closed">> /\ OrderType[o] \in AtRestaurant
      BY <2>2 DEF Allowed, TRANSITIONS
    <3>2. /\ status' = [status EXCEPT ![o] = next]
          /\ \A p \in Orders \ {o} : history'[p] = history[p] /\ status'[p] = status[p]
          /\ history'[o] = Append(history[o], <<status[o], next>>)
          /\ status'[o] = next
      BY <2>2 DEF Move, TypeOK, OrdersTypeOK
    <3>3. history[o] \in Seq(HistoryRows)
      BY DEF TypeOK, OrdersTypeOK
    <3>4. /\ Len(history'[o]) = Len(history[o]) + 1
          /\ history'[o][Len(history[o]) + 1] = <<status[o], next>>
          /\ \A i \in 1 .. Len(history[o]) : history'[o][i] = history[o][i]
          /\ Len(history[o]) \in Nat
          /\ history'[o] # << >>
      BY <3>2, <3>3
    <3>5. \A i \in 2 .. Len(history'[o]) :
            \/ history'[o][i] \in TRANSITIONS
            \/ history'[o][i] = <<"ready", "closed">> /\ OrderType[o] \in AtRestaurant
      <4> TAKE i \in 2 .. Len(history'[o])
      <4>1. CASE i = Len(history[o]) + 1
        BY <4>1, <3>1, <3>4
      <4>2. CASE i \in 2 .. Len(history[o])
        BY <4>2, <3>4 DEF HistoryInv, HistoryFollowsTheTable
      <4> QED BY <4>1, <4>2, <3>4
    <3>6. history'[o][Len(history'[o])][2] = status'[o]
      BY <3>2, <3>4
    <3>7. ASSUME NEW p \in Orders, p # o
          PROVE  /\ history'[p] # << >>
                 /\ history'[p][Len(history'[p])][2] = status'[p]
                 /\ \A i \in 2 .. Len(history'[p]) :
                      \/ history'[p][i] \in TRANSITIONS
                      \/ history'[p][i] = <<"ready", "closed">> /\ OrderType[p] \in AtRestaurant
      BY <3>2, <3>7 DEF HistoryInv, HistoryFollowsTheTable
    <3>8. (\A p \in Orders : history[p] # << >>)'
      BY <3>4, <3>7
    <3>9. HistoryFollowsTheTable'
      BY <3>5, <3>6, <3>7 DEF HistoryFollowsTheTable
    <3> QED BY <3>8, <3>9 DEF HistoryInv
  <2>3. "placed" \in OrderStatuses
    BY DEF OrderStatuses
  <2>4. MovesAnOrder
    BY StepMovesAnOrder
  <2> QED BY <2>1, <2>2, <2>3, <2>4 DEF MovesAnOrder
<1>3. HistoryInv => HistoryFollowsTheTable
  BY DEF HistoryInv
<1> QED BY <1>1, <1>2, <1>3, TypeCorrect, PTL DEF Spec

\* An order that waits for payment has not been confirmed.
WaitingIsUnconfirmed ==
  \A o \in Orders :
    status[o] = "pending_payment" =>
      \A i \in 1 .. Len(outbox[o]) : outbox[o][i][1] # "order.confirmed"

\* Only the capture of a waiting order confirms, and no move makes an order wait
\* for payment again.
ConfirmationInv == ConfirmedAtMostOnce /\ WaitingIsUnconfirmed

\* The customer gets one confirmation, whichever of the checkouts of the order
\* is captured, however often its webhook comes.
THEOREM ConfirmedOnce == Spec => []ConfirmedAtMostOnce
<1>1. Init => ConfirmationInv
  <2> SUFFICES ASSUME Init, NEW o \in Orders
               PROVE  /\ \A i, j \in 1 .. Len(outbox[o]) : i = j
                      /\ status[o] = "pending_payment" => Len(outbox[o]) = 0
    BY DEF ConfirmationInv, ConfirmedAtMostOnce, WaitingIsUnconfirmed
  <2>1. status[o] = InitialStatus(o) /\ outbox[o] = InitialEvents(o)
    BY DEF Init, OrdersInit
  <2>2. CASE o \in PosOrders \/ InitialStatus(o) = "placed"
    <3>1. Len(outbox[o]) = 1
      BY <2>1, <2>2 DEF InitialEvents
    <3>2. status[o] = "placed"
      BY <2>1, <2>2, OrdersAssumption DEF InitialStatus
    <3> QED BY <3>1, <3>2
  <2>3. CASE o \notin PosOrders /\ InitialStatus(o) # "placed"
    BY <2>1, <2>3 DEF InitialEvents
  <2> QED BY <2>2, <2>3
<1>2. TypeOK /\ ConfirmationInv /\ [Next]_vars => ConfirmationInv'
  <2> SUFFICES ASSUME TypeOK, ConfirmationInv, [Next]_vars PROVE ConfirmationInv'
    OBVIOUS
  <2>1. CASE Stay
    BY <2>1 DEF Stay, ConfirmationInv, ConfirmedAtMostOnce, WaitingIsUnconfirmed
  <2>2. ASSUME NEW o \in Orders, NEW next \in OrderStatuses, NEW event,
               next # "pending_payment",
               event = "order.confirmed" => status[o] = "pending_payment",
               Move(o, next, event)
        PROVE  ConfirmationInv'
    <3>1. /\ \A p \in Orders \ {o} : outbox'[p] = outbox[p] /\ status'[p] = status[p]
          /\ outbox'[o] = Append(outbox[o], <<event, next>>)
          /\ status'[o] = next
      BY <2>2 DEF Move, TypeOK, OrdersTypeOK
    <3>2. outbox[o] \in Seq(OutboxRows)
      BY DEF TypeOK, OrdersTypeOK
    <3>3. /\ Len(outbox'[o]) = Len(outbox[o]) + 1
          /\ outbox'[o][Len(outbox[o]) + 1] = <<event, next>>
          /\ \A i \in 1 .. Len(outbox[o]) : outbox'[o][i] = outbox[o][i]
          /\ Len(outbox[o]) \in Nat
      BY <3>1, <3>2
    <3>4. event = "order.confirmed" =>
            \A i \in 1 .. Len(outbox[o]) : outbox[o][i][1] # "order.confirmed"
      BY <2>2 DEF ConfirmationInv, WaitingIsUnconfirmed
    <3>5. ASSUME NEW i \in 1 .. Len(outbox'[o]), NEW j \in 1 .. Len(outbox'[o]),
                 outbox'[o][i][1] = "order.confirmed", outbox'[o][j][1] = "order.confirmed"
          PROVE  i = j
      <4>1. CASE i \in 1 .. Len(outbox[o]) /\ j \in 1 .. Len(outbox[o])
        BY <3>3, <3>5, <4>1 DEF ConfirmationInv, ConfirmedAtMostOnce
      <4>2. CASE i = Len(outbox[o]) + 1 \/ j = Len(outbox[o]) + 1
        BY <3>3, <3>4, <3>5, <4>2
      <4> QED BY <3>3, <4>1, <4>2
    <3>6. ConfirmedAtMostOnce'
      <4>1. ASSUME NEW p \in Orders, p # o,
                   NEW i \in 1 .. Len(outbox'[p]), NEW j \in 1 .. Len(outbox'[p]),
                   outbox'[p][i][1] = "order.confirmed", outbox'[p][j][1] = "order.confirmed"
            PROVE  i = j
        BY <3>1, <4>1 DEF ConfirmationInv, ConfirmedAtMostOnce
      <4> QED BY <3>5, <4>1 DEF ConfirmedAtMostOnce
    <3>7. WaitingIsUnconfirmed'
      <4>1. status'[o] # "pending_payment"
        BY <2>2, <3>1
      <4>2. ASSUME NEW p \in Orders, p # o, status'[p] = "pending_payment",
                   NEW i \in 1 .. Len(outbox'[p])
            PROVE  outbox'[p][i][1] # "order.confirmed"
        BY <3>1, <4>2 DEF ConfirmationInv, WaitingIsUnconfirmed
      <4> QED BY <4>1, <4>2 DEF WaitingIsUnconfirmed
    <3> QED BY <3>6, <3>7 DEF ConfirmationInv
  <2>3. \A o \in Orders : ~ Allowed(o, "pending_payment")
    BY DEF Allowed, TRANSITIONS
  <2>4. "placed" \in OrderStatuses
    BY DEF OrderStatuses
  <2>5. MovesAnOrder
    BY StepMovesAnOrder
  <2> QED BY <2>1, <2>2, <2>3, <2>4, <2>5 DEF MovesAnOrder
<1>3. ConfirmationInv => ConfirmedAtMostOnce
  BY DEF ConfirmationInv
<1> QED BY <1>1, <1>2, <1>3, TypeCorrect, PTL DEF Spec

-----------------------------------------------------------------------------
(* The order and its delivery.                                              *)

\* Only assign and transition write the status of an assignment.
LEMMA StepMovesADelivery ==
  TypeOK /\ [Next]_vars =>
    \/ UNCHANGED assignment
    \/ \E o \in Orders, d \in Drivers : Assign(o, d)
    \/ \E o \in Orders, next \in AssignmentStatuses : Transition(o, next)
<1> SUFFICES ASSUME TypeOK, [Next]_vars
             PROVE  \/ UNCHANGED assignment
                    \/ \E o \in Orders, d \in Drivers : Assign(o, d)
                    \/ \E o \in Orders, next \in AssignmentStatuses : Transition(o, next)
  OBVIOUS
<1>1. CASE UNCHANGED deliveryVars
  BY <1>1 DEF deliveryVars
<1>2. CASE DeliveriesNext
  BY <1>2 DEF DeliveriesNext, ReadLocation, SaveLocation,
              CreateDriver, CheckDriverIdle, DeactivateDriver, UpdateDriver
<1>3. PaymentsNext \/ RefundsNext => UNCHANGED deliveryVars
  BY PaymentsStepType, RefundsStepType DEF TypeOK
<1> QED BY <1>1, <1>2, <1>3 DEF Next, vars

\* An order never returns from the hand-over, and a delivery starts there.
THEOREM DeliveryCorrect == Spec => []DeliveryMatchesOrder
<1>1. Init => DeliveryMatchesOrder
  BY DEF Init, OrdersInit, InitialStatus, DeliveriesInit, DeliveryMatchesOrder, OnTheRoad
<1>2. TypeOK /\ DeliveryMatchesOrder /\ [Next]_vars => DeliveryMatchesOrder'
  <2> SUFFICES ASSUME TypeOK, DeliveryMatchesOrder, [Next]_vars, NEW p \in Orders
               PROVE  /\ assignment'[p] # "none" =>
                           status'[p] \in {"driver_assigned", "out_for_delivery",
                                           "delivered", "closed"}
                      /\ status'[p] = "driver_assigned" =>
                           assignment'[p] \in {"none", "assigned", "accepted", "failed"}
                      /\ assignment'[p] \in OnTheRoad =>
                           status'[p] \in {"out_for_delivery", "delivered", "closed"}
                      /\ assignment'[p] = "delivered" => status'[p] \in {"delivered", "closed"}
    BY DEF DeliveryMatchesOrder
  <2> USE DEF DeliveryMatchesOrder, OnTheRoad
  <2>1. CASE UNCHANGED assignment
    <3>1. \/ status'[p] = status[p]
          \/ Allowed(p, status'[p])
          \/ status[p] = "pending_payment" /\ status'[p] = "placed"
      BY StepMovesAnOrder DEF MovesAnOrder, Stay, Move, TypeOK, OrdersTypeOK
    <3> QED BY <2>1, <3>1 DEF Allowed, TRANSITIONS
  <2>2. ASSUME NEW o \in Orders, NEW d \in Drivers, Assign(o, d)
        PROVE  /\ p # o => assignment'[p] = assignment[p] /\ status'[p] = status[p]
               /\ p = o => assignment'[p] = "assigned" /\ status'[p] = "driver_assigned"
    BY <2>2 DEF Assign, Move, Stay, TypeOK, OrdersTypeOK, DeliveriesTypeOK
  <2>3. ASSUME NEW o \in Orders, NEW next \in AssignmentStatuses, Transition(o, next)
        PROVE  /\ p # o => assignment'[p] = assignment[p] /\ status'[p] = status[p]
               /\ p = o => /\ assignment'[p] = next
                           /\ status'[p] = OrderAfter(p, next)
                           /\ <<assignment[p], next>> \in DELIVERY_TRANSITIONS
                           /\ next # "cancelled"
    <3>1. next # "cancelled"
      BY <2>3 DEF Transition, TrackingFor, TrackingStatuses
    <3>2. assignment' = [assignment EXCEPT ![o] = next]
      BY <2>3 DEF Transition
    <3>3. \/ Move(o, OrderAfter(o, next), "order.status_changed")
          \/ Stay /\ OrderAfter(o, next) = status[o]
      BY <2>3 DEF Transition
    <3>4. <<assignment[o], next>> \in DELIVERY_TRANSITIONS
      BY <2>3 DEF Transition, TransitionAccepted
    <3>5. /\ p # o => status'[p] = status[p]
          /\ p = o => status'[p] = OrderAfter(p, next)
      BY <3>3 DEF Move, Stay, TypeOK, OrdersTypeOK
    <3> QED BY <3>1, <3>2, <3>4, <3>5 DEF TypeOK, DeliveriesTypeOK
  <2>4. ASSUME NEW next \in AssignmentStatuses,
               assignment'[p] = next, status'[p] = OrderAfter(p, next),
               <<assignment[p], next>> \in DELIVERY_TRANSITIONS, next # "cancelled"
        PROVE  /\ assignment'[p] # "none" =>
                    status'[p] \in {"driver_assigned", "out_for_delivery",
                                    "delivered", "closed"}
               /\ status'[p] = "driver_assigned" =>
                    assignment'[p] \in {"none", "assigned", "accepted", "failed"}
               /\ assignment'[p] \in OnTheRoad =>
                    status'[p] \in {"out_for_delivery", "delivered", "closed"}
               /\ assignment'[p] = "delivered" => status'[p] \in {"delivered", "closed"}
    BY <2>4 DEF DELIVERY_TRANSITIONS, OrderAfter
  <2> QED BY <2>1, <2>2, <2>3, <2>4, StepMovesADelivery
<1> QED BY <1>1, <1>2, TypeCorrect, PTL DEF Spec

-----------------------------------------------------------------------------
(* The books.  Each part of the strengthening is the reason one step needs. *)

\* A transaction belongs to one order, and to none before its row exists; a
\* transaction has a receipt only after its row exists.
TxnsAreOwned ==
  \A t \in Txns :
    /\ \A o, p \in txnOrder[t] : o = p
    /\ txnStatus[t] = "none" => txnOrder[t] = {} /\ checkout[t] = "none" /\ t \notin receipts

\* Only card orders have checkouts, and only checkouts have snapshots and
\* refunds; what can be refunded has a receipt.
OnlineIsByCard ==
  /\ \A t \in Txns : checkout[t] # "none" => \A o \in txnOrder[t] : Method[o] = "card"
  /\ \A e \in snapshots : checkout[e[1]] # "none"
  /\ \A r \in RefundIds : \A t \in refundTxn[r] : checkout[t] # "none" /\ t \in receipts

\* An order paid on delivery never waits for payment, and is paid once and for
\* all by its first receipt.
CollectionIsFinal ==
  \A o \in Orders :
    Method[o] \in PayOnDelivery =>
      /\ status[o] # "pending_payment"
      /\ \A t \in receipts : o \in txnOrder[t] => payStatus[o] = "paid"

\* The inductive invariant of the payments.
BooksInv ==
  /\ TxnsAreOwned
  /\ OnlineIsByCard
  /\ CollectionIsFinal
  /\ CapturedHasReceipt
  /\ PaidHasReceipt
  /\ CollectedOnce
  /\ PaidBeforeHandOver

\* Before the first payment the books are in order.
LEMMA BooksInit == Init => BooksInv
<1> SUFFICES ASSUME Init PROVE BooksInv
  OBVIOUS
<1> USE DEF Init, OrdersInit, DeliveriesInit, PaymentsInit, RefundsInit
<1>1. TxnsAreOwned /\ OnlineIsByCard /\ CollectedOnce
  BY DEF TxnsAreOwned, OnlineIsByCard, CollectedOnce
<1>2. CollectionIsFinal
  BY DEF CollectionIsFinal, InitialStatus
<1>3. CapturedHasReceipt /\ PaidBeforeHandOver
  BY DEF CapturedHasReceipt, Captured, PaidBeforeHandOver
<1>4. PaidHasReceipt
  BY DEF PaidHasReceipt, Settled
<1> QED BY <1>1, <1>2, <1>3, <1>4 DEF BooksInv

\* A step that leaves the payments alone moves no order back to the state in
\* which it waits for payment, and hands none over that is not paid.
LEMMA BooksKept ==
  ASSUME TypeOK, BooksInv, MovesAnOrder,
         UNCHANGED <<payStatus, paymentVars, refundVars>>,
         \A o \in Orders :
           assignment'[o] = "delivered" /\ Method[o] \in PayOnDelivery =>
             assignment[o] = "delivered" \/ payStatus[o] = "paid"
  PROVE  BooksInv'
<1>1. \A o \in Orders : status'[o] = "pending_payment" => status[o] = "pending_payment"
  BY DEF MovesAnOrder, Stay, Move, Allowed, TRANSITIONS, TypeOK, OrdersTypeOK
<1>2. UNCHANGED <<payStatus, txnOrder, txnStatus, checkout, snapshots, receipts, refundTxn>>
  BY DEF paymentVars, refundVars
<1>3. TxnsAreOwned' /\ OnlineIsByCard' /\ CollectedOnce' /\ CapturedHasReceipt'
  BY <1>2 DEF BooksInv, TxnsAreOwned, OnlineIsByCard, CollectedOnce, CapturedHasReceipt
<1>4. CollectionIsFinal'
  BY <1>1, <1>2 DEF BooksInv, CollectionIsFinal
<1>5. PaidHasReceipt'
  BY <1>1, <1>2 DEF BooksInv, PaidHasReceipt
<1>6. PaidBeforeHandOver'
  BY <1>2 DEF BooksInv, PaidBeforeHandOver, PaidHasReceipt, Settled
<1> QED BY <1>3, <1>4, <1>5, <1>6 DEF BooksInv

\* createCheckout adds an open transaction, which no receipt is of.
LEMMA BooksCreateCheckout ==
  ASSUME TypeOK, BooksInv, NEW o \in Orders, NEW t \in Txns, CreateCheckout(o, t),
         UNCHANGED refundVars
  PROVE  BooksInv'
<1>1. /\ txnStatus[t] = "none" /\ txnOrder[t] = {} /\ t \notin receipts
      /\ Method[o] = "card"
  BY DEF CreateCheckout, NextTxn, BooksInv, TxnsAreOwned
<1>2. /\ UNCHANGED <<status, payStatus, assignment, snapshots, receipts, refundTxn>>
      /\ txnOrder'[t] = {o} /\ txnStatus'[t] = "pending" /\ checkout'[t] = "pending"
      /\ \A u \in Txns \ {t} : /\ txnOrder'[u] = txnOrder[u]
                               /\ txnStatus'[u] = txnStatus[u]
                               /\ checkout'[u] = checkout[u]
  BY DEF CreateCheckout, orderVars, deliveryVars, refundVars, TypeOK, PaymentsTypeOK
<1>3. /\ receipts \subseteq Txns \ {t}
      /\ \A r \in RefundIds : refundTxn[r] \subseteq Txns
      /\ \A e \in snapshots : e[1] \in Txns
  BY <1>1 DEF TypeOK, PaymentsTypeOK, RefundsTypeOK
<1>4. TxnsAreOwned'
  BY <1>1, <1>2 DEF BooksInv, TxnsAreOwned
<1>5. OnlineIsByCard'
  BY <1>1, <1>2, <1>3 DEF BooksInv, OnlineIsByCard
<1>6. CollectionIsFinal' /\ CollectedOnce' /\ PaidHasReceipt'
  BY <1>2, <1>3 DEF BooksInv, CollectionIsFinal, CollectedOnce, PaidHasReceipt
<1>7. CapturedHasReceipt'
  BY <1>2 DEF BooksInv, CapturedHasReceipt, Captured
<1>8. PaidBeforeHandOver'
  BY <1>2, <1>3 DEF BooksInv, PaidBeforeHandOver
<1> QED BY <1>4, <1>5, <1>6, <1>7, <1>8 DEF BooksInv

\* The provider and the fetch of a snapshot touch none of our rows.
LEMMA BooksProvider ==
  ASSUME TypeOK, BooksInv, NEW t \in Txns, UNCHANGED refundVars,
         FetchCheckout(t) \/ \E s \in ProviderStatuses : ProviderSettles(t, s)
  PROVE  BooksInv'
<1>1. UNCHANGED <<status, payStatus, assignment, txnOrder, txnStatus, receipts, refundTxn>>
  BY DEF FetchCheckout, ProviderSettles, orderVars, deliveryVars, refundVars
<1>2. /\ \A u \in Txns : checkout'[u] = "none" <=> checkout[u] = "none"
      /\ \A e \in snapshots' : e \in snapshots \/ (e[1] = t /\ checkout[t] # "none")
  BY DEF FetchCheckout, ProviderSettles, TypeOK, PaymentsTypeOK
<1>3. /\ \A e \in snapshots : e[1] \in Txns
      /\ \A r \in RefundIds : refundTxn[r] \subseteq Txns
  BY DEF TypeOK, PaymentsTypeOK, RefundsTypeOK
<1>4. TxnsAreOwned'
  BY <1>1, <1>2 DEF BooksInv, TxnsAreOwned
<1>5. OnlineIsByCard'
  BY <1>1, <1>2, <1>3 DEF BooksInv, OnlineIsByCard
<1>6. /\ CollectionIsFinal' /\ CollectedOnce' /\ PaidHasReceipt'
      /\ CapturedHasReceipt' /\ PaidBeforeHandOver'
  BY <1>1 DEF BooksInv, CollectionIsFinal, CollectedOnce, PaidHasReceipt,
              CapturedHasReceipt, PaidBeforeHandOver
<1> QED BY <1>4, <1>5, <1>6 DEF BooksInv

\* A snapshot that is applied writes the receipt with the status, and places the
\* order if it was waiting.
LEMMA BooksSynchronize ==
  ASSUME TypeOK, BooksInv, NEW t \in Txns, NEW s \in ProviderStatuses,
         SynchronizeCheckout(t, s), UNCHANGED refundVars
  PROVE  BooksInv'
<1>1. /\ checkout[t] # "none" /\ txnStatus[t] # "none"
      /\ snapshots' \subseteq snapshots
      /\ UNCHANGED <<assignment, txnOrder, checkout, refundTxn>>
  BY DEF SynchronizeCheckout, deliveryVars, refundVars, BooksInv, OnlineIsByCard, TxnsAreOwned
<1>2. CASE UNCHANGED <<status, payStatus, txnStatus, receipts>>
  BY <1>1, <1>2 DEF BooksInv, TxnsAreOwned, OnlineIsByCard, CollectionIsFinal,
                    CapturedHasReceipt, PaidHasReceipt, CollectedOnce, PaidBeforeHandOver
<1>3. CASE ApplySnapshot(t, s)
  <2>1. PICK o \in txnOrder[t] :
          IF s = "captured"
          THEN OrderCaptured(o) /\ receipts' = receipts \cup {t}
          ELSE OrderNotCaptured(o, s) /\ UNCHANGED receipts
    BY <1>3 DEF ApplySnapshot
  <2>2. o \in Orders /\ Method[o] = "card" /\ "card" \notin PayOnDelivery
    BY <1>1 DEF TypeOK, PaymentsTypeOK, BooksInv, OnlineIsByCard, PayOnDelivery
  <2>3. txnOrder[t] = {o}
    BY DEF BooksInv, TxnsAreOwned
  <2>4. /\ txnStatus' = [txnStatus EXCEPT ![t] = s]
        /\ txnStatus'[t] = s /\ s # "none"
        /\ \A u \in Txns \ {t} : txnStatus'[u] = txnStatus[u]
    BY <1>3 DEF ApplySnapshot, TypeOK, PaymentsTypeOK, ProviderStatuses
  <2>5. /\ \A p \in Orders \ {o} : status'[p] = status[p] /\ payStatus'[p] = payStatus[p]
        /\ receipts \subseteq receipts'
        /\ receipts' \subseteq receipts \cup {t}
        /\ s = "captured" => t \in receipts' /\ status'[o] # "pending_payment"
        /\ s # "captured" => /\ receipts' = receipts /\ status'[o] = status[o]
                             /\ payStatus'[o] \in Settled => payStatus[o] \in Settled
    BY <2>1, <2>2 DEF OrderCaptured, OrderNotCaptured, Move, Stay, Settled,
                      TypeOK, OrdersTypeOK
  <2>6. TxnsAreOwned'
    BY <1>1, <2>4, <2>5 DEF BooksInv, TxnsAreOwned
  <2>7. OnlineIsByCard'
    BY <1>1, <2>5 DEF BooksInv, OnlineIsByCard
  <2>8. CollectionIsFinal' /\ CollectedOnce'
    BY <1>1, <2>2, <2>3, <2>5 DEF BooksInv, CollectionIsFinal, CollectedOnce
  <2>9. CapturedHasReceipt'
    BY <2>4, <2>5 DEF BooksInv, CapturedHasReceipt, Captured, ProviderStatuses
  <2>10. PaidHasReceipt'
    BY <1>1, <2>2, <2>3, <2>5 DEF BooksInv, PaidHasReceipt
  <2>11. PaidBeforeHandOver'
    BY <1>1, <2>5 DEF BooksInv, PaidBeforeHandOver
  <2> QED BY <2>6, <2>7, <2>8, <2>9, <2>10, <2>11 DEF BooksInv
<1> QED BY <1>2, <1>3 DEF SynchronizeCheckout

\* An order is collected only while it is not paid, hence without a receipt.
LEMMA BooksCollect ==
  ASSUME TypeOK, BooksInv, NEW o \in Orders, NEW t \in Txns,
         NEW collector \in Drivers \cup {Staff},
         CollectOnDelivery(o, t, collector), UNCHANGED refundVars
  PROVE  BooksInv'
<1>1. /\ txnStatus[t] = "none" /\ txnOrder[t] = {} /\ checkout[t] = "none"
      /\ t \notin receipts
      /\ Method[o] \in PayOnDelivery
      /\ status[o] # "pending_payment"
      /\ \A u \in receipts : o \notin txnOrder[u]
  BY DEF CollectOnDelivery, NextTxn, BooksInv, TxnsAreOwned, CollectionIsFinal
<1>2. /\ UNCHANGED <<status, assignment, checkout, snapshots, refundTxn>>
      /\ receipts' = receipts \cup {t}
      /\ txnOrder'[t] = {o} /\ txnStatus'[t] = "captured" /\ payStatus'[o] = "paid"
      /\ \A u \in Txns \ {t} : txnOrder'[u] = txnOrder[u] /\ txnStatus'[u] = txnStatus[u]
      /\ \A p \in Orders \ {o} : payStatus'[p] = payStatus[p]
  BY DEF CollectOnDelivery, Stay, deliveryVars, refundVars, TypeOK, OrdersTypeOK, PaymentsTypeOK
<1>3. receipts \subseteq Txns \ {t} /\ \A r \in RefundIds : refundTxn[r] \subseteq Txns
  BY <1>1 DEF TypeOK, PaymentsTypeOK, RefundsTypeOK
<1>4. TxnsAreOwned'
  BY <1>1, <1>2 DEF BooksInv, TxnsAreOwned
<1>5. OnlineIsByCard'
  BY <1>1, <1>2, <1>3 DEF BooksInv, OnlineIsByCard
<1>6. CollectionIsFinal'
  BY <1>1, <1>2, <1>3 DEF BooksInv, CollectionIsFinal
<1>7. CapturedHasReceipt'
  BY <1>2 DEF BooksInv, CapturedHasReceipt
<1>8. PaidHasReceipt'
  BY <1>1, <1>2, <1>3 DEF BooksInv, PaidHasReceipt
<1>9. CollectedOnce'
  BY <1>1, <1>2, <1>3 DEF BooksInv, CollectedOnce
<1>10. PaidBeforeHandOver'
  BY <1>1, <1>2, <1>3 DEF BooksInv, PaidBeforeHandOver
<1> QED BY <1>4, <1>5, <1>6, <1>7, <1>8, <1>9, <1>10 DEF BooksInv

\* Refunds concern captured card payments and leave the receipts.
LEMMA BooksRefunds == TypeOK /\ BooksInv /\ RefundsNext => BooksInv'
<1> SUFFICES ASSUME TypeOK, BooksInv, RefundsNext PROVE BooksInv'
  OBVIOUS
<1>1. ASSUME NEW r \in RefundIds, NEW o \in Orders, NEW t \in Txns,
             NEW amount \in 1 .. Amount, RequestRefund(r, o, t, amount)
      PROVE  BooksInv'
  <2>1. checkout[t] # "none" /\ t \in receipts
    BY <1>1 DEF RequestRefund, LatestPayment, BooksInv, CapturedHasReceipt, Captured
  <2>2. /\ UNCHANGED <<status, payStatus, assignment, txnOrder, txnStatus, checkout,
                       snapshots, receipts>>
        /\ \A q \in RefundIds : refundTxn'[q] = refundTxn[q] \/ refundTxn'[q] = {t}
    BY <1>1 DEF RequestRefund, orderVars, deliveryVars, paymentVars, TypeOK, RefundsTypeOK
  <2>3. OnlineIsByCard'
    BY <2>1, <2>2 DEF BooksInv, OnlineIsByCard
  <2> QED BY <2>2, <2>3 DEF BooksInv, TxnsAreOwned, CollectionIsFinal,
             CapturedHasReceipt, PaidHasReceipt, CollectedOnce, PaidBeforeHandOver
<1>2. ASSUME NEW r \in RefundIds, NEW t \in Txns, ApproveRefund(r, t)
      PROVE  BooksInv'
  <2>1. t \in receipts /\ \A o \in txnOrder[t] : Method[o] = "card"
    BY <1>2 DEF ApproveRefund, Approvable, BooksInv, OnlineIsByCard
  <2>2. /\ UNCHANGED <<status, assignment, txnOrder, checkout, snapshots, receipts,
                       refundTxn>>
        /\ \A u \in Txns \ {t} : txnStatus'[u] = txnStatus[u]
        /\ txnStatus'[t] # "none"
        /\ \A o \in Orders : payStatus'[o] = payStatus[o] \/ o \in txnOrder[t]
    BY <1>2 DEF ApproveRefund, Stay, deliveryVars, TypeOK, OrdersTypeOK, PaymentsTypeOK
  <2>3. "card" \notin PayOnDelivery
    BY DEF PayOnDelivery
  <2>4. TxnsAreOwned' /\ OnlineIsByCard' /\ CollectedOnce' /\ PaidBeforeHandOver'
    BY <2>2 DEF BooksInv, TxnsAreOwned, OnlineIsByCard, CollectedOnce, PaidBeforeHandOver
  <2>5. CollectionIsFinal'
    BY <2>1, <2>2, <2>3 DEF BooksInv, CollectionIsFinal
  <2>6. CapturedHasReceipt' /\ PaidHasReceipt'
    BY <2>1, <2>2 DEF BooksInv, CapturedHasReceipt, PaidHasReceipt
  <2> QED BY <2>4, <2>5, <2>6 DEF BooksInv
<1>3. ASSUME UNCHANGED <<orderVars, deliveryVars, paymentVars, refundTxn>>
      PROVE  BooksInv'
  BY <1>3 DEF orderVars, deliveryVars, paymentVars, BooksInv, TxnsAreOwned,
              OnlineIsByCard, CollectionIsFinal, CapturedHasReceipt, PaidHasReceipt,
              CollectedOnce, PaidBeforeHandOver
<1>4. ASSUME NEW r \in RefundIds, NEW t \in Txns, ApproveFails(r, t) \/ ApproveCrashes(r, t)
      PROVE  BooksInv'
  BY <1>3, <1>4 DEF ApproveFails, ApproveCrashes
<1>5. ASSUME NEW r \in RefundIds, MarkFailed(r) PROVE BooksInv'
  BY <1>3, <1>5 DEF MarkFailed
<1> QED BY <1>1, <1>2, <1>4, <1>5 DEF RefundsNext

\* Every step keeps the books.
LEMMA BooksStep == TypeOK /\ BooksInv /\ [Next]_vars => BooksInv'
<1> SUFFICES ASSUME TypeOK, BooksInv, [Next]_vars PROVE BooksInv'
  OBVIOUS
<1>0. MovesAnOrder
  BY StepMovesAnOrder
<1>1. CASE OrdersNext /\ UNCHANGED <<deliveryVars, paymentVars, refundVars>>
  <2>1. UNCHANGED <<payStatus, assignment>>
    BY <1>1 DEF OrdersNext, UpdateStatus, CheckCancellable, CancelByCustomer, deliveryVars
  <2> QED BY <1>0, <1>1, <2>1, BooksKept
<1>2. CASE DeliveriesNext /\ UNCHANGED <<paymentVars, refundVars>>
  <2>1. UNCHANGED payStatus
    BY <1>2 DEF DeliveriesNext, Assign, Transition, ReadLocation,
                SaveLocation, CreateDriver, CheckDriverIdle, DeactivateDriver,
                UpdateDriver, orderVars
  <2>2. \A o \in Orders :
          assignment'[o] = "delivered" /\ Method[o] \in PayOnDelivery =>
            assignment[o] = "delivered" \/ payStatus[o] = "paid"
    <3>1. ASSUME NEW o \in Orders, NEW d \in Drivers, Assign(o, d)
          PROVE  \A p \in Orders : assignment'[p] = assignment[p] \/ assignment'[p] = "assigned"
      BY <3>1 DEF Assign, TypeOK, DeliveriesTypeOK
    <3>2. ASSUME NEW o \in Orders, NEW next \in AssignmentStatuses, Transition(o, next)
          PROVE  \A p \in Orders :
                   \/ assignment'[p] = assignment[p]
                   \/ assignment'[p] = "delivered" /\ Method[p] \in PayOnDelivery
                        => payStatus[p] = "paid"
      BY <3>2 DEF Transition, TransitionAccepted, TypeOK, DeliveriesTypeOK
    <3> QED BY <3>1, <3>2, StepMovesADelivery
  <2> QED BY <1>0, <1>2, <2>1, <2>2, BooksKept
<1>3. CASE PaymentsNext /\ UNCHANGED refundVars
  BY <1>3, BooksCreateCheckout, BooksProvider, BooksSynchronize, BooksCollect
     DEF PaymentsNext
<1>4. CASE RefundsNext
  BY <1>4, BooksRefunds
<1>5. CASE UNCHANGED vars
  <2>1. UNCHANGED <<payStatus, assignment, paymentVars, refundVars>>
    BY <1>5 DEF vars, orderVars, deliveryVars
  <2> QED BY <1>0, <2>1, BooksKept
<1> QED BY <1>1, <1>2, <1>3, <1>4, <1>5 DEF Next

\* The books of receipts, payments and collections always agree.
LEMMA BooksCorrect == Spec => []BooksInv
<1> QED BY BooksInit, BooksStep, TypeCorrect, PTL DEF Spec

\* An order shown as paid has a receipt, and a capture never leaves its order
\* waiting for payment.
THEOREM PaidCorrect == Spec => []PaidHasReceipt
<1>1. BooksInv => PaidHasReceipt
  BY DEF BooksInv
<1> QED BY <1>1, BooksCorrect, PTL

\* Money that came in keeps its receipt through refunds and late snapshots.
THEOREM CapturedCorrect == Spec => []CapturedHasReceipt
<1>1. BooksInv => CapturedHasReceipt
  BY DEF BooksInv
<1> QED BY <1>1, BooksCorrect, PTL

\* Driver and administrator never both collect an order.
THEOREM CollectedCorrect == Spec => []CollectedOnce
<1>1. BooksInv => CollectedOnce
  BY DEF BooksInv
<1> QED BY <1>1, BooksCorrect, PTL

\* No driver hands over an order paid on delivery before its money is recorded.
THEOREM HandOverCorrect == Spec => []PaidBeforeHandOver
<1>1. BooksInv => PaidBeforeHandOver
  BY DEF BooksInv
<1> QED BY <1>1, BooksCorrect, PTL

\* No checkout of an order, late, failed or expired, takes back that it is paid.
THEOREM PaidStaysPaid == Spec => PaidUntilRefunded
<1> DEFINE Refunding(o) ==
      \E r \in RefundIds, t \in Txns :
        /\ refundStatus[r] # "refunded" /\ refundStatus'[r] = "refunded"
        /\ t \in refundTxn[r] /\ o \in txnOrder[t]
<1>1. TypeOK /\ [Next]_vars =>
        [\A o \in Orders :
           payStatus[o] = "paid" /\ payStatus'[o] # "paid" =>
             \E r \in RefundIds, t \in Txns :
               /\ refundStatus[r] # "refunded" /\ refundStatus'[r] = "refunded"
               /\ t \in refundTxn[r] /\ o \in txnOrder[t]]_vars
  <2> SUFFICES ASSUME TypeOK, Next, NEW o \in Orders,
                      payStatus[o] = "paid", payStatus'[o] # "paid"
               PROVE  Refunding(o)
    OBVIOUS
  <2> USE DEF TypeOK
  <2>1. CASE OrdersNext
    BY <2>1 DEF OrdersNext, UpdateStatus, CheckCancellable, CancelByCustomer
  <2>2. CASE DeliveriesNext
    BY <2>2 DEF DeliveriesNext, Assign, Transition, ReadLocation,
                SaveLocation, CreateDriver, CheckDriverIdle, DeactivateDriver,
                UpdateDriver, orderVars
  <2>3. ASSUME NEW t \in Txns, NEW s \in ProviderStatuses, SynchronizeCheckout(t, s)
        PROVE  FALSE
    <3>1. ApplySnapshot(t, s)
      BY <2>3 DEF SynchronizeCheckout
    <3> QED BY <3>1 DEF ApplySnapshot, OrderCaptured, OrderNotCaptured, OrdersTypeOK
  <2>4. ASSUME NEW t \in Txns, NEW p \in Orders, NEW collector \in Drivers \cup {Staff},
               CollectOnDelivery(p, t, collector)
        PROVE  FALSE
    BY <2>4 DEF CollectOnDelivery, OrdersTypeOK
  <2>5. CASE PaymentsNext
    BY <2>3, <2>4, <2>5 DEF PaymentsNext, CreateCheckout, ProviderSettles, FetchCheckout,
                            orderVars
  <2>6. ASSUME NEW r \in RefundIds, NEW t \in Txns, ApproveRefund(r, t)
        PROVE  Refunding(o)
    <3>1. refundStatus[r] # "refunded" /\ refundStatus'[r] = "refunded" /\ t \in refundTxn[r]
      BY <2>6 DEF ApproveRefund, Approvable, RefundsTypeOK
    <3>2. o \in txnOrder[t]
      BY <2>6 DEF ApproveRefund, OrdersTypeOK
    <3> QED BY <3>1, <3>2
  <2>7. CASE RefundsNext
    BY <2>6, <2>7 DEF RefundsNext, RequestRefund, ApproveFails, ApproveCrashes, MarkFailed,
                      orderVars
  <2> QED BY <2>1, <2>2, <2>5, <2>7 DEF Next
<1> QED BY <1>1, TypeCorrect, PTL DEF Spec, PaidUntilRefunded

-----------------------------------------------------------------------------
(* Refunds.                                                                 *)

\* A refund is of one payment.
RefundOfOnePayment == \A r \in RefundIds : \A t, u \in refundTxn[r] : t = u

\* The inductive invariant of the refunds.
RefundsInv ==
  /\ RefundOfOnePayment
  /\ RefundsWithinCapture
  /\ FullRefundIsShown

\* The refunded units of a payment are finitely many.
LEMMA UnitsAreFinite ==
  ASSUME NEW t
  PROVE  IsFiniteSet(RefundedUnits(t)) /\ RefundedTotal(t) \in Nat
<1>1. IsFiniteSet(RefundIds \X (1 .. Amount))
  <2>1. 1 \in Int /\ Amount \in Int
    BY RefundsAssumption
  <2>2. IsFiniteSet(1 .. Amount)
    BY <2>1, FS_Interval
  <2> QED BY <2>2, RefundsAssumption, FS_Product
<1>2. IsFiniteSet(RefundedUnits(t))
  BY <1>1, FS_Subset DEF RefundedUnits
<1> QED BY <1>2, FS_CardinalityType DEF RefundedTotal

\* A refund that starts to count adds its amount to the total of its payment.
LEMMA TotalGrows ==
  ASSUME RefundsTypeOK, NEW r \in RefundIds, NEW t \in refundTxn[r],
         refundStatus[r] # "refunded",
         refundStatus' = [refundStatus EXCEPT ![r] = "refunded"],
         UNCHANGED <<refundTxn, refundAmount>>
  PROVE  RefundedTotal(t)' = RefundedTotal(t) + refundAmount[r]
<1> DEFINE New == {r} \X (1 .. refundAmount[r])
<1>1. refundAmount[r] \in 0 .. Amount /\ Amount \in Nat
  BY RefundsAssumption DEF RefundsTypeOK
<1>2. IsFiniteSet(New) /\ Cardinality(New) = refundAmount[r]
  <2>1. IsFiniteSet({r}) /\ Cardinality({r}) = 1
    BY FS_Singleton
  <2>2. /\ IsFiniteSet(1 .. refundAmount[r])
        /\ Cardinality(1 .. refundAmount[r]) = refundAmount[r]
    <3>1. 1 \in Int /\ refundAmount[r] \in Int
      BY <1>1
    <3>2. /\ IsFiniteSet(1 .. refundAmount[r])
          /\ Cardinality(1 .. refundAmount[r])
               = IF 1 > refundAmount[r] THEN 0 ELSE refundAmount[r] - 1 + 1
      BY <3>1, FS_Interval
    <3> QED BY <1>1, <3>2
  <2>3. IsFiniteSet(New) /\ Cardinality(New) = 1 * refundAmount[r]
    BY <2>1, <2>2, FS_Product
  <2> QED BY <1>1, <2>3
<1>3. RefundedUnits(t) \cap New = {}
  BY DEF RefundedUnits
<1>4. RefundedUnits(t)' = RefundedUnits(t) \cup New
  <2> DEFINE Units == RefundIds \X (1 .. Amount)
  <2>1. \A u \in Units :
          (t \in refundTxn[u[1]] /\ refundStatus'[u[1]] = "refunded"
             /\ u[2] <= refundAmount[u[1]])
          <=> (u \in RefundedUnits(t) \/ u \in New)
    BY <1>1 DEF RefundedUnits, RefundsTypeOK
  <2>2. New \subseteq Units
    BY <1>1
  <2> QED BY <2>1, <2>2 DEF RefundedUnits
<1>5. Cardinality(RefundedUnits(t) \cup New)
        = RefundedTotal(t) + refundAmount[r] - Cardinality({})
  BY <1>2, <1>3, UnitsAreFinite, FS_Union DEF RefundedTotal
<1> QED BY <1>1, <1>4, <1>5, UnitsAreFinite, FS_EmptySet DEF RefundedTotal

\* When every unit refunded afterwards was refunded before, the total has not
\* grown.
LEMMA TotalShrinks ==
  ASSUME NEW t, RefundedUnits(t)' \subseteq RefundedUnits(t)
  PROVE  /\ RefundedTotal(t) \in Nat /\ RefundedTotal(t)' \in Nat
         /\ RefundedTotal(t)' <= RefundedTotal(t)
<1>1. IsFiniteSet(RefundedUnits(t)') /\ RefundedTotal(t)' <= RefundedTotal(t)
  BY UnitsAreFinite, FS_Subset DEF RefundedTotal
<1> QED BY <1>1, UnitsAreFinite, FS_CardinalityType DEF RefundedTotal

\* A step that leaves the refunds alone keeps their invariant, if a payment
\* shown as refunded stays so.
LEMMA RefundsKept ==
  ASSUME TypeOK, RefundsInv, UNCHANGED refundVars,
         \A t \in Txns : txnStatus[t] = "refunded" => txnStatus'[t] = "refunded"
  PROVE  RefundsInv'
BY DEF RefundsInv, RefundOfOnePayment, RefundsWithinCapture, FullRefundIsShown,
       RefundedTotal, RefundedUnits, refundVars

\* Before the first refund nothing is refunded.
LEMMA RefundsInvInit == Init => RefundsInv
<1> SUFFICES ASSUME Init PROVE RefundsInv
  OBVIOUS
<1>1. \A t \in Txns : RefundedTotal(t) = 0
  BY FS_EmptySet DEF Init, RefundsInit, RefundedUnits, RefundedTotal
<1> QED BY <1>1, RefundsAssumption DEF Init, RefundsInit, RefundsInv, RefundOfOnePayment,
           RefundsWithinCapture, FullRefundIsShown

\* Every step of RefundsService keeps the refunds within the payment: a request
\* does not count, an approval has compared its refund with those that count, and
\* a rollback only takes refunds back.
LEMMA RefundsInvStep == TypeOK /\ RefundsInv /\ RefundsNext => RefundsInv'
<1> SUFFICES ASSUME TypeOK, RefundsInv, RefundsNext PROVE RefundsInv'
  OBVIOUS
<1> USE DEF TypeOK
<1>0. Amount \in Nat
  BY RefundsAssumption
<1>1. ASSUME RefundOfOnePayment', UNCHANGED txnStatus,
             \A t \in Txns : RefundedUnits(t)' \subseteq RefundedUnits(t)
      PROVE  RefundsInv'
  <2>1. \A t \in Txns : /\ RefundedTotal(t)' \in Nat /\ RefundedTotal(t) \in Nat
                        /\ RefundedTotal(t)' <= RefundedTotal(t)
    BY <1>1, TotalShrinks
  <2>2. \A t \in Txns : RefundedTotal(t) <= Amount
    BY DEF RefundsInv, RefundsWithinCapture
  <2>3. RefundsWithinCapture'
    BY <1>0, <2>1, <2>2 DEF RefundsWithinCapture
  <2>4. FullRefundIsShown'
    BY <1>0, <1>1, <2>1, <2>2 DEF RefundsInv, FullRefundIsShown
  <2> QED BY <1>1, <2>3, <2>4 DEF RefundsInv
<1>2. ASSUME NEW r \in RefundIds, NEW o \in Orders, NEW t \in Txns,
             NEW amount \in 1 .. Amount, RequestRefund(r, o, t, amount)
      PROVE  RefundsInv'
  <2>1. /\ refundStatus'[r] = "requested" /\ refundTxn'[r] = {t}
        /\ \A q \in RefundIds \ {r} : /\ refundStatus'[q] = refundStatus[q]
                                      /\ refundTxn'[q] = refundTxn[q]
                                      /\ refundAmount'[q] = refundAmount[q]
        /\ UNCHANGED txnStatus
    BY <1>2 DEF RequestRefund, paymentVars, RefundsTypeOK
  <2>2. RefundOfOnePayment'
    BY <2>1 DEF RefundsInv, RefundOfOnePayment
  <2>3. \A u \in Txns : RefundedUnits(u)' \subseteq RefundedUnits(u)
    BY <2>1 DEF RefundedUnits
  <2> QED BY <1>1, <2>1, <2>2, <2>3
<1>3. ASSUME NEW r \in RefundIds, NEW t \in Txns, ApproveRefund(r, t)
      PROVE  RefundsInv'
  <2>1. /\ t \in refundTxn[r] /\ refundStatus[r] = "requested"
        /\ refundStatus' = [refundStatus EXCEPT ![r] = "refunded"]
        /\ UNCHANGED <<refundTxn, refundAmount>>
    BY <1>3 DEF ApproveRefund, Approvable
  <2>2. RefundedTotal(t) + refundAmount[r] <= Amount
    BY <1>3 DEF ApproveRefund, Approvable, Refundable
  <2>3. RefundedTotal(t)' = RefundedTotal(t) + refundAmount[r]
    BY <2>1, TotalGrows
  <2>4. ASSUME NEW u \in Txns, u # t
        PROVE  RefundedTotal(u)' = RefundedTotal(u) /\ txnStatus'[u] = txnStatus[u]
    <3>1. u \notin refundTxn[r]
      BY <2>1, <2>4 DEF RefundsInv, RefundOfOnePayment
    <3>2. RefundedUnits(u)' = RefundedUnits(u)
      BY <2>1, <3>1 DEF RefundedUnits, RefundsTypeOK
    <3> QED BY <1>3, <2>4, <3>2 DEF RefundedTotal, ApproveRefund, PaymentsTypeOK
  <2>5. RefundsWithinCapture'
    <3> SUFFICES ASSUME NEW u \in Txns PROVE RefundedTotal(u)' <= Amount
      BY DEF RefundsWithinCapture
    <3>1. CASE u = t
      BY <2>2, <2>3, <3>1
    <3>2. CASE u # t
      BY <2>4, <3>2 DEF RefundsInv, RefundsWithinCapture
    <3> QED BY <3>1, <3>2
  <2>6. FullRefundIsShown'
    <3> SUFFICES ASSUME NEW u \in Txns, RefundedTotal(u)' = Amount
                 PROVE  txnStatus'[u] = "refunded"
      BY DEF FullRefundIsShown
    <3>1. CASE u = t
      <4>1. RefundedAfter(r, t) = Amount
        BY <2>3, <3>1 DEF RefundedAfter
      <4>2. txnStatus' = [txnStatus EXCEPT ![t] = "refunded"]
        BY <1>3, <4>1 DEF ApproveRefund
      <4> QED BY <3>1, <4>2 DEF PaymentsTypeOK
    <3>2. CASE u # t
      BY <2>4, <3>2 DEF RefundsInv, FullRefundIsShown
    <3> QED BY <3>1, <3>2
  <2>7. RefundOfOnePayment'
    BY <2>1 DEF RefundsInv, RefundOfOnePayment
  <2> QED BY <2>5, <2>6, <2>7 DEF RefundsInv
<1>4. ASSUME NEW r \in RefundIds, NEW t \in Txns, ApproveFails(r, t) \/ ApproveCrashes(r, t)
      PROVE  RefundsInv'
  <2>1. UNCHANGED <<txnStatus, refundTxn, refundAmount, refundStatus>>
    BY <1>4 DEF ApproveFails, ApproveCrashes, paymentVars
  <2>2. RefundOfOnePayment' /\ \A u \in Txns : RefundedUnits(u)' \subseteq RefundedUnits(u)
    BY <2>1 DEF RefundsInv, RefundOfOnePayment, RefundedUnits
  <2> QED BY <1>1, <2>1, <2>2
<1>5. ASSUME NEW r \in RefundIds, MarkFailed(r) PROVE RefundsInv'
  <2>1. /\ \A q \in RefundIds : refundStatus'[q] = "refunded" => refundStatus[q] = "refunded"
        /\ UNCHANGED <<refundTxn, refundAmount, txnStatus>>
    BY <1>5 DEF MarkFailed, paymentVars, RefundsTypeOK
  <2>2. \A u \in Txns : RefundedUnits(u)' \subseteq RefundedUnits(u)
    BY <2>1 DEF RefundedUnits
  <2>3. RefundOfOnePayment'
    BY <2>1 DEF RefundsInv, RefundOfOnePayment
  <2> QED BY <1>1, <2>1, <2>2, <2>3
<1> QED BY <1>2, <1>3, <1>4, <1>5 DEF RefundsNext

\* No other step touches a refund, and no snapshot, checkout or collection takes
\* back that a payment is refunded.
LEMMA RefundsStep == TypeOK /\ RefundsInv /\ [Next]_vars => RefundsInv'
<1> SUFFICES ASSUME TypeOK, RefundsInv, [Next]_vars PROVE RefundsInv'
  OBVIOUS
<1>1. CASE RefundsNext
  BY <1>1, RefundsInvStep
<1>2. CASE PaymentsNext /\ UNCHANGED refundVars
  <2>1. \A t \in Txns : txnStatus[t] = "refunded" => txnStatus'[t] = "refunded"
    <3> USE DEF TypeOK, PaymentsTypeOK
    <3>1. ASSUME NEW t \in Txns, NEW s \in ProviderStatuses, SynchronizeCheckout(t, s)
          PROVE  \A u \in Txns : txnStatus[u] = "refunded" => txnStatus'[u] = "refunded"
      <4>1. txnStatus[t] = "refunded" => IsStale(txnStatus[t], s)
        BY DEF IsStale, ProviderStatuses
      <4> QED BY <3>1, <4>1 DEF SynchronizeCheckout, ApplySnapshot
    <3>2. ASSUME NEW t \in Txns, NEW o \in Orders,
                 \/ CreateCheckout(o, t)
                 \/ \E collector \in Drivers \cup {Staff} : CollectOnDelivery(o, t, collector)
          PROVE  \A u \in Txns : txnStatus[u] = "refunded" => txnStatus'[u] = "refunded"
      BY <3>2 DEF CreateCheckout, CollectOnDelivery, NextTxn
    <3> QED BY <1>2, <3>1, <3>2 DEF PaymentsNext, ProviderSettles, FetchCheckout
  <2> QED BY <1>2, <2>1, RefundsKept
<1>3. CASE UNCHANGED <<paymentVars, refundVars>>
  BY <1>3, RefundsKept DEF paymentVars
<1> QED BY <1>1, <1>2, <1>3 DEF Next, vars

\* The refunds that are carried out never exceed the payment, for any refunds and
\* amounts and whatever the provider does: approve compares them.
THEOREM RefundsCorrect == Spec => []RefundsWithinCapture
<1>1. RefundsInv => RefundsWithinCapture
  BY DEF RefundsInv
<1> QED BY <1>1, RefundsInvInit, RefundsStep, TypeCorrect, PTL DEF Spec

\* A payment refunded in full is shown as refunded, whatever snapshots come late.
THEOREM FullRefundCorrect == Spec => []FullRefundIsShown
<1>1. RefundsInv => FullRefundIsShown
  BY DEF RefundsInv
<1> QED BY <1>1, RefundsInvInit, RefundsStep, TypeCorrect, PTL DEF Spec

-----------------------------------------------------------------------------
(* The abstract journey.                                                    *)

\* Money comes in for orders no longer waiting, or places them.
LEMMA ReceiptsStep ==
  TypeOK /\ BooksInv /\ [Next]_vars =>
    \/ \A p \in Orders :
         (\E t \in receipts : p \in txnOrder[t])' <=> \E t \in receipts : p \in txnOrder[t]
    \/ \E o \in Orders :
         /\ \A p \in Orders :
              (\E t \in receipts : p \in txnOrder[t])' <=>
                p = o \/ \E t \in receipts : p \in txnOrder[t]
         /\ \/ status[o] # "pending_payment" /\ UNCHANGED status
            \/ status[o] = "pending_payment" /\ status' = [status EXCEPT ![o] = "placed"]
<1> SUFFICES ASSUME TypeOK, BooksInv, [Next]_vars
             PROVE  \/ \A p \in Orders :
                         (\E t \in receipts : p \in txnOrder[t])' <=>
                           \E t \in receipts : p \in txnOrder[t]
                    \/ \E o \in Orders :
                         /\ \A p \in Orders :
                              (\E t \in receipts : p \in txnOrder[t])' <=>
                                p = o \/ \E t \in receipts : p \in txnOrder[t]
                         /\ \/ status[o] # "pending_payment" /\ UNCHANGED status
                            \/ /\ status[o] = "pending_payment"
                               /\ status' = [status EXCEPT ![o] = "placed"]
  OBVIOUS
<1>1. CASE UNCHANGED <<txnOrder, receipts>>
  BY <1>1
<1>2. ASSUME NEW t \in Txns, NEW o \in Orders, CreateCheckout(o, t)
      PROVE  \A p \in Orders :
               (\E u \in receipts : p \in txnOrder[u])' <=>
                 \E u \in receipts : p \in txnOrder[u]
  <2>1. t \notin receipts
    BY <1>2 DEF CreateCheckout, NextTxn, BooksInv, TxnsAreOwned
  <2>2. UNCHANGED receipts /\ \A u \in receipts : txnOrder'[u] = txnOrder[u]
    BY <1>2, <2>1 DEF CreateCheckout, TypeOK, PaymentsTypeOK
  <2> QED BY <2>2
<1>3. ASSUME NEW t \in Txns, NEW s \in ProviderStatuses, SynchronizeCheckout(t, s),
             ~ UNCHANGED <<txnOrder, receipts>>
      PROVE  \E o \in Orders :
               /\ \A p \in Orders :
                    (\E u \in receipts : p \in txnOrder[u])' <=>
                      p = o \/ \E u \in receipts : p \in txnOrder[u]
               /\ \/ status[o] # "pending_payment" /\ UNCHANGED status
                  \/ /\ status[o] = "pending_payment"
                     /\ status' = [status EXCEPT ![o] = "placed"]
  <2>1. PICK o \in txnOrder[t] : OrderCaptured(o) /\ receipts' = receipts \cup {t}
    BY <1>3 DEF SynchronizeCheckout, ApplySnapshot
  <2>2. o \in Orders /\ txnOrder[t] = {o} /\ UNCHANGED txnOrder
    BY <1>3 DEF SynchronizeCheckout, TypeOK, PaymentsTypeOK, BooksInv, TxnsAreOwned
  <2>3. \A p \in Orders :
          (\E u \in receipts : p \in txnOrder[u])' <=>
            p = o \/ \E u \in receipts : p \in txnOrder[u]
    BY <2>1, <2>2
  <2>4. \/ status[o] # "pending_payment" /\ UNCHANGED status
        \/ status[o] = "pending_payment" /\ status' = [status EXCEPT ![o] = "placed"]
    BY <2>1 DEF OrderCaptured, Move, Stay
  <2> QED BY <2>2, <2>3, <2>4
<1>4. ASSUME NEW t \in Txns, NEW o \in Orders, NEW collector \in Drivers \cup {Staff},
             CollectOnDelivery(o, t, collector)
      PROVE  /\ \A p \in Orders :
                  (\E u \in receipts : p \in txnOrder[u])' <=>
                    p = o \/ \E u \in receipts : p \in txnOrder[u]
             /\ status[o] # "pending_payment" /\ UNCHANGED status
  <2>1. t \notin receipts /\ status[o] # "pending_payment" /\ UNCHANGED status
    BY <1>4 DEF CollectOnDelivery, NextTxn, Stay, BooksInv, TxnsAreOwned, CollectionIsFinal
  <2>2. /\ receipts' = receipts \cup {t} /\ txnOrder'[t] = {o}
        /\ \A u \in receipts : txnOrder'[u] = txnOrder[u]
    BY <1>4, <2>1 DEF CollectOnDelivery, TypeOK, PaymentsTypeOK
  <2> QED BY <2>1, <2>2
<1>5. CASE PaymentsNext
  BY <1>1, <1>2, <1>3, <1>4, <1>5 DEF PaymentsNext, FetchCheckout, ProviderSettles
<1>6. CASE RefundsNext
  BY <1>1, <1>6 DEF RefundsNext, RequestRefund, ApproveRefund, ApproveFails, ApproveCrashes,
                    MarkFailed, paymentVars
<1>7. CASE UNCHANGED paymentVars
  BY <1>1, <1>7 DEF paymentVars
<1> QED BY <1>5, <1>6, <1>7 DEF Next, vars

\* A move of the order is a move of its journey, or none.
LEMMA MoveAdvances ==
  ASSUME NEW o \in Orders, NEW next \in OrderStatuses, Allowed(o, next)
  PROVE  \/ StageOf(next) = StageOf(status[o])
         \/ <<StageOf(status[o]), StageOf(next)>> \in Journey!Ahead
         \/ /\ StageOf(status[o]) = "waiting" /\ StageOf(next) = "served"
            /\ OrderType[o] \in AtRestaurant
         \/ StageOf(status[o]) \in {"unpaid", "queued"} /\ StageOf(next) = "dropped"
BY DEF Allowed, TRANSITIONS, StageOf, Journey!Ahead

\* OrderFlow implements OrderJourney: whoever moves an order, it goes forward one
\* stage at a time, is dropped only before the oven, and money places it.
THEOREM FlowImplementsJourney == Spec => ImplementsJourney
<1>1. Init => Journey!Init
  <2> SUFFICES ASSUME Init PROVE Journey!Init
    OBVIOUS
  <2>1. \A o \in Orders : StageOf(status[o]) \in {"unpaid", "queued"}
    BY DEF Init, OrdersInit, InitialStatus, StageOf
  <2>2. \A o \in Orders : (\E t \in receipts : o \in txnOrder[t]) = FALSE
    BY DEF Init, PaymentsInit
  <2> QED BY <2>1, <2>2 DEF Journey!Init
<1>2. TypeOK /\ BooksInv /\ [Next]_vars => [Journey!Next]_Journey!vars
  <2> DEFINE Stage == [o \in Orders |-> StageOf(status[o])]
             Received == [o \in Orders |-> \E t \in receipts : o \in txnOrder[t]]
  <2> SUFFICES ASSUME TypeOK, BooksInv, [Next]_vars PROVE [Journey!Next]_Journey!vars
    OBVIOUS
  <2>1. \A o \in Orders : StageOf(status[o]) \in Journey!Stages
    BY DEF StageOf, Journey!Stages
  <2>2. \A o \in Orders, next \in OrderStatuses : StageOf(next) \in Journey!Stages
    BY DEF StageOf, Journey!Stages
  <2>3. ASSUME Received' = Received, Stay
        PROVE  [Journey!Next]_Journey!vars
    BY <2>3 DEF Stay, Journey!vars
  <2>4. ASSUME Received' = Received, NEW o \in Orders, NEW next \in OrderStatuses,
               \/ Allowed(o, next)
               \/ status[o] = "pending_payment" /\ next = "placed",
               status' = [status EXCEPT ![o] = next]
        PROVE  [Journey!Next]_Journey!vars
    <3>1. Allowed(o, next)
      BY <2>4 DEF Allowed, TRANSITIONS
    <3>2. Stage' = [Stage EXCEPT ![o] = StageOf(next)]
      BY <2>4 DEF TypeOK, OrdersTypeOK
    <3>3. StageOf(next) = Stage[o] => Stage' = Stage
      BY <3>2
    <3>4. ASSUME \/ <<Stage[o], StageOf(next)>> \in Journey!Ahead
                 \/ /\ Stage[o] = "waiting" /\ StageOf(next) = "served"
                    /\ OrderType[o] \in AtRestaurant
          PROVE  Journey!Advance(o)
      BY <2>2, <2>4, <3>2, <3>4 DEF Journey!Advance
    <3>5. ASSUME Stage[o] \in {"unpaid", "queued"}, StageOf(next) = "dropped"
          PROVE  Journey!Drop(o)
      BY <2>4, <3>2, <3>5 DEF Journey!Drop
    <3> QED BY <2>4, <3>1, <3>3, <3>4, <3>5, MoveAdvances DEF Journey!Next, Journey!vars
  <2>5. ASSUME NEW o \in Orders, Received' = [Received EXCEPT ![o] = TRUE],
               \/ status[o] # "pending_payment" /\ UNCHANGED status
               \/ status[o] = "pending_payment" /\ status' = [status EXCEPT ![o] = "placed"]
        PROVE  Journey!Next
    <3>1. StageOf("placed") = "queued" /\ (Stage[o] = "unpaid" <=> status[o] = "pending_payment")
      BY DEF StageOf
    <3>2. Stage' = [Stage EXCEPT ![o] = IF @ = "unpaid" THEN "queued" ELSE @]
      BY <2>5, <3>1 DEF TypeOK, OrdersTypeOK
    <3> QED BY <2>5, <3>2 DEF Journey!Next, Journey!Receive
  <2>6. CASE Received' = Received
    BY <2>3, <2>4, <2>6, StepMovesAnOrder DEF MovesAnOrder, Move, OrderStatuses
  <2>7. CASE Received' # Received
    <3>1. PICK o \in Orders :
            /\ \A p \in Orders :
                 (\E t \in receipts : p \in txnOrder[t])' <=>
                   p = o \/ \E t \in receipts : p \in txnOrder[t]
            /\ \/ status[o] # "pending_payment" /\ UNCHANGED status
               \/ status[o] = "pending_payment" /\ status' = [status EXCEPT ![o] = "placed"]
      BY <2>7, ReceiptsStep
    <3>2. Received' = [Received EXCEPT ![o] = TRUE]
      BY <3>1
    <3> QED BY <2>5, <3>1, <3>2
  <2> QED BY <2>6, <2>7
<1> QED BY <1>1, <1>2, TypeCorrect, BooksCorrect, PTL DEF Spec, ImplementsJourney, Journey!Spec

\* What the journey promises holds of it: its money puts an order in the queue.
LEMMA JourneyKeepsItsPromise == Journey!Spec => []Journey!NotWaitingOnceReceived
<1> DEFINE Inv == Journey!TypeOK /\ Journey!NotWaitingOnceReceived
<1>1. Journey!Init => Inv
  BY DEF Journey!Init, Journey!TypeOK, Journey!Stages, Journey!NotWaitingOnceReceived
<1>2. Inv /\ [Journey!Next]_Journey!vars => Inv'
  <2> DEFINE Stage == [o \in Orders |-> StageOf(status[o])]
             Received == [o \in Orders |-> \E t \in receipts : o \in txnOrder[t]]
  <2> SUFFICES ASSUME Inv, [Journey!Next]_Journey!vars PROVE Inv'
    OBVIOUS
  <2>0. Stage \in [Orders -> Journey!Stages] /\ \A o \in Orders : Received[o] => Stage[o] # "unpaid"
    BY DEF Journey!TypeOK, Journey!NotWaitingOnceReceived
  <2>1. ASSUME NEW o \in Orders, NEW next \in Journey!Stages, next # "unpaid" \/ ~Received'[o],
               Stage' = [Stage EXCEPT ![o] = next],
               \A p \in Orders \ {o} : Received'[p] = Received[p]
        PROVE  Inv'
    <3>1. Stage' \in [Orders -> Journey!Stages]
      BY <2>0, <2>1
    <3>2. \A p \in Orders : Received'[p] => Stage'[p] # "unpaid"
      BY <2>0, <2>1
    <3> QED
      BY <3>1, <3>2 DEF Journey!TypeOK, Journey!NotWaitingOnceReceived, Journey!Stages
  <2>2. ASSUME NEW o \in Orders, Journey!Advance(o) PROVE Inv'
    BY <2>1, <2>2 DEF Journey!Advance, Journey!Ahead
  <2>3. ASSUME NEW o \in Orders, Journey!Drop(o) PROVE Inv'
    BY <2>1, <2>3 DEF Journey!Drop, Journey!Stages
  <2>4. ASSUME NEW o \in Orders, Journey!Receive(o) PROVE Inv'
    <3> DEFINE next == IF Stage[o] = "unpaid" THEN "queued" ELSE Stage[o]
    <3>1. next \in Journey!Stages /\ next # "unpaid"
      BY <2>0 DEF Journey!Stages
    <3>2. Stage' = [Stage EXCEPT ![o] = next] /\ Received' = [Received EXCEPT ![o] = TRUE]
      BY <2>0, <2>4 DEF Journey!Receive
    <3> HIDE DEF next
    <3> QED
      BY <2>1, <3>1, <3>2
  <2>5. CASE UNCHANGED Journey!vars
    BY <2>0, <2>5 DEF Journey!vars, Journey!TypeOK, Journey!NotWaitingOnceReceived, Journey!Stages
  <2> QED
    BY <2>2, <2>3, <2>4, <2>5 DEF Journey!Next
<1>3. Inv => Journey!NotWaitingOnceReceived
  OBVIOUS
<1> QED
  BY <1>1, <1>2, <1>3, PTL DEF Journey!Spec

\* By way of the refinement: an order whose money has ever come in does not wait
\* for payment, whichever service moved it afterwards.
THEOREM ReceivedIsPlaced == Spec => []Journey!NotWaitingOnceReceived
BY FlowImplementsJourney, JourneyKeepsItsPromise, PTL DEF ImplementsJourney
=============================================================================
