------------------------------- MODULE Orders -------------------------------
(***************************************************************************)
(* OrdersService: the order row, its status history and the order events   *)
(* of the outbox.                                                          *)
(*                                                                         *)
(* updateStatus runs in one transaction whose first statement locks the    *)
(* order row, so it is one step here.  cancelByCustomer is two steps: it   *)
(* reads the status without a lock and calls updateStatus afterwards.      *)
(* Move is the write every component makes when it moves an order: status, *)
(* history row and outbox event, in the same transaction.                  *)
(***************************************************************************)
EXTENDS OrderStatus, Sequences, Naturals

CONSTANTS Orders,      \* orders that have been placed
          Method,      \* [Orders -> PaymentMethods]: orders.payment_method
          OrderType,   \* [Orders -> OrderTypes]:     orders.order_type
          PosOrders    \* the orders staff created at the POS (no customer)

ASSUME OrdersAssumption ==
  /\ Method \in [Orders -> PaymentMethods]
  /\ OrderType \in [Orders -> OrderTypes]
  /\ PosOrders \subseteq Orders
  /\ \A o \in PosOrders : Method[o] \in PayOnDelivery

VARIABLES
  status,      \* orders.status
  payStatus,   \* orders.payment_status
  history,     \* order_status_history: <<previousStatus, newStatus>> in order
  outbox,      \* order events enqueued for the order: <<eventType, status>>
  cancelling   \* orders whose cancelByCustomer has passed its unlocked check

orderVars == <<status, payStatus, history, outbox, cancelling>>

\* The status in which checkout (or the POS) inserts the order.
InitialStatus(o) ==
  IF Method[o] \in PayOnDelivery THEN "placed" ELSE "pending_payment"

\* Checkout announces only orders it places at once; the POS announces all.
InitialEvents(o) ==
  CASE o \in PosOrders         -> << <<"order.placed", "placed">> >>
    [] InitialStatus(o) = "placed" /\ o \notin PosOrders
                               -> << <<"order.confirmed", "placed">> >>
    [] OTHER                   -> << >>

\* Rows of order_status_history and order events of the outbox.
HistoryRows == (OrderStatuses \cup {"none"}) \X OrderStatuses
EventTypes  == {"order.placed", "order.confirmed", "order.status_changed"}
OutboxRows  == EventTypes \X OrderStatuses

OrdersTypeOK ==
  /\ status \in [Orders -> OrderStatuses]
  /\ payStatus \in [Orders -> PayStatuses]
  /\ history \in [Orders -> Seq(HistoryRows)]
  /\ outbox \in [Orders -> Seq(OutboxRows)]
  /\ cancelling \in SUBSET Orders

OrdersInit ==
  /\ status = [o \in Orders |-> InitialStatus(o)]
  /\ payStatus = [o \in Orders |->
                    IF Method[o] \in PayOnDelivery THEN "collection_pending"
                                                   ELSE "pending"]
  /\ history = [o \in Orders |-> << <<"none", InitialStatus(o)>> >>]
  /\ outbox = [o \in Orders |-> InitialEvents(o)]
  /\ cancelling = {}

-----------------------------------------------------------------------------
\* The moves updateStatus accepts.
Allowed(o, next) ==
  \/ <<status[o], next>> \in TRANSITIONS
  \/ /\ status[o] = "ready"
     /\ OrderType[o] \in AtRestaurant
     /\ next = "closed"

\* The writes of one status change, announced by one event.
Move(o, next, event) ==
  /\ status' = [status EXCEPT ![o] = next]
  /\ history' = [history EXCEPT ![o] = Append(@, <<status[o], next>>)]
  /\ outbox' = [outbox EXCEPT ![o] = Append(@, <<event, next>>)]

Stay == UNCHANGED <<status, history, outbox>>

\* PATCH /orders/admin/:id/status
UpdateStatus(o, next) ==
  /\ Allowed(o, next)
  /\ Move(o, next, "order.status_changed")
  /\ UNCHANGED <<payStatus, cancelling>>

\* POST /orders/me/:id/cancel: the unlocked read of the status ...
CheckCancellable(o) ==
  /\ o \notin PosOrders
  /\ status[o] \in {"pending_payment", "placed", "accepted"}
  /\ cancelling' = cancelling \cup {o}
  /\ UNCHANGED <<status, payStatus, history, outbox>>

\* ... and the locked update, which only consults TRANSITIONS.
CancelByCustomer(o) ==
  /\ o \in cancelling
  /\ cancelling' = cancelling \ {o}
  /\ IF Allowed(o, "cancelled")
     THEN Move(o, "cancelled", "order.status_changed")
     ELSE Stay
  /\ UNCHANGED payStatus

OrdersNext ==
  \E o \in Orders :
    \/ \E next \in OrderStatuses : UpdateStatus(o, next)
    \/ CheckCancellable(o)
    \/ CancelByCustomer(o)
=============================================================================
