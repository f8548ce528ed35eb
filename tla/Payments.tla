------------------------------ MODULE Payments ------------------------------
(***************************************************************************)
(* PaymentsService: the payment transactions of an order, the checkouts    *)
(* they stand for at the provider (SumUp), the snapshots of a checkout a   *)
(* webhook or a poll has fetched but not applied yet, and the receipts.    *)
(*                                                                         *)
(* createCheckout and collectOnDelivery hold the order lock and            *)
(* synchronizeCheckout the transaction and order locks, so each is one     *)
(* step.  Fetching a snapshot and applying it are separate steps: nothing  *)
(* is locked in between, so snapshots are applied in any order, late, more *)
(* than once or never.  A transaction id stands for one (order,            *)
(* idempotency key) pair; the ids are used in the order of created_at.     *)
(***************************************************************************)
EXTENDS Deliveries

CONSTANTS MaxTxns,     \* bound: payment transactions ever created
          Staff,       \* an administrator who collects a payment
          Retryable    \* whether a checkout the provider has failed can still
                       \* be paid or expire (a property of the provider)

ASSUME PaymentsAssumption ==
  /\ MaxTxns \in Nat
  /\ Staff \notin Drivers
  /\ Retryable \in BOOLEAN

Txns == 1 .. MaxTxns

VARIABLES
  txnOrder,       \* payment_transactions.order_id, {} before the row exists
  txnStatus,      \* payment_transactions.status, "none" before the row exists
  checkout,       \* the state of the checkout at the provider, or "none"
  snapshots,      \* <<transaction, provider state>> fetched, not yet applied
  webhookEvents,  \* payment_webhook_events: the <<transaction, state>> applied
  receipts        \* transactions with a payment_receipts row

paymentVars ==
  <<txnOrder, txnStatus, checkout, snapshots, webhookEvents, receipts>>

\* What the provider adapter reports of a checkout.
ProviderStatuses == {"pending", "captured", "failed", "cancelled"}

TxnStatuses == ProviderStatuses \cup {"partially_refunded", "refunded"}

\* Transaction statuses that say the money of this transaction came in.
Captured == {"captured", "partially_refunded", "refunded"}

PaymentsTypeOK ==
  /\ txnOrder \in [Txns -> SUBSET Orders]
  /\ txnStatus \in [Txns -> TxnStatuses \cup {"none"}]
  /\ checkout \in [Txns -> ProviderStatuses \cup {"none"}]
  /\ snapshots \in SUBSET (Txns \X ProviderStatuses)
  /\ webhookEvents \in SUBSET (Txns \X ProviderStatuses)
  /\ receipts \in SUBSET Txns

PaymentsInit ==
  /\ txnOrder = [t \in Txns |-> {}]
  /\ txnStatus = [t \in Txns |-> "none"]
  /\ checkout = [t \in Txns |-> "none"]
  /\ snapshots = {}
  /\ webhookEvents = {}
  /\ receipts = {}

-----------------------------------------------------------------------------
\* The id of the next row: ids follow the order of creation.
NextTxn(t) == /\ txnStatus[t] = "none"
              /\ \A u \in 1 .. (t - 1) : txnStatus[u] # "none"

\* POST /payments/checkouts with a fresh idempotency key.  Neither the order
\* status nor another pending transaction of the order is consulted.
CreateCheckout(o, t) ==
  /\ Method[o] = "card"
  /\ payStatus[o] # "paid"
  /\ NextTxn(t)
  /\ txnOrder' = [txnOrder EXCEPT ![t] = {o}]
  /\ txnStatus' = [txnStatus EXCEPT ![t] = "pending"]
  /\ checkout' = [checkout EXCEPT ![t] = "pending"]
  /\ UNCHANGED <<orderVars, deliveryVars, snapshots, webhookEvents, receipts>>

\* The customer pays, fails to pay or lets the hosted checkout expire.
ProviderSettles(t, s) ==
  /\ s \in {"captured", "failed", "cancelled"}
  /\ \/ checkout[t] = "pending"
     \/ checkout[t] = "failed" /\ Retryable /\ s # "failed"
  /\ checkout' = [checkout EXCEPT ![t] = s]
  /\ UNCHANGED <<orderVars, deliveryVars, txnOrder, txnStatus, snapshots,
                 webhookEvents, receipts>>

\* getCheckout, called by a webhook (the provider reports a change) or by a
\* status poll (the latest transaction is still pending).
FetchCheckout(t) ==
  /\ checkout[t] # "none"
  /\ checkout[t] # "pending" \/ txnStatus[t] = "pending"
  /\ snapshots' = snapshots \cup {<<t, checkout[t]>>}
  /\ UNCHANGED <<orderVars, deliveryVars, txnOrder, txnStatus, checkout,
                 webhookEvents, receipts>>

IsStale(current, next) == current \in {"captured", "refunded"} /\ current # next

\* A fault: every capture places and confirms the order.
OrderCapturedAgain(o) ==
  /\ payStatus' = [payStatus EXCEPT ![o] = "paid"]
  /\ Move(o, "placed", "order.confirmed")

\* The effect of a captured checkout on its order.
OrderCaptured(o) ==
  /\ payStatus' = [payStatus EXCEPT ![o] = "paid"]
  /\ IF status[o] = "pending_payment"
     THEN Move(o, "placed", "order.confirmed")
     ELSE Stay

\* A fault: a failed checkout marks its order even when another one paid it.
OrderNotCapturedUnguarded(o, s) ==
  /\ payStatus' = IF s \in {"failed", "cancelled"}
                  THEN [payStatus EXCEPT ![o] = s] ELSE payStatus
  /\ Stay

\* The effect of a failed, expired or still open checkout on its order.
OrderNotCaptured(o, s) ==
  /\ payStatus' = IF s \in {"failed", "cancelled"} /\ payStatus[o] # "paid"
                  THEN [payStatus EXCEPT ![o] = s]
                  ELSE payStatus
  /\ Stay

\* A fault: the receipt is issued only by the capture that places the order.
ApplySnapshotReceiptOnPlacing(t, s) ==
  /\ txnStatus' = [txnStatus EXCEPT ![t] = s]
  /\ \E o \in txnOrder[t] :
       IF s = "captured"
       THEN /\ OrderCaptured(o)
            /\ receipts' = IF status[o] = "pending_payment"
                           THEN receipts \cup {t} ELSE receipts
       ELSE /\ OrderNotCaptured(o, s)
            /\ UNCHANGED receipts

\* The snapshot is applied for the first time and is not stale.
ApplySnapshot(t, s) ==
  /\ txnStatus' = [txnStatus EXCEPT ![t] = s]
  /\ \E o \in txnOrder[t] :
       IF s = "captured"
       THEN /\ OrderCaptured(o)
            /\ receipts' = receipts \cup {t}
       ELSE /\ OrderNotCaptured(o, s)
            /\ UNCHANGED receipts

\* A fault: the event id is the checkout id without the status.
SynchronizeCheckoutOnce(t, s) ==
  /\ <<t, s>> \in snapshots
  /\ snapshots' = snapshots \ {<<t, s>>}
  /\ webhookEvents' = webhookEvents \cup {<<t, s>>}
  /\ IF (\E e \in webhookEvents : e[1] = t) \/ IsStale(txnStatus[t], s)
     THEN UNCHANGED <<status, payStatus, history, outbox, txnStatus, receipts>>
     ELSE ApplySnapshot(t, s)
  /\ UNCHANGED <<cancelling, deliveryVars, txnOrder, checkout>>

\* synchronizeCheckout(checkout): the event row makes it once per state.
SynchronizeCheckout(t, s) ==
  /\ <<t, s>> \in snapshots
  /\ snapshots' = snapshots \ {<<t, s>>}
  /\ webhookEvents' = webhookEvents \cup {<<t, s>>}
  /\ IF <<t, s>> \in webhookEvents \/ IsStale(txnStatus[t], s)
     THEN UNCHANGED <<status, payStatus, history, outbox, txnStatus, receipts>>
     ELSE ApplySnapshot(t, s)
  /\ UNCHANGED <<cancelling, deliveryVars, txnOrder, checkout>>

\* A fault: only the idempotency key keeps an order from being collected twice.
CollectOnDeliveryTwice(o, t, collector) ==
  /\ Method[o] \in PayOnDelivery
  /\ NextTxn(t)
  /\ collector # Staff =>
       /\ assignee[o] = collector
       /\ assignment[o] \in {"accepted", "picked_up", "en_route", "arriving"}
  /\ txnOrder' = [txnOrder EXCEPT ![t] = {o}]
  /\ txnStatus' = [txnStatus EXCEPT ![t] = "captured"]
  /\ payStatus' = [payStatus EXCEPT ![o] = "paid"]
  /\ receipts' = receipts \cup {t}
  /\ Stay
  /\ UNCHANGED <<cancelling, deliveryVars, checkout, snapshots, webhookEvents>>

\* POST /payments/orders/:id/collect by staff or by the assigned driver, with
\* a fresh idempotency key.  The order status is not consulted.
CollectOnDelivery(o, t, collector) ==
  /\ Method[o] \in PayOnDelivery
  /\ NextTxn(t)
  /\ collector # Staff =>
       /\ assignee[o] = collector
       /\ assignment[o] \in {"accepted", "picked_up", "en_route", "arriving"}
  /\ payStatus[o] # "paid"
  /\ txnOrder' = [txnOrder EXCEPT ![t] = {o}]
  /\ txnStatus' = [txnStatus EXCEPT ![t] = "captured"]
  /\ payStatus' = [payStatus EXCEPT ![o] = "paid"]
  /\ receipts' = receipts \cup {t}
  /\ Stay
  /\ UNCHANGED <<cancelling, deliveryVars, checkout, snapshots, webhookEvents>>

PaymentsNext ==
  \E t \in Txns :
    \/ \E o \in Orders : CreateCheckout(o, t)
    \/ \E s \in ProviderStatuses : ProviderSettles(t, s)
    \/ FetchCheckout(t)
    \/ \E s \in ProviderStatuses : SynchronizeCheckout(t, s)
    \/ \E o \in Orders, collector \in Drivers \cup {Staff} :
         CollectOnDelivery(o, t, collector)
=============================================================================
