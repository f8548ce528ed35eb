------------------------------ MODULE Refunds ------------------------------
(***************************************************************************)
(* RefundsService: refund requests against a captured SumUp transaction    *)
(* and their approval, which returns the money through the provider inside *)
(* the database transaction.                                               *)
(*                                                                         *)
(* approve keeps the refund and the payment row locked while it calls the  *)
(* provider and takes the order lock last.  When anything after the call   *)
(* fails, the transaction rolls back, whatever the provider did, and a     *)
(* second, unlocked statement marks the refund "failed": two steps, with   *)
(* the process possibly dying before either.  A refund id stands for one   *)
(* (transaction, idempotency key) pair.                                    *)
(***************************************************************************)
EXTENDS Payments, FiniteSets

CONSTANTS RefundIds,   \* bound: refunds ever requested
          Amount       \* orders.grand_total_minor of every order

ASSUME RefundsAssumption == Amount \in Nat \ {0} /\ IsFiniteSet(RefundIds)

VARIABLES
  refundTxn,      \* refunds.payment_transaction_id, {} before the row exists
  refundAmount,   \* refunds.amount_minor
  refundStatus,   \* refunds.status, "none" before the row exists
  failing,        \* refunds whose approval rolled back, not yet marked failed
  returned        \* transactions the provider has returned money of

refundVars == <<refundTxn, refundAmount, refundStatus, failing, returned>>

\* "processing" is overwritten before the approval commits.
RefundStatuses == {"requested", "refunded", "failed"}

RefundsTypeOK ==
  /\ refundTxn \in [RefundIds -> SUBSET Txns]
  /\ refundAmount \in [RefundIds -> 0 .. Amount]
  /\ refundStatus \in [RefundIds -> RefundStatuses \cup {"none"}]
  /\ failing \in SUBSET RefundIds
  /\ returned \in SUBSET Txns

RefundsInit ==
  /\ refundTxn = [r \in RefundIds |-> {}]
  /\ refundAmount = [r \in RefundIds |-> 0]
  /\ refundStatus = [r \in RefundIds |-> "none"]
  /\ failing = {}
  /\ returned = {}

-----------------------------------------------------------------------------
\* The minor units of the refunds of t that count as committed.
RefundedUnits(t) ==
  {u \in RefundIds \X (1 .. Amount) : /\ t \in refundTxn[u[1]]
                                     /\ refundStatus[u[1]] = "refunded"
                                     /\ u[2] <= refundAmount[u[1]]}

\* SUM(amount) over the refunds of t that count as committed.
RefundedTotal(t) == Cardinality(RefundedUnits(t))

\* The payment create looks at: the latest SumUp transaction not failed.
LatestPayment(o, t) ==
  /\ o \in txnOrder[t] /\ checkout[t] # "none" /\ txnStatus[t] # "failed"
  /\ \A u \in Txns : /\ o \in txnOrder[u]
                     /\ checkout[u] # "none"
                     /\ txnStatus[u] # "failed"
                     => u <= t

\* POST /refunds
RequestRefund(r, o, t, amount) ==
  /\ refundStatus[r] = "none"
  /\ LatestPayment(o, t)
  /\ txnStatus[t] \in {"captured", "partially_refunded"}
  /\ RefundedTotal(t) + amount <= Amount
  /\ refundTxn' = [refundTxn EXCEPT ![r] = {t}]
  /\ refundAmount' = [refundAmount EXCEPT ![r] = amount]
  /\ refundStatus' = [refundStatus EXCEPT ![r] = "requested"]
  /\ UNCHANGED <<orderVars, deliveryVars, paymentVars, failing, returned>>

\* A fault: approve trusts that create has compared the refund with the others.
RefundableTrusted(r, t) == refundAmount[r] <= Amount

\* approve compares the refund once more, with those carried out since it was
\* requested: requests do not count for each other.
Refundable(r, t) == RefundedTotal(t) + refundAmount[r] <= Amount

\* The checks of approve before it calls the provider.
Approvable(r, t) ==
  /\ t \in refundTxn[r]
  /\ refundStatus[r] = "requested"
  /\ Refundable(r, t)

\* The provider carries out any refund it is asked for: that it would refuse
\* one beyond its own capture is not assumed.
ProviderReturns(t) == returned' = returned \cup {t}

\* A fault: the refund is compared with the payment alone, without the others.
RefundedAfterAlone(r, t) == refundAmount[r]

\* The refunds of t once r is carried out.
RefundedAfter(r, t) == RefundedTotal(t) + refundAmount[r]

\* PATCH /refunds/:id/approve, to the end.
ApproveRefund(r, t) ==
  LET next == IF RefundedAfter(r, t) = Amount
              THEN "refunded" ELSE "partially_refunded"
  IN /\ Approvable(r, t)
     /\ ProviderReturns(t)
     /\ refundStatus' = [refundStatus EXCEPT ![r] = "refunded"]
     /\ txnStatus' = [txnStatus EXCEPT ![t] = next]
     /\ \E o \in txnOrder[t] : payStatus' = [payStatus EXCEPT ![o] = next]
     /\ Stay
     /\ UNCHANGED <<cancelling, deliveryVars, txnOrder, checkout, snapshots,
                    webhookEvents, receipts, refundTxn, refundAmount, failing>>

\* The provider call, or a write after it, throws and the approval rolls
\* back.  A timed-out call may have moved the money, and so may one whose
\* later write failed (a deadlock, a lost connection).
ApproveFails(r, t) ==
  /\ Approvable(r, t)
  /\ failing' = failing \cup {r}
  /\ ProviderReturns(t) \/ UNCHANGED returned
  /\ UNCHANGED <<orderVars, deliveryVars, paymentVars, refundTxn,
                 refundAmount, refundStatus>>

\* The process dies after the provider returned the money and before commit.
ApproveCrashes(r, t) ==
  /\ Approvable(r, t)
  /\ ProviderReturns(t)
  /\ UNCHANGED <<orderVars, deliveryVars, paymentVars, refundTxn,
                 refundAmount, refundStatus, failing>>

\* The statement after the rollback; it does not look at the row.
MarkFailed(r) ==
  /\ r \in failing
  /\ failing' = failing \ {r}
  /\ refundStatus' = [refundStatus EXCEPT ![r] = "failed"]
  /\ UNCHANGED <<orderVars, deliveryVars, paymentVars, refundTxn,
                 refundAmount, returned>>

RefundsNext ==
  \E r \in RefundIds :
    \/ \E o \in Orders, t \in Txns, amount \in 1 .. Amount :
         RequestRefund(r, o, t, amount)
    \/ \E t \in Txns :
         ApproveRefund(r, t) \/ ApproveFails(r, t) \/ ApproveCrashes(r, t)
    \/ MarkFailed(r)
=============================================================================
