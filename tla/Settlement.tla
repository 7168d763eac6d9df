----------------------------- MODULE Settlement -----------------------------
(***************************************************************************)
(* The settlement of one creator's royalties.  A captured payment leaves   *)
(* an accrual; handing the order over makes it ELIGIBLE; an administrator  *)
(* approves a batch, which locks every eligible accrual; reconciliation    *)
(* reports the batch paid, which settles the accruals it locked and posts  *)
(* the payout to the ledger.  A refund may come at any moment.             *)
(*                                                                         *)
(*   server/domain.ts        approve, applySettlementPaid                  *)
(*   server/payments.ts      the accrual a capture creates, a refund       *)
(*   server/commerce-ops.ts  fulfilment                                    *)
(*   server/proof-of-reserves.ts  liabilities and reserve                  *)
(*                                                                         *)
(* The purchase cycle is OrderPayments; here a sale is captured, handed    *)
(* over and refunded in one step each.  Approval and payment read before   *)
(* they write, in two steps: on PostgreSQL (READ COMMITTED) other          *)
(* transactions commit in between, on SQLite (BEGIN IMMEDIATE) they wait.  *)
(***************************************************************************)
EXTENDS Integers, FiniteSets

CONSTANTS
    Orders,     \* orders of the creator's drops
    Price,      \* what the customer pays for each, in fils
    Royalty,    \* the creator's royalty on each, in fils
    Batches,    \* ids of settlement batches
    NoBatch,    \* accruals.settlement_batch_id IS NULL
    Dialect     \* "sqlite" or "postgres"

\* A royalty is a rounded share, below the whole, of the price of the goods.
ASSUME OrdersAssumption  == IsFiniteSet(Orders)
ASSUME AmountsAssumption == /\ Price   \in [Orders -> Nat]
                            /\ Royalty \in [Orders -> Nat]
                            /\ \A o \in Orders : Royalty[o] <= Price[o]
ASSUME BatchAssumption   == NoBatch \notin Batches
ASSUME DialectAssumption == Dialect \in {"sqlite", "postgres"}

VARIABLES
    order,      \* orders.status, "NONE" before its payment is captured
    accrual,    \* accruals.status
    batchOf,    \* accruals.settlement_batch_id
    batch,      \* settlement_batches.status
    total,      \* settlement_batches.total_fils
    ledger,     \* fils the ledger holds under each entry type
    selected,   \* open approvals: the accruals each one's SELECT returned
    paying,     \* open payments: the batch is updated, its sum verified
    refused     \* batches answered SETTLEMENT_AMOUNT_MISMATCH

saleVars  == <<order, accrual>>
batchVars == <<batchOf, batch, total>>
openVars  == <<selected, paying>>
vars == <<order, accrual, batchOf, batch, total, ledger, selected, paying, refused>>

SaleStatus    == {"NONE", "PAID", "FULFILLED", "REFUNDED"}
AccrualStatus == {"NONE", "PENDING", "ELIGIBLE", "LOCKED", "PAID", "REVERSED"}
BatchStatus   == {"NONE", "APPROVED", "PAID"}
EntryType     == {"PAYMENT_CAPTURED", "PAYMENT_REFUNDED", "SETTLEMENT_PAID"}

\* SUM(amount_fils): a token for each fils of each amount, counted.
Tokens(S, amount) == UNION {{o} \X (1..amount[o]) : o \in S}
Sum(S, amount)    == Cardinality(Tokens(S, amount))
Owed(S)           == Sum(S, Royalty)

With(statuses)  == {o \in Orders : accrual[o] \in statuses}
Eligible        == With({"ELIGIBLE"})
LockedIn(b)     == {o \in With({"LOCKED"}) : batchOf[o] = b}

Init ==
    /\ order    = [o \in Orders |-> "NONE"]
    /\ accrual  = [o \in Orders |-> "NONE"]
    /\ batchOf  = [o \in Orders |-> NoBatch]
    /\ batch    = [b \in Batches |-> "NONE"]
    /\ total    = [b \in Batches |-> 0]
    /\ ledger   = [t \in EntryType |-> 0]
    /\ selected = [b \in Batches |-> {}]
    /\ paying   = {}
    /\ refused  = {}

\* Faulty variant: SQLite transactions are not serialised.
MayAlwaysBegin == TRUE

\* SQLite lets one transaction hold the database at a time; PostgreSQL lets
\* them run side by side.
Open     == paying \cup {b \in Batches : selected[b] # {}}
MayBegin == Dialect = "sqlite" => Open = {}

Post(type, fils) == ledger' = [ledger EXCEPT ![type] = @ + fils]

-----------------------------------------------------------------------------
(* The sale, as its webhooks and the establishment move it.                 *)

\* PAID webhook: the payment is booked and the royalty accrues.
CaptureSale(o) ==
    /\ MayBegin
    /\ order[o] = "NONE"
    /\ order'   = [order EXCEPT ![o] = "PAID"]
    /\ accrual' = [accrual EXCEPT ![o] = "PENDING"]
    /\ Post("PAYMENT_CAPTURED", Price[o])
    /\ UNCHANGED <<batchVars, openVars, refused>>

\* POST /orders/:id/fulfil.
FulfilSale(o) ==
    /\ MayBegin
    /\ order[o] = "PAID"
    /\ order'   = [order EXCEPT ![o] = "FULFILLED"]
    /\ accrual' = [accrual EXCEPT ![o] = IF @ = "PENDING" THEN "ELIGIBLE" ELSE @]
    /\ UNCHANGED <<batchVars, ledger, openVars, refused>>

\* Faulty variant: a royalty already locked in a batch is not reversed.
RefundKeepsLocked(o) ==
    /\ MayBegin
    /\ order[o] \in {"PAID", "FULFILLED"}
    /\ order'   = [order EXCEPT ![o] = "REFUNDED"]
    /\ accrual' = [accrual EXCEPT ![o] = IF @ \in {"PENDING", "ELIGIBLE"} THEN "REVERSED" ELSE @]
    /\ Post("PAYMENT_REFUNDED", Price[o])
    /\ UNCHANGED <<batchVars, openVars, refused>>

\* REFUNDED webhook: the royalty is reversed unless it was paid out.  The
\* batch it may be locked in is left as it is.
RefundSale(o) ==
    /\ MayBegin
    /\ order[o] \in {"PAID", "FULFILLED"}
    /\ order'   = [order EXCEPT ![o] = "REFUNDED"]
    /\ accrual' = [accrual EXCEPT ![o] =
                      IF @ \in {"PENDING", "ELIGIBLE", "LOCKED"} THEN "REVERSED" ELSE @]
    /\ Post("PAYMENT_REFUNDED", Price[o])
    /\ UNCHANGED <<batchVars, openVars, refused>>

-----------------------------------------------------------------------------
(* POST /settlements/:creatorId/approve.                                    *)

\* The batch is worth what the SELECT returned; the UPDATE that follows
\* locks whatever is eligible when it runs.
LockAccruals(b, rows) ==
    /\ batch'   = [batch EXCEPT ![b] = "APPROVED"]
    /\ total'   = [total EXCEPT ![b] = Owed(rows)]
    /\ accrual' = [o \in Orders |-> IF o \in Eligible THEN "LOCKED" ELSE accrual[o]]
    /\ batchOf' = [o \in Orders |-> IF o \in Eligible THEN b ELSE batchOf[o]]

\* The SELECT takes no lock ...
BeginApprove(b) ==
    /\ MayBegin
    /\ batch[b] = "NONE"
    /\ selected[b] = {}
    /\ Eligible # {}
    /\ selected' = [selected EXCEPT ![b] = Eligible]
    /\ UNCHANGED <<saleVars, batchVars, ledger, paying, refused>>

\* ... and the UPDATE locks the rows up to COMMIT.
CommitApprove(b) ==
    /\ selected[b] # {}
    /\ selected' = [selected EXCEPT ![b] = {}]
    /\ LockAccruals(b, selected[b])
    /\ UNCHANGED <<order, ledger, paying, refused>>

AbortApprove(b) ==
    /\ selected[b] # {}
    /\ selected' = [selected EXCEPT ![b] = {}]
    /\ UNCHANGED <<saleVars, batchVars, ledger, paying, refused>>

-----------------------------------------------------------------------------
(* POST /internal/settlements/:id/paid, applySettlementPaid.                *)

SumMatches(b) == Owed(LockedIn(b)) = total[b]

\* Faulty variant: every locked accrual of the creator is taken as paid.
SettleCreator(b) ==
    /\ batch'   = [batch EXCEPT ![b] = "PAID"]
    /\ accrual' = [o \in Orders |-> IF accrual[o] = "LOCKED" THEN "PAID" ELSE accrual[o]]
    /\ Post("SETTLEMENT_PAID", total[b])

\* The accruals the batch holds by now are paid; the ledger entry is for the
\* batch's total.
Settle(b) ==
    /\ batch'   = [batch EXCEPT ![b] = "PAID"]
    /\ accrual' = [o \in Orders |-> IF o \in LockedIn(b) THEN "PAID" ELSE accrual[o]]
    /\ Post("SETTLEMENT_PAID", total[b])

\* The UPDATE of the batch keeps other payments of it out, and leaves a
\* batch that is PAID already alone; the accruals are then read without a
\* lock ...
BeginPay(b) ==
    /\ MayBegin
    /\ batch[b] = "APPROVED"
    /\ b \notin paying
    /\ SumMatches(b)
    /\ paying' = paying \cup {b}
    /\ UNCHANGED <<saleVars, batchVars, ledger, selected, refused>>

\* ... and updated.
CommitPay(b) ==
    /\ b \in paying
    /\ paying' = paying \ {b}
    /\ Settle(b)
    /\ UNCHANGED <<order, batchOf, total, selected, refused>>

AbortPay(b) ==
    /\ b \in paying
    /\ paying' = paying \ {b}
    /\ UNCHANGED <<saleVars, batchVars, ledger, selected, refused>>

\* The sum differs: the transaction is rolled back and the caller told so.
RefusePay(b) ==
    /\ MayBegin
    /\ batch[b] = "APPROVED"
    /\ b \notin paying
    /\ ~SumMatches(b)
    /\ refused' = refused \cup {b}
    /\ UNCHANGED <<saleVars, batchVars, ledger, openVars>>

-----------------------------------------------------------------------------
Next ==
    \/ \E o \in Orders : CaptureSale(o) \/ FulfilSale(o) \/ RefundSale(o)
    \/ \E b \in Batches : BeginApprove(b) \/ CommitApprove(b) \/ AbortApprove(b)
    \/ \E b \in Batches : BeginPay(b) \/ CommitPay(b) \/ AbortPay(b) \/ RefusePay(b)

Spec == Init /\ [][Next]_vars

-----------------------------------------------------------------------------
(* Properties.                                                              *)

\* Every row has a value its table admits, and a locked accrual names the
\* batch that locked it (migration 13).
TypeOK ==
    /\ order    \in [Orders -> SaleStatus]
    /\ accrual  \in [Orders -> AccrualStatus]
    /\ batchOf  \in [Orders -> Batches \cup {NoBatch}]
    /\ batch    \in [Batches -> BatchStatus]
    /\ total    \in [Batches -> Nat]
    /\ ledger   \in [EntryType -> Nat]
    /\ selected \in [Batches -> SUBSET Orders]
    /\ paying   \subseteq Batches
    /\ refused  \subseteq Batches
    /\ \A o \in Orders : accrual[o] = "LOCKED" => batchOf[o] \in Batches

\* The ledger has paid out exactly the royalties that are marked paid: "so
\* the payout amount can never diverge from what was actually locked"
\* (domain.ts:94-96), and never a second time (settlement.test.ts:8-13).
PayoutsMatchRoyalties == ledger["SETTLEMENT_PAID"] = Owed(With({"PAID"}))

\* gatherLiabilities and computeReserve of proof-of-reserves.ts.
Liabilities == Owed(With({"PENDING", "ELIGIBLE", "LOCKED"}))
Reserve     == ledger["PAYMENT_CAPTURED"] - ledger["SETTLEMENT_PAID"] - ledger["PAYMENT_REFUNDED"]

\* Royalties that were paid out before their sale was refunded.
WrittenOff  == Owed({o \in With({"PAID"}) : order[o] = "REFUNDED"})

\* The reserve covers what creators are still owed, but for royalties paid
\* on sales refunded later: whatever the order of captures, approvals,
\* payments and refunds, nothing else can make the attested books insolvent.
Solvent == Liabilities <= Reserve + WrittenOff

\* How the status of an accrual reads on the creator's account.
Standing ==
    [ NONE     |-> "NONE",
      PENDING  |-> "EARNED",
      ELIGIBLE |-> "DUE",
      LOCKED   |-> "DUE",
      PAID     |-> "PAID",
      REVERSED |-> "DROPPED" ]

Account ==
    INSTANCE RoyaltyAccount WITH
        paidOut <- ledger["SETTLEMENT_PAID"],
        royalty <- [o \in Orders |-> Standing[accrual[o]]]

\* A creator's royalties behave as the account that is promised: paid once,
\* in full and only when due.
ImplementsAccount == Account!Spec

\* "The locked accruals do not add up to the batch; the settlement was
\* cancelled" (domain.ts:983, translated): what a refused payment leaves is
\* not locked in the batch any more, so that it can be settled in another.
RefusedMeansCancelled == \A b \in refused : LockedIn(b) = {}
=============================================================================
