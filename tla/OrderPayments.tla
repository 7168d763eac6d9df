--------------------------- MODULE OrderPayments ---------------------------
(***************************************************************************)
(* The purchase cycle of one drop sold from one branch: an order and its   *)
(* payment intent are written in one transaction that also reserves branch *)
(* stock, the payment provider is then called outside that transaction,    *)
(* and from there four parties move the same rows: the request handler     *)
(* that is still running, the provider's webhooks (at least once, in any   *)
(* order), the sweeper that releases expired holds, and the establishment  *)
(* that hands orders over.                                                 *)
(*                                                                         *)
(*   server/orders.ts        POST /commerce/orders                         *)
(*   server/checkout.ts      stock reservation, release, hold sweeper      *)
(*   server/payments.ts      the verified webhook event                    *)
(*   server/commerce-ops.ts  fulfilment, branch stock configuration        *)
(*                                                                         *)
(* One action is one database transaction (or one statement outside any    *)
(* transaction).  The webhook transaction reads the intent before it       *)
(* writes: SQLite serialises it (BEGIN IMMEDIATE), PostgreSQL runs it at   *)
(* READ COMMITTED, where other transactions commit between the two.        *)
(***************************************************************************)
EXTENDS Integers, FiniteSets

CONSTANTS
    Orders,          \* orders, each the one an idempotency key names
    Units,           \* units of the drop each order buys
    Capacities,      \* capacities the host may configure for the branch
    QuantityCap,     \* launches.quantity_cap, units of the whole launch
    EventIds,        \* ids the provider gives to events of one status
    SharedId,        \* orders whose provider names what precedes a refund alike
    Dialect,         \* "sqlite" or "postgres": server/database.ts
    TwoStepCapture   \* does the provider authorise before it captures?

ASSUME OrdersAssumption     == IsFiniteSet(Orders)
ASSUME UnitsAssumption      == Units \in [Orders -> Nat \ {0}]
ASSUME CapacitiesAssumption == Capacities \subseteq Nat
ASSUME QuantityCapAssumption == QuantityCap \in Nat
ASSUME SharedIdAssumption   == SharedId \subseteq Orders
ASSUME DialectAssumption    == Dialect \in {"sqlite", "postgres"}
ASSUME CaptureAssumption    == TwoStepCapture \in BOOLEAN

VARIABLES
    order,      \* orders.status, "NONE" before the row exists
    intent,     \* payment_intents.status
    accrual,    \* accruals.status: the creator's royalty on the order
    reserved,   \* launch_branch_stock.reserved_units
    capacity,   \* launch_branch_stock.capacity_units
    cutoff,     \* launch_branch_stock.manual_cutoff
    ledger,     \* entries of each type the ledger holds for each order
    receipts,   \* payment_webhook_receipts that were committed
    request,    \* where the POST handler of each order stands
    elapsed,    \* has the payment window of the order passed?
    stale,      \* orders a sweep selected and has not come to yet
    reading,    \* open webhook transactions, with the intent status read
    checkout,   \* the payment at the provider
    sent        \* events the provider emitted: it may deliver each again

dbVars       == <<order, intent, accrual, reserved, ledger>>
stockVars    == <<capacity, cutoff>>
providerVars == <<checkout, sent>>
vars == <<order, intent, accrual, reserved, capacity, cutoff, ledger, receipts,
          request, elapsed, stale, reading, checkout, sent>>

OrderStatus   == {"NONE", "PENDING_PAYMENT", "PAID", "FULFILLED", "CANCELLED", "REFUNDED"}
IntentStatus  == {"NONE", "PENDING_PROVIDER", "REDIRECT_REQUIRED", "AUTHORIZED",
                  "PAID", "FAILED", "CANCELLED", "REFUNDED"}
AccrualStatus == {"NONE", "PENDING", "ELIGIBLE", "LOCKED", "PAID", "REVERSED"}
EntryType     == {"ORDER_CREATED", "PAYMENT_CAPTURED", "PAYMENT_REFUNDED", "ORDER_FULFILLED"}
EventStatus   == {"AUTHORIZED", "PAID", "FAILED", "CANCELLED", "REFUNDED"}
RequestStep   == {"NONE", "CALLING", "AUDITING", "RELEASING", "DONE", "CRASHED"}
CheckoutState == {"NONE", "OPEN"} \cup EventStatus

Event   == [order : Orders, status : EventStatus, id : EventIds]
Reading == [event : Event, seen : IntentStatus]

\* The key of the receipt.  LemonSqueezy's is `order_created:<its order>'
\* whatever that event says of the payment, and `order_refunded:...'; of
\* MyFatoorah's, an opaque reference, we take each status to have its own.
EventKey(e) ==
    <<e.order, e.id, IF e.order \in SharedId /\ e.status # "REFUNDED"
                     THEN "order_created" ELSE e.status>>

\* Statuses whose units the branch owes: CAP_CONSUMING_STATUSES.
Holding == {"PENDING_PAYMENT", "PAID", "FULFILLED"}

\* The units the branch owes: a token for each unit of each order that holds.
Tokens(o) == {o} \X (1..Units[o])
HeldUnits == UNION {Tokens(o) : o \in {p \in Orders : order[p] \in Holding}}

Init ==
    /\ order    = [o \in Orders |-> "NONE"]
    /\ intent   = [o \in Orders |-> "NONE"]
    /\ accrual  = [o \in Orders |-> "NONE"]
    /\ reserved = 0
    /\ capacity \in Capacities
    /\ cutoff   = FALSE
    /\ ledger   = [o \in Orders |-> [t \in EntryType |-> 0]]
    /\ receipts = {}
    /\ request  = [o \in Orders |-> "NONE"]
    /\ elapsed  = [o \in Orders |-> FALSE]
    /\ stale    = {}
    /\ reading  = {}
    /\ checkout = [o \in Orders |-> "NONE"]
    /\ sent     = {}

-----------------------------------------------------------------------------
(* Helpers shared by the transactions.                                      *)

AppendLedgerEntry(o, type) == ledger' = [ledger EXCEPT ![o][type] = @ + 1]

\* Faulty variant: any remaining unit is taken for enough.
ReserveIfAnyLeft(o) ==
    /\ ~cutoff
    /\ reserved < capacity
    /\ reserved' = reserved + Units[o]

\* The conditional UPDATE: the units fit and the branch is not cut off.
ReserveBranchStock(o) ==
    /\ ~cutoff
    /\ reserved + Units[o] <= capacity
    /\ reserved' = reserved + Units[o]

\* Faulty variant: the units go back whether or not the row changed.
ReleaseTwice(o, next, from) ==
    /\ order'    = IF order[o] \in from THEN [order EXCEPT ![o] = next] ELSE order
    /\ reserved' = IF reserved >= Units[o] THEN reserved - Units[o] ELSE reserved

\* Guarded status change; the units go back in the same transaction.
ReleaseOrderReservation(o, next, from) ==
    \/ /\ order[o] \in from
       /\ order'    = [order EXCEPT ![o] = next]
       /\ reserved' = IF reserved >= Units[o] THEN reserved - Units[o] ELSE reserved
    \/ /\ order[o] \notin from
       /\ UNCHANGED <<order, reserved>>

\* Faulty variant: a payment is captured at once or not at all.
CaptureAtOnce ==
    [ NONE              |-> {},
      PENDING_PROVIDER  |-> {"REDIRECT_REQUIRED", "AUTHORIZED", "FAILED", "CANCELLED"},
      REDIRECT_REQUIRED |-> {"AUTHORIZED", "PAID", "FAILED", "CANCELLED"},
      AUTHORIZED        |-> {"FAILED", "CANCELLED"},
      PAID              |-> {"REFUNDED"},
      FAILED            |-> {},
      CANCELLED         |-> {},
      REFUNDED          |-> {} ]

AllowedTransitions ==
    [ NONE              |-> {},
      PENDING_PROVIDER  |-> {"REDIRECT_REQUIRED", "AUTHORIZED", "FAILED", "CANCELLED"},
      REDIRECT_REQUIRED |-> {"AUTHORIZED", "PAID", "FAILED", "CANCELLED"},
      AUTHORIZED        |-> {"PAID", "FAILED", "CANCELLED"},
      PAID              |-> {"REFUNDED"},
      FAILED            |-> {},
      CANCELLED         |-> {},
      REFUNDED          |-> {} ]

-----------------------------------------------------------------------------
(* POST /commerce/orders.                                                   *)

\* The reservation transaction.  A replayed idempotency key finds the order
\* and changes nothing, so each order is created once.  The UPDATE of the
\* stock row comes first and serialises the reservations of the branch, so
\* the units already sold are counted as they are.
CreateOrder(o) ==
    /\ order[o] = "NONE"
    /\ ReserveBranchStock(o)
    /\ Cardinality(HeldUnits) + Units[o] <= QuantityCap
    /\ intent'  = [intent EXCEPT ![o] = "PENDING_PROVIDER"]
    /\ order'   = [order EXCEPT ![o] = "PENDING_PAYMENT"]
    /\ AppendLedgerEntry(o, "ORDER_CREATED")
    /\ request' = [request EXCEPT ![o] = "CALLING"]
    /\ UNCHANGED <<accrual, stockVars, receipts, elapsed, stale, reading, providerVars>>

\* The provider answered: its reference and the redirect are stored, with no
\* condition on the status the intent has by now.
StoreReference(o) ==
    /\ request[o] = "CALLING"
    /\ intent'   = [intent EXCEPT ![o] = "REDIRECT_REQUIRED"]
    /\ checkout' = [checkout EXCEPT ![o] = "OPEN"]
    /\ request'  = [request EXCEPT ![o] = "AUDITING"]
    /\ UNCHANGED <<order, accrual, reserved, stockVars, ledger, receipts,
                   elapsed, stale, reading, sent>>

\* The audit row is written and the order read back: 201.
Respond(o) ==
    /\ request[o] = "AUDITING"
    /\ request' = [request EXCEPT ![o] = "DONE"]
    /\ UNCHANGED <<dbVars, stockVars, receipts, elapsed, stale, reading, providerVars>>

\* The provider call, or a statement after it, threw: the catch block marks
\* the intent FAILED, again with no condition on its status ...
MarkIntentFailed(o) ==
    /\ request[o] \in {"CALLING", "AUDITING"}
    /\ intent'  = [intent EXCEPT ![o] = "FAILED"]
    /\ request' = [request EXCEPT ![o] = "RELEASING"]
    /\ UNCHANGED <<order, accrual, reserved, stockVars, ledger, receipts,
                   elapsed, stale, reading, providerVars>>

\* Faulty variant: the catch block cancels an order that was paid meanwhile.
CancelFailedOrder(o) ==
    /\ request[o] = "RELEASING"
    /\ ReleaseOrderReservation(o, "CANCELLED", {"PENDING_PAYMENT", "PAID"})
    /\ request' = [request EXCEPT ![o] = "DONE"]
    /\ UNCHANGED <<intent, accrual, stockVars, ledger, receipts,
                   elapsed, stale, reading, providerVars>>

\* ... and releases the order in a transaction of its own.
ReleaseFailedOrder(o) ==
    /\ request[o] = "RELEASING"
    /\ ReleaseOrderReservation(o, "CANCELLED", {"PENDING_PAYMENT"})
    /\ request' = [request EXCEPT ![o] = "DONE"]
    /\ UNCHANGED <<intent, accrual, stockVars, ledger, receipts,
                   elapsed, stale, reading, providerVars>>

\* The instance stops between two of the handler's statements.
HandlerCrash(o) ==
    /\ request[o] \in {"CALLING", "AUDITING", "RELEASING"}
    /\ request' = [request EXCEPT ![o] = "CRASHED"]
    /\ UNCHANGED <<dbVars, stockVars, receipts, elapsed, stale, reading, providerVars>>

-----------------------------------------------------------------------------
(* The payment provider (outside the repository): what its events say.      *)

\* A customer who has the checkout page pays, gives up or is declined; the
\* provider authorises first only when it is configured to.  Nothing in the
\* repository closes the page.  A declined page is taken to be closed.
CheckoutMoves ==
    [ NONE       |-> {},
      OPEN       |-> {"PAID", "FAILED", "CANCELLED"}
                         \cup (IF TwoStepCapture THEN {"AUTHORIZED"} ELSE {}),
      AUTHORIZED |-> {"PAID", "FAILED", "CANCELLED"},
      PAID       |-> {"REFUNDED"},
      FAILED     |-> {},
      CANCELLED  |-> {},
      REFUNDED   |-> {} ]

ProviderMoves(o) ==
    /\ \E s \in CheckoutMoves[checkout[o]] :
          /\ checkout' = [checkout EXCEPT ![o] = s]
          /\ sent'     = sent \cup {[order |-> o, status |-> s, id |-> i] : i \in EventIds}
    /\ UNCHANGED <<dbVars, stockVars, receipts, request, elapsed, stale, reading>>

-----------------------------------------------------------------------------
(* The verified webhook event, applyVerifiedPaymentEventInner.  `seen' is   *)
(* the intent status its SELECT returned.                                   *)

\* A committed receipt under the event's key ends the delivery: with the
\* same payload as a duplicate, with another as WEBHOOK_REPLAY_PAYLOAD_-
\* MISMATCH.  An illegal transition throws, which rolls the receipt back so
\* that the provider tries again.
Applicable(e, seen) ==
    /\ e \in sent
    /\ \A d \in receipts : EventKey(d) # EventKey(e)
    /\ seen = e.status \/ e.status \in AllowedTransitions[seen]

\* PAID: ledger entry, order marked PAID whatever its status is, and one
\* royalty accrual per order.
Capture(o) ==
    /\ AppendLedgerEntry(o, "PAYMENT_CAPTURED")
    /\ order'   = [order EXCEPT ![o] = "PAID"]
    /\ accrual' = [accrual EXCEPT ![o] = IF @ = "NONE" THEN "PENDING" ELSE @]
    /\ UNCHANGED reserved

\* Faulty variant: a fulfilled order is not among the statuses released.
RefundUnfulfilled(o) ==
    /\ AppendLedgerEntry(o, "PAYMENT_REFUNDED")
    /\ ReleaseOrderReservation(o, "REFUNDED", {"PENDING_PAYMENT", "PAID"})
    /\ accrual' = [accrual EXCEPT ![o] =
                      IF @ \in {"PENDING", "ELIGIBLE", "LOCKED"} THEN "REVERSED" ELSE @]

\* REFUNDED: ledger entry, the order and its units released, the royalty
\* reversed unless it was paid out.
Refund(o) ==
    /\ AppendLedgerEntry(o, "PAYMENT_REFUNDED")
    /\ ReleaseOrderReservation(o, "REFUNDED", Holding)
    /\ accrual' = [accrual EXCEPT ![o] =
                      IF @ \in {"PENDING", "ELIGIBLE", "LOCKED"} THEN "REVERSED" ELSE @]

\* The writes of the event.  A second event of the status the intent was
\* read in leaves a receipt and nothing else.
ApplyEvent(e, seen) ==
    /\ receipts' = receipts \cup {e}
    /\ \/ /\ seen = e.status
          /\ UNCHANGED dbVars
       \/ /\ seen # e.status
          /\ intent' = [intent EXCEPT ![e.order] = e.status]
          /\ \/ /\ e.status = "PAID"
                /\ Capture(e.order)
             \/ /\ e.status = "REFUNDED"
                /\ Refund(e.order)
             \/ /\ e.status \in {"FAILED", "CANCELLED"}
                /\ ReleaseOrderReservation(e.order, "CANCELLED", {"PENDING_PAYMENT"})
                /\ UNCHANGED <<accrual, ledger>>
             \/ /\ e.status = "AUTHORIZED"
                /\ UNCHANGED <<order, accrual, reserved, ledger>>

\* SQLite: the whole transaction holds the database.
DeliverEvent(e) ==
    /\ Dialect = "sqlite"
    /\ Applicable(e, intent[e.order])
    /\ ApplyEvent(e, intent[e.order])
    /\ UNCHANGED <<stockVars, request, elapsed, stale, reading, providerVars>>

\* PostgreSQL: the receipt is inserted (its primary key keeps a second
\* delivery under the same key out until this one ends) and the intent read
\* without a lock.
BeginEvent(e) ==
    /\ Dialect = "postgres"
    /\ \A r \in reading : EventKey(r.event) # EventKey(e)
    /\ Applicable(e, intent[e.order])
    /\ reading' = reading \cup {[event |-> e, seen |-> intent[e.order]]}
    /\ UNCHANGED <<dbVars, stockVars, receipts, request, elapsed, stale, providerVars>>

\* The UPDATE of the intent, by id alone, takes its row lock, and what
\* follows runs to COMMIT: whoever meets that lock waits or is the victim of
\* a deadlock.
CommitEvent(r) ==
    /\ r \in reading
    /\ reading' = reading \ {r}
    /\ ApplyEvent(r.event, r.seen)
    /\ UNCHANGED <<stockVars, request, elapsed, stale, providerVars>>

\* ROLLBACK: connection lost, instance stopped, chosen as deadlock victim.
AbortEvent(r) ==
    /\ r \in reading
    /\ reading' = reading \ {r}
    /\ UNCHANGED <<dbVars, stockVars, receipts, request, elapsed, stale, providerVars>>

-----------------------------------------------------------------------------
(* The hold sweeper, expireStaleHolds, on every instance.                   *)

\* The fifteen minutes pass.  A handler ends long before: its provider call
\* is cut off after twelve seconds.
HoldElapses(o) ==
    /\ order[o] = "PENDING_PAYMENT"
    /\ request[o] \in {"DONE", "CRASHED"}
    /\ ~elapsed[o]
    /\ elapsed' = [elapsed EXCEPT ![o] = TRUE]
    /\ UNCHANGED <<dbVars, stockVars, receipts, request, stale, reading, providerVars>>

\* Faulty variant: the hold of a request that never reached the provider's
\* page is not looked for.
StaleRedirects ==
    {o \in Orders : /\ order[o] = "PENDING_PAYMENT"
                    /\ elapsed[o]
                    /\ intent[o] = "REDIRECT_REQUIRED"}

\* What the sweep's SELECT, outside any transaction, returns.
StaleHolds ==
    {o \in Orders : /\ order[o] = "PENDING_PAYMENT"
                    /\ elapsed[o]
                    /\ intent[o] \in {"PENDING_PROVIDER", "REDIRECT_REQUIRED"}}

SelectStaleHolds ==
    /\ ~(StaleHolds \subseteq stale)
    /\ stale' = stale \cup StaleHolds
    /\ UNCHANGED <<dbVars, stockVars, receipts, request, elapsed, reading, providerVars>>

\* One transaction per selected row; it checks the order again, and the
\* intent only to decide whether to cancel it too.
ExpireHold(o) ==
    /\ o \in stale
    /\ stale' = stale \ {o}
    /\ ReleaseOrderReservation(o, "CANCELLED", {"PENDING_PAYMENT"})
    /\ intent' = IF /\ order[o] = "PENDING_PAYMENT"
                    /\ intent[o] \in {"PENDING_PROVIDER", "REDIRECT_REQUIRED"}
                 THEN [intent EXCEPT ![o] = "CANCELLED"]
                 ELSE intent
    /\ UNCHANGED <<accrual, stockVars, ledger, receipts, request, elapsed, reading, providerVars>>

-----------------------------------------------------------------------------
(* The establishment.                                                       *)

\* Faulty variant: the royalty is left behind when the order is handed over.
FulfilWithoutRoyalty(o) ==
    /\ order[o] = "PAID"
    /\ order'   = [order EXCEPT ![o] = "FULFILLED"]
    /\ AppendLedgerEntry(o, "ORDER_FULFILLED")
    /\ UNCHANGED <<intent, accrual, reserved, stockVars, receipts, request, elapsed,
                   stale, reading, providerVars>>

\* POST /orders/:id/fulfil: the conditional UPDATE decides who wins.
FulfilOrder(o) ==
    /\ order[o] = "PAID"
    /\ order'   = [order EXCEPT ![o] = "FULFILLED"]
    /\ accrual' = [accrual EXCEPT ![o] = IF @ = "PENDING" THEN "ELIGIBLE" ELSE @]
    /\ AppendLedgerEntry(o, "ORDER_FULFILLED")
    /\ UNCHANGED <<intent, reserved, stockVars, receipts, request, elapsed,
                   stale, reading, providerVars>>

\* PUT .../stock of a configured branch: the CHECK of the table refuses a
\* capacity below what is reserved, whatever the handler read before.
ConfigureStock(c, off) ==
    /\ reserved <= c
    /\ <<c, off>> # <<capacity, cutoff>>
    /\ capacity' = c
    /\ cutoff'   = off
    /\ UNCHANGED <<dbVars, receipts, request, elapsed, stale, reading, providerVars>>

-----------------------------------------------------------------------------
RequestNext(o) ==
    StoreReference(o) \/ Respond(o) \/ MarkIntentFailed(o) \/ ReleaseFailedOrder(o)

Next ==
    \/ \E o \in Orders : CreateOrder(o) \/ RequestNext(o) \/ HandlerCrash(o)
    \/ \E o \in Orders : ProviderMoves(o)
    \/ \E e \in Event : DeliverEvent(e) \/ BeginEvent(e)
    \/ \E r \in reading : CommitEvent(r) \/ AbortEvent(r)
    \/ SelectStaleHolds
    \/ \E o \in Orders : HoldElapses(o) \/ ExpireHold(o)
    \/ \E o \in Orders : FulfilOrder(o)
    \/ \E c \in Capacities, off \in BOOLEAN : ConfigureStock(c, off)

Spec == Init /\ [][Next]_vars

-----------------------------------------------------------------------------
(* Fairness.  The handler runs on unless its instance stops, the window of  *)
(* a hold passes, the sweeper's loop comes round and the provider repeats   *)
(* an event until it is acknowledged.  Customers, the establishment and the *)
(* provider's own decisions owe nothing.                                    *)

Fairness ==
    /\ \A o \in Orders : /\ WF_vars(RequestNext(o))
                         /\ WF_vars(HoldElapses(o))
                         /\ WF_vars(ExpireHold(o))
    /\ WF_vars(SelectStaleHolds)
    /\ \A e \in Event : WF_vars(DeliverEvent(e))

FairSpec == Spec /\ Fairness

-----------------------------------------------------------------------------
(* Properties.                                                              *)

\* Every row has a value its table admits; the stock row keeps its CHECK.
TypeOK ==
    /\ order    \in [Orders -> OrderStatus]
    /\ intent   \in [Orders -> IntentStatus]
    /\ accrual  \in [Orders -> AccrualStatus]
    /\ reserved \in Nat
    /\ capacity \in Capacities
    /\ reserved <= capacity
    /\ cutoff   \in BOOLEAN
    /\ ledger   \in [Orders -> [EntryType -> Nat]]
    /\ receipts \subseteq Event
    /\ request  \in [Orders -> RequestStep]
    /\ elapsed  \in [Orders -> BOOLEAN]
    /\ stale    \subseteq Orders
    /\ reading  \subseteq Reading
    /\ checkout \in [Orders -> CheckoutState]
    /\ sent     \subseteq Event

\* "the reservation ledger (launch_branch_stock) can never drift from the
\* orders it backs" (checkout.ts:5-6): what is reserved is what the orders
\* that hold stock add up to.
StockBacksOrders == reserved = Cardinality(HeldUnits)

Captured(o)   == ledger[o]["PAYMENT_CAPTURED"]
Refunded(o)   == ledger[o]["PAYMENT_REFUNDED"]
HandedOver(o) == ledger[o]["ORDER_FULFILLED"]

SaleBooked(o) ==
    /\ Refunded(o) <= Captured(o) /\ Captured(o) <= 1
    /\ order[o] \in {"PAID", "FULFILLED"} <=> Captured(o) = 1 /\ Refunded(o) = 0
    /\ order[o] = "REFUNDED" => Refunded(o) = 1

\* An order counts as a sale exactly while the ledger holds one capture of
\* its payment and no refund: no webhook, however repeated, delayed or
\* overtaken by the sweeper, the handler's catch block or another webhook,
\* books a payment twice or leaves a sale without its money.
LedgerBacksSales == \A o \in Orders : SaleBooked(o)

RoyaltyDue(o) ==
    /\ accrual[o] \in {"ELIGIBLE", "LOCKED"} => order[o] = "FULFILLED"
    /\ accrual[o] = "PENDING" <=> order[o] = "PAID"
    /\ order[o] = "FULFILLED" =>
          HandedOver(o) = 1 /\ accrual[o] \in {"ELIGIBLE", "LOCKED", "PAID"}

\* A royalty is payable only on an order that was handed over and was not
\* refunded (payments.ts:481-483, "never paid for an order that was not
\* delivered"), and every sale has its royalty: PENDING while the order is
\* paid, payable or paid out once it is handed over.
RoyaltyFollowsDelivery == \A o \in Orders : RoyaltyDue(o)

\* Of expireStaleHolds, "an AUTHORIZED intent is awaiting capture and keeps
\* its stock" (checkout.ts:103): the sweep takes no hold away from an order
\* whose payment is authorised by then.
SweepSparesAuthorized ==
    [][\A o \in stale \ stale' :
          order[o] = "PENDING_PAYMENT" /\ intent[o] = "AUTHORIZED"
              => order'[o] = "PENDING_PAYMENT"]_vars

\* No order stays unpaid for ever, unless the provider authorised its
\* payment or the handler stopped between marking the intent FAILED and
\* releasing the order.
HoldsEnd ==
    \A o \in Orders :
        order[o] = "PENDING_PAYMENT" ~>
            (order[o] # "PENDING_PAYMENT" \/ intent[o] = "AUTHORIZED"
                \/ (intent[o] = "FAILED" /\ request[o] = "CRASHED"))

\* The receipt of an authorisation lies under the key of the capture.
KeyTaken(o) ==
    o \in SharedId /\ \E d \in receipts : d.order = o /\ d.status = "AUTHORIZED"

\* A payment the provider took is booked, unless its hold was given up
\* first, or the provider gave the capture the id of the authorisation that
\* was received before it.
PaymentsBooked ==
    \A o \in Orders :
        checkout[o] = "PAID" ~>
            (Captured(o) = 1 \/ intent[o] \in {"FAILED", "CANCELLED"} \/ KeyTaken(o))

\* The whole cycle implements the drop sale it promises: orders move along
\* one path, nothing is sold beyond the capacity, and a cancelled order
\* stays cancelled.
Sale == INSTANCE DropSale WITH status <- order, limit <- capacity
ImplementsDropSale == Sale!Spec

\* SECURITY_MODEL.md:31: the provider's event is refused when the path of
\* statuses differs, so a webhook only ever moves an intent along
\* AllowedTransitions.
EventsFollowStatusPath ==
    [][\A e \in receipts' \ receipts :
          intent'[e.order] # intent[e.order] =>
              e.status \in AllowedTransitions[intent[e.order]]]_vars
=============================================================================
