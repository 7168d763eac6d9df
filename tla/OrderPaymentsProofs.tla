------------------------ MODULE OrderPaymentsProofs ------------------------
(***************************************************************************)
(* Theorems about OrderPayments, for any orders, units, capacities and     *)
(* event ids.                                                              *)
(*                                                                         *)
(* TypeCorrect holds of every deployment.  The others assume what they     *)
(* need and the runs show they need.  Ledger and royalties: that webhook   *)
(* transactions are serialised (Dialect = "sqlite"), or that the provider  *)
(* gives each status of an order one event id.  Stock: that they are       *)
(* serialised and the provider captures in one step.                       *)
(***************************************************************************)
EXTENDS OrderPayments, FiniteSetTheorems, TLAPS

-----------------------------------------------------------------------------
(* Type correctness.                                                        *)

LEMMA LedgerEntryType ==
    ASSUME TypeOK, NEW o \in Orders, NEW t \in EntryType, AppendLedgerEntry(o, t)
    PROVE  ledger' \in [Orders -> [EntryType -> Nat]]
BY DEF TypeOK, AppendLedgerEntry

\* A release leaves well-typed rows and never reserves more.
LEMMA ReleaseType ==
    ASSUME TypeOK, NEW o \in Orders, NEW next \in OrderStatus, NEW from,
           ReleaseOrderReservation(o, next, from)
    PROVE  /\ order' \in [Orders -> OrderStatus]
           /\ reserved' \in Nat
           /\ reserved' <= capacity
BY UnitsAssumption, CapacitiesAssumption DEF TypeOK, ReleaseOrderReservation

LEMMA ApplyEventType ==
    ASSUME TypeOK, NEW e \in Event, NEW seen, ApplyEvent(e, seen),
           capacity' = capacity
    PROVE  /\ order'    \in [Orders -> OrderStatus]
           /\ intent'   \in [Orders -> IntentStatus]
           /\ accrual'  \in [Orders -> AccrualStatus]
           /\ reserved' \in Nat
           /\ reserved' <= capacity
           /\ ledger'   \in [Orders -> [EntryType -> Nat]]
           /\ receipts' \subseteq Event
<1> DEFINE o == e.order
<1>1. o \in Orders /\ e.status \in EventStatus
  BY DEF Event
<1>2. receipts' \subseteq Event
  BY DEF ApplyEvent, TypeOK
<1>3. CASE seen = e.status
  BY <1>2, <1>3 DEF ApplyEvent, TypeOK, dbVars
<1>4. CASE seen # e.status
  <2>1. intent' \in [Orders -> IntentStatus]
    BY <1>1, <1>4 DEF ApplyEvent, TypeOK, IntentStatus, EventStatus
  <2>2. CASE Capture(o)
    <3>1. ledger' \in [Orders -> [EntryType -> Nat]]
      BY <1>1, <2>2, LedgerEntryType DEF Capture, EntryType
    <3>2. order' \in [Orders -> OrderStatus] /\ accrual' \in [Orders -> AccrualStatus]
      BY <1>1, <2>2 DEF Capture, TypeOK, OrderStatus, AccrualStatus
    <3> QED
      BY <1>2, <2>1, <2>2, <3>1, <3>2 DEF Capture, TypeOK
  <2>3. CASE Refund(o)
    <3>1. ledger' \in [Orders -> [EntryType -> Nat]]
      BY <1>1, <2>3, LedgerEntryType DEF Refund, EntryType
    <3>2. accrual' \in [Orders -> AccrualStatus]
      BY <1>1, <2>3 DEF Refund, TypeOK, AccrualStatus
    <3>3. ReleaseOrderReservation(o, "REFUNDED", Holding)
      BY <2>3 DEF Refund
    <3> QED
      BY <1>1, <1>2, <2>1, <3>1, <3>2, <3>3, ReleaseType DEF OrderStatus
  <2>4. CASE /\ ReleaseOrderReservation(o, "CANCELLED", {"PENDING_PAYMENT"})
             /\ UNCHANGED <<accrual, ledger>>
    BY <1>1, <1>2, <2>1, <2>4, ReleaseType DEF TypeOK, OrderStatus
  <2>5. CASE UNCHANGED <<order, accrual, reserved, ledger>>
    BY <1>2, <2>1, <2>5 DEF TypeOK
  <2> QED
    BY <1>4, <2>2, <2>3, <2>4, <2>5 DEF ApplyEvent
<1> QED
  BY <1>3, <1>4

LEMMA InitType == Init => TypeOK
<1> SUFFICES ASSUME Init PROVE TypeOK
  OBVIOUS
<1>1. capacity \in Capacities /\ reserved \in Nat /\ reserved <= capacity
  BY CapacitiesAssumption DEF Init
<1>2. ledger \in [Orders -> [EntryType -> Nat]]
  BY DEF Init
<1>3. /\ order    \in [Orders -> OrderStatus]
      /\ intent   \in [Orders -> IntentStatus]
      /\ accrual  \in [Orders -> AccrualStatus]
      /\ request  \in [Orders -> RequestStep]
      /\ checkout \in [Orders -> CheckoutState]
  BY DEF Init, OrderStatus, IntentStatus, AccrualStatus, RequestStep, CheckoutState
<1>4. /\ cutoff \in BOOLEAN
      /\ elapsed \in [Orders -> BOOLEAN]
      /\ receipts \subseteq Event
      /\ stale \subseteq Orders
      /\ reading \subseteq Reading
      /\ sent \subseteq Event
  BY DEF Init
<1> QED
  BY <1>1, <1>2, <1>3, <1>4 DEF TypeOK

\* One step per action of Next.
LEMMA NextType == TypeOK /\ [Next]_vars => TypeOK'
<1> SUFFICES ASSUME TypeOK, [Next]_vars PROVE TypeOK'
  OBVIOUS
<1> USE DEF dbVars, stockVars, providerVars
<1>1. ASSUME NEW o \in Orders, CreateOrder(o) PROVE TypeOK'
  <2>1. ledger' \in [Orders -> [EntryType -> Nat]]
    BY <1>1, LedgerEntryType DEF CreateOrder, EntryType
  <2>2. Units[o] \in Nat /\ reserved \in Nat
    BY UnitsAssumption DEF TypeOK
  <2>3. reserved' \in Nat /\ reserved' <= capacity'
    BY <1>1, <2>2 DEF CreateOrder, ReserveBranchStock
  <2> QED
    BY <1>1, <2>1, <2>3
       DEF CreateOrder, TypeOK, OrderStatus, IntentStatus, RequestStep
<1>2. ASSUME NEW o \in Orders, StoreReference(o) PROVE TypeOK'
  BY <1>2 DEF StoreReference, TypeOK, IntentStatus, RequestStep, CheckoutState
<1>3. ASSUME NEW o \in Orders, Respond(o) PROVE TypeOK'
  BY <1>3 DEF Respond, TypeOK, RequestStep
<1>4. ASSUME NEW o \in Orders, MarkIntentFailed(o) PROVE TypeOK'
  BY <1>4 DEF MarkIntentFailed, TypeOK, IntentStatus, RequestStep
<1>5. ASSUME NEW o \in Orders, ReleaseFailedOrder(o) PROVE TypeOK'
  BY <1>5, ReleaseType DEF ReleaseFailedOrder, TypeOK, OrderStatus, RequestStep
<1>6. ASSUME NEW o \in Orders, HandlerCrash(o) PROVE TypeOK'
  BY <1>6 DEF HandlerCrash, TypeOK, RequestStep
<1>7. ASSUME NEW o \in Orders, ProviderMoves(o) PROVE TypeOK'
  <2>1. PICK s \in CheckoutMoves[checkout[o]] :
           /\ checkout' = [checkout EXCEPT ![o] = s]
           /\ sent'     = sent \cup {[order |-> o, status |-> s, id |-> i] : i \in EventIds}
    BY <1>7 DEF ProviderMoves
  <2>2. s \in EventStatus
    BY <1>7, <2>1 DEF CheckoutMoves, CheckoutState, EventStatus, TypeOK
  <2>3. sent' \subseteq Event
    BY <1>7, <2>1, <2>2 DEF TypeOK, Event
  <2> QED
    BY <1>7, <2>1, <2>2, <2>3 DEF ProviderMoves, TypeOK, CheckoutState
<1>8. ASSUME NEW e \in Event, DeliverEvent(e) PROVE TypeOK'
  BY <1>8, ApplyEventType DEF DeliverEvent, TypeOK
<1>9. ASSUME NEW e \in Event, BeginEvent(e) PROVE TypeOK'
  <2>1. intent[e.order] \in IntentStatus
    BY DEF TypeOK, Event
  <2> QED
    BY <1>9, <2>1 DEF BeginEvent, TypeOK, Reading
<1>10. ASSUME NEW r \in reading, CommitEvent(r) PROVE TypeOK'
  <2>1. r.event \in Event
    BY DEF TypeOK, Reading
  <2> QED
    BY <1>10, <2>1, ApplyEventType DEF CommitEvent, TypeOK
<1>11. ASSUME NEW r \in reading, AbortEvent(r) PROVE TypeOK'
  BY <1>11 DEF AbortEvent, TypeOK
<1>12. ASSUME SelectStaleHolds PROVE TypeOK'
  BY <1>12 DEF SelectStaleHolds, StaleHolds, TypeOK
<1>13. ASSUME NEW o \in Orders, HoldElapses(o) PROVE TypeOK'
  BY <1>13 DEF HoldElapses, TypeOK
<1>14. ASSUME NEW o \in Orders, ExpireHold(o) PROVE TypeOK'
  <2>1. intent' \in [Orders -> IntentStatus]
    BY <1>14 DEF ExpireHold, TypeOK, IntentStatus
  <2> QED
    BY <1>14, <2>1, ReleaseType DEF ExpireHold, TypeOK, OrderStatus
<1>15. ASSUME NEW o \in Orders, FulfilOrder(o) PROVE TypeOK'
  <2>1. ledger' \in [Orders -> [EntryType -> Nat]]
    BY <1>15, LedgerEntryType DEF FulfilOrder, EntryType
  <2> QED
    BY <1>15, <2>1 DEF FulfilOrder, TypeOK, OrderStatus, AccrualStatus
<1>16. ASSUME NEW c \in Capacities, NEW off \in BOOLEAN, ConfigureStock(c, off)
       PROVE  TypeOK'
  BY <1>16 DEF ConfigureStock, TypeOK
<1>17. CASE UNCHANGED vars
  BY <1>17 DEF vars, TypeOK
<1> QED
  BY <1>1, <1>2, <1>3, <1>4, <1>5, <1>6, <1>7, <1>8, <1>9, <1>10, <1>11, <1>12,
     <1>13, <1>14, <1>15, <1>16, <1>17
     DEF Next, RequestNext

\* Whatever the deployment, every row keeps a value its table admits, and no
\* reservation passes the capacity the branch is configured with: neither
\* the conditional UPDATE of a reservation nor a smaller capacity written
\* under it breaks the CHECK of launch_branch_stock.
THEOREM TypeCorrect == Spec => []TypeOK
BY InitType, NextType, PTL DEF Spec

-----------------------------------------------------------------------------
(* Serialised webhooks: what the ledger and the royalty rest on.             *)

\* No webhook transaction is open between two steps; an event is only sent
\* for a checkout that was opened, a sweep only selects what has elapsed.
Serialised ==
    /\ reading = {}
    /\ \A e \in sent : checkout[e.order] # "NONE"
    /\ \A o \in stale : elapsed[o]

\* Until the handler stored the provider's reference nobody can pay and no
\* sweep touches the order, so its unconditional UPDATE finds the intent as
\* the reservation left it.
HandlerAlone(o) ==
    /\ order[o] = "NONE" => request[o] = "NONE" /\ intent[o] = "NONE"
    /\ request[o] \in {"NONE", "CALLING"} => checkout[o] = "NONE" /\ ~elapsed[o]
    /\ request[o] = "CALLING" => intent[o] = "PENDING_PROVIDER"

Unpaid == {"NONE", "PENDING_PROVIDER", "REDIRECT_REQUIRED", "AUTHORIZED"}

\* The status of the intent says what the ledger holds.
MoneyFollowsIntent(o) ==
    /\ intent[o] \in Unpaid => Captured(o) = 0
    /\ intent[o] = "PAID" => Captured(o) = 1 /\ Refunded(o) = 0
    /\ Captured(o) = 0 => accrual[o] = "NONE" /\ HandedOver(o) = 0
    /\ order[o] = "PAID" => HandedOver(o) = 0

OrderInv(o) ==
    HandlerAlone(o) /\ MoneyFollowsIntent(o) /\ SaleBooked(o) /\ RoyaltyDue(o)

LedgerInv == Serialised /\ \A o \in Orders : OrderInv(o)

LEMMA AppendEffect ==
    ASSUME TypeOK, NEW o \in Orders, NEW t \in EntryType, AppendLedgerEntry(o, t)
    PROVE  \A p \in Orders, u \in EntryType :
              ledger'[p][u] = IF p = o /\ u = t THEN ledger[p][u] + 1 ELSE ledger[p][u]
BY DEF TypeOK, AppendLedgerEntry

\* What an action leaves alone at an order keeps the order's invariant.
LEMMA Untouched ==
    ASSUME NEW p \in Orders, OrderInv(p),
           order'[p] = order[p], intent'[p] = intent[p], accrual'[p] = accrual[p],
           \A u \in EntryType : ledger'[p][u] = ledger[p][u],
           request'[p] = request[p], elapsed'[p] = elapsed[p], checkout'[p] = checkout[p]
    PROVE  OrderInv(p)'
BY DEF OrderInv, HandlerAlone, MoneyFollowsIntent, SaleBooked, RoyaltyDue,
       Captured, Refunded, HandedOver, EntryType

\* A release from PENDING_PAYMENT is not a sale: it moves no money.
LEMMA ReleaseKeepsSale ==
    ASSUME TypeOK, NEW o \in Orders, OrderInv(o),
           ReleaseOrderReservation(o, "CANCELLED", {"PENDING_PAYMENT"}),
           UNCHANGED <<accrual, ledger>>
    PROVE  /\ SaleBooked(o)' /\ RoyaltyDue(o)'
           /\ order'[o] = "PAID" => HandedOver(o)' = 0
           /\ order'[o] = "NONE" => order[o] = "NONE"
           /\ \A p \in Orders \ {o} : order'[p] = order[p]
<1>1. order[o] = "PENDING_PAYMENT" => order' = [order EXCEPT ![o] = "CANCELLED"]
  BY DEF ReleaseOrderReservation
<1>2. order[o] # "PENDING_PAYMENT" => order' = order
  BY DEF ReleaseOrderReservation
<1> QED
  BY <1>1, <1>2 DEF TypeOK, OrderInv, MoneyFollowsIntent, SaleBooked, RoyaltyDue,
     Captured, Refunded, HandedOver

\* The webhook of an opened checkout keeps the order's invariant: the
\* transition it is checked against is the one it makes.
LEMMA ApplyKeepsLedger ==
    ASSUME TypeOK, LedgerInv, NEW e \in Event,
           Applicable(e, intent[e.order]), ApplyEvent(e, intent[e.order]),
           UNCHANGED <<request, elapsed, checkout>>
    PROVE  \A p \in Orders : OrderInv(p)'
<1> DEFINE o == e.order
<1>1. o \in Orders /\ e.status \in EventStatus /\ checkout[o] # "NONE"
  BY DEF Event, LedgerInv, Serialised, Applicable
<1>2. OrderInv(o) /\ request[o] \notin {"NONE", "CALLING"}
  BY <1>1 DEF LedgerInv, OrderInv, HandlerAlone
<1>3. CASE intent[o] = e.status
  <2> SUFFICES ASSUME NEW p \in Orders PROVE OrderInv(p)'
    OBVIOUS
  <2> QED
    BY <1>3, Untouched DEF ApplyEvent, dbVars, LedgerInv
<1>4. CASE intent[o] # e.status
  <2>1. e.status \in AllowedTransitions[intent[o]] /\ intent[o] \in IntentStatus
    BY <1>1, <1>4 DEF Applicable, TypeOK
  <2>2. intent' = [intent EXCEPT ![o] = e.status]
    BY <1>4 DEF ApplyEvent
  <2>3. CASE e.status = "PAID"
    <3>1. Capture(o)
      BY <1>4, <2>3 DEF ApplyEvent, EventStatus
    <3>2. \A p \in Orders, u \in EntryType :
             ledger'[p][u] = IF p = o /\ u = "PAYMENT_CAPTURED"
                             THEN ledger[p][u] + 1 ELSE ledger[p][u]
      BY <1>1, <3>1, AppendEffect DEF Capture, EntryType
    <3>3. Captured(o) = 0 /\ Refunded(o) = 0 /\ accrual[o] = "NONE" /\ HandedOver(o) = 0
      BY <1>1, <1>2, <2>1, <2>3 DEF AllowedTransitions, IntentStatus, Unpaid, OrderInv,
         MoneyFollowsIntent, SaleBooked, Captured, Refunded, TypeOK, EntryType
    <3>4. Captured(o)' = 1 /\ Refunded(o)' = 0 /\ HandedOver(o)' = 0
      BY <1>1, <3>2, <3>3 DEF Captured, Refunded, HandedOver, EntryType
    <3>5. order'[o] = "PAID" /\ accrual'[o] = "PENDING" /\ intent'[o] = "PAID"
      BY <1>1, <2>2, <2>3, <3>1, <3>3 DEF Capture, TypeOK
    <3>6. OrderInv(o)'
      BY <1>2, <3>4, <3>5 DEF OrderInv, HandlerAlone, MoneyFollowsIntent, SaleBooked,
         RoyaltyDue, Unpaid
    <3>7. ASSUME NEW p \in Orders \ {o} PROVE OrderInv(p)'
      BY <1>1, <2>2, <3>1, <3>2, Untouched DEF Capture, LedgerInv, TypeOK
    <3> QED
      BY <3>6, <3>7
  <2>4. CASE e.status = "REFUNDED"
    <3>1. Refund(o)
      BY <1>4, <2>4 DEF ApplyEvent, EventStatus
    <3>2. \A p \in Orders, u \in EntryType :
             ledger'[p][u] = IF p = o /\ u = "PAYMENT_REFUNDED"
                             THEN ledger[p][u] + 1 ELSE ledger[p][u]
      BY <1>1, <3>1, AppendEffect DEF Refund, EntryType
    <3>3. intent[o] = "PAID"
      BY <2>1, <2>4 DEF AllowedTransitions, IntentStatus
    <3>4. Captured(o) = 1 /\ Refunded(o) = 0 /\ order[o] \in {"PAID", "FULFILLED"}
      BY <1>2, <3>3 DEF OrderInv, MoneyFollowsIntent, SaleBooked
    <3>5. Captured(o)' = 1 /\ Refunded(o)' = 1
      BY <1>1, <3>2, <3>4 DEF Captured, Refunded, EntryType
    <3>6. order' = [order EXCEPT ![o] = "REFUNDED"]
      BY <3>1, <3>4 DEF Refund, ReleaseOrderReservation, Holding
    <3>7. /\ order'[o] = "REFUNDED" /\ intent'[o] = "REFUNDED"
          /\ accrual'[o] \notin {"PENDING", "ELIGIBLE", "LOCKED"}
      BY <1>1, <2>2, <2>4, <3>1, <3>6 DEF Refund, TypeOK
    <3>8. OrderInv(o)'
      BY <1>2, <3>5, <3>7 DEF OrderInv, HandlerAlone, MoneyFollowsIntent, SaleBooked,
         RoyaltyDue, Unpaid
    <3>9. ASSUME NEW p \in Orders \ {o} PROVE OrderInv(p)'
      BY <1>1, <2>2, <3>1, <3>2, <3>6, Untouched DEF Refund, LedgerInv, TypeOK
    <3> QED
      BY <3>8, <3>9
  <2>5. CASE e.status \in {"FAILED", "CANCELLED"}
    <3>1. /\ ReleaseOrderReservation(o, "CANCELLED", {"PENDING_PAYMENT"})
          /\ UNCHANGED <<accrual, ledger>>
      BY <1>4, <2>5 DEF ApplyEvent
    <3>2. intent'[o] = e.status /\ Captured(o)' = Captured(o) /\ HandedOver(o)' = HandedOver(o)
      BY <1>1, <2>2, <3>1 DEF TypeOK, Captured, HandedOver
    <3>3. OrderInv(o)'
      BY <1>1, <1>2, <2>1, <2>5, <3>1, <3>2, ReleaseKeepsSale
         DEF OrderInv, HandlerAlone, MoneyFollowsIntent, Unpaid, AllowedTransitions, IntentStatus
    <3>4. ASSUME NEW p \in Orders \ {o} PROVE OrderInv(p)'
      BY <1>1, <1>2, <2>2, <3>1, ReleaseKeepsSale, Untouched DEF LedgerInv, TypeOK
    <3> QED
      BY <3>3, <3>4
  <2>6. CASE e.status = "AUTHORIZED"
    <3>1. UNCHANGED <<order, accrual, reserved, ledger>>
      BY <1>4, <2>6 DEF ApplyEvent, EventStatus
    <3>2. intent[o] \in Unpaid /\ intent'[o] = "AUTHORIZED"
      BY <1>1, <2>1, <2>2, <2>6 DEF AllowedTransitions, IntentStatus, Unpaid, TypeOK
    <3>3. OrderInv(o)'
      BY <1>2, <3>1, <3>2 DEF OrderInv, HandlerAlone, MoneyFollowsIntent, SaleBooked,
         RoyaltyDue, Unpaid, Captured, Refunded, HandedOver
    <3>4. ASSUME NEW p \in Orders \ {o} PROVE OrderInv(p)'
      BY <1>1, <2>2, <3>1, Untouched DEF LedgerInv, TypeOK
    <3> QED
      BY <3>3, <3>4
  <2> QED
    BY <1>1, <2>3, <2>4, <2>5, <2>6 DEF EventStatus
<1> QED
  BY <1>3, <1>4

LEMMA LedgerInvInit == Init => LedgerInv
BY DEF Init, LedgerInv, Serialised, OrderInv, HandlerAlone, MoneyFollowsIntent, SaleBooked,
   RoyaltyDue, Captured, Refunded, HandedOver, EntryType

\* One step per action; on PostgreSQL BeginEvent would break Serialised.
LEMMA LedgerInvNext ==
    Dialect = "sqlite" /\ TypeOK /\ LedgerInv /\ [Next]_vars => LedgerInv'
<1> SUFFICES ASSUME Dialect = "sqlite", TypeOK, LedgerInv, [Next]_vars PROVE LedgerInv'
  OBVIOUS
<1> USE DEF dbVars, stockVars, providerVars
<1>0. \A p \in Orders : OrderInv(p)
  BY DEF LedgerInv
<1>1. ASSUME NEW o \in Orders, CreateOrder(o) PROVE LedgerInv'
  <2>1. \A p \in Orders, u \in EntryType :
           ledger'[p][u] = IF p = o /\ u = "ORDER_CREATED"
                           THEN ledger[p][u] + 1 ELSE ledger[p][u]
    BY <1>1, AppendEffect DEF CreateOrder, EntryType
  <2>2. /\ order'[o] = "PENDING_PAYMENT" /\ intent'[o] = "PENDING_PROVIDER"
        /\ request'[o] = "CALLING" /\ order[o] = "NONE"
    BY <1>1 DEF CreateOrder, TypeOK
  <2>3. /\ Captured(o)' = Captured(o) /\ Refunded(o)' = Refunded(o)
        /\ HandedOver(o)' = HandedOver(o)
    BY <2>1 DEF Captured, Refunded, HandedOver, EntryType
  <2>4. UNCHANGED <<accrual, elapsed, checkout, sent, reading, stale>>
    BY <1>1 DEF CreateOrder
  <2>5. OrderInv(o)'
    BY <1>0, <2>2, <2>3, <2>4 DEF OrderInv, HandlerAlone, MoneyFollowsIntent, SaleBooked,
       RoyaltyDue, Unpaid
  <2>6. ASSUME NEW p \in Orders \ {o} PROVE OrderInv(p)'
    BY <1>0, <1>1, <2>1, Untouched DEF CreateOrder, TypeOK
  <2> QED
    BY <2>4, <2>5, <2>6 DEF LedgerInv, Serialised
<1>2. ASSUME NEW o \in Orders, StoreReference(o) PROVE LedgerInv'
  <2>1. /\ intent[o] = "PENDING_PROVIDER" /\ ~elapsed[o] /\ request[o] = "CALLING"
        /\ intent'[o] = "REDIRECT_REQUIRED" /\ request'[o] = "AUDITING"
        /\ checkout'[o] = "OPEN"
    BY <1>0, <1>2 DEF StoreReference, OrderInv, HandlerAlone, TypeOK
  <2>2. UNCHANGED <<order, accrual, ledger, elapsed, sent, reading, stale>>
    BY <1>2 DEF StoreReference
  <2>3. OrderInv(o)'
    BY <1>0, <2>1, <2>2 DEF OrderInv, HandlerAlone, MoneyFollowsIntent, SaleBooked,
       RoyaltyDue, Unpaid, Captured, Refunded, HandedOver
  <2>4. ASSUME NEW p \in Orders \ {o} PROVE OrderInv(p)'
    BY <1>0, <1>2, <2>2, Untouched DEF StoreReference, TypeOK
  <2>5. Serialised'
    BY <1>2, <2>1, <2>2 DEF StoreReference, LedgerInv, Serialised, TypeOK, Event
  <2> QED
    BY <2>3, <2>4, <2>5 DEF LedgerInv
<1>3. ASSUME NEW o \in Orders, Respond(o) PROVE LedgerInv'
  <2>1. request[o] = "AUDITING" /\ request'[o] = "DONE"
    BY <1>3 DEF Respond, TypeOK
  <2>2. UNCHANGED <<order, intent, accrual, ledger, elapsed, checkout, sent, reading, stale>>
    BY <1>3 DEF Respond
  <2>3. OrderInv(o)'
    BY <1>0, <2>1, <2>2 DEF OrderInv, HandlerAlone, MoneyFollowsIntent, SaleBooked,
       RoyaltyDue, Captured, Refunded, HandedOver
  <2>4. ASSUME NEW p \in Orders \ {o} PROVE OrderInv(p)'
    BY <1>0, <1>3, <2>2, Untouched DEF Respond, TypeOK
  <2> QED
    BY <2>2, <2>3, <2>4 DEF LedgerInv, Serialised
<1>4. ASSUME NEW o \in Orders, MarkIntentFailed(o) PROVE LedgerInv'
  <2>1. /\ request[o] \in {"CALLING", "AUDITING"} /\ request'[o] = "RELEASING"
        /\ intent'[o] = "FAILED"
    BY <1>4 DEF MarkIntentFailed, TypeOK
  <2>2. UNCHANGED <<order, accrual, ledger, elapsed, checkout, sent, reading, stale>>
    BY <1>4 DEF MarkIntentFailed
  <2>3. OrderInv(o)'
    BY <1>0, <2>1, <2>2 DEF OrderInv, HandlerAlone, MoneyFollowsIntent, SaleBooked,
       RoyaltyDue, Unpaid, Captured, Refunded, HandedOver
  <2>4. ASSUME NEW p \in Orders \ {o} PROVE OrderInv(p)'
    BY <1>0, <1>4, <2>2, Untouched DEF MarkIntentFailed, TypeOK
  <2> QED
    BY <2>2, <2>3, <2>4 DEF LedgerInv, Serialised
<1>5. ASSUME NEW o \in Orders, ReleaseFailedOrder(o) PROVE LedgerInv'
  <2>1. request[o] = "RELEASING" /\ request'[o] = "DONE"
    BY <1>5 DEF ReleaseFailedOrder, TypeOK
  <2>2. /\ ReleaseOrderReservation(o, "CANCELLED", {"PENDING_PAYMENT"})
        /\ UNCHANGED <<intent, accrual, ledger, elapsed, checkout, sent, reading, stale>>
    BY <1>5 DEF ReleaseFailedOrder
  <2>3. OrderInv(o)'
    BY <1>0, <2>1, <2>2, ReleaseKeepsSale DEF OrderInv, HandlerAlone, MoneyFollowsIntent,
       Captured, Refunded, HandedOver
  <2>4. ASSUME NEW p \in Orders \ {o} PROVE OrderInv(p)'
    BY <1>0, <1>5, <2>2, ReleaseKeepsSale, Untouched DEF ReleaseFailedOrder, TypeOK
  <2> QED
    BY <2>2, <2>3, <2>4 DEF LedgerInv, Serialised
<1>6. ASSUME NEW o \in Orders, HandlerCrash(o) PROVE LedgerInv'
  <2>1. request[o] \in {"CALLING", "AUDITING", "RELEASING"} /\ request'[o] = "CRASHED"
    BY <1>6 DEF HandlerCrash, TypeOK
  <2>2. UNCHANGED <<order, intent, accrual, ledger, elapsed, checkout, sent, reading, stale>>
    BY <1>6 DEF HandlerCrash
  <2>3. OrderInv(o)'
    BY <1>0, <2>1, <2>2 DEF OrderInv, HandlerAlone, MoneyFollowsIntent, SaleBooked,
       RoyaltyDue, Captured, Refunded, HandedOver
  <2>4. ASSUME NEW p \in Orders \ {o} PROVE OrderInv(p)'
    BY <1>0, <1>6, <2>2, Untouched DEF HandlerCrash, TypeOK
  <2> QED
    BY <2>2, <2>3, <2>4 DEF LedgerInv, Serialised
<1>7. ASSUME NEW o \in Orders, ProviderMoves(o) PROVE LedgerInv'
  <2>1. PICK s \in CheckoutMoves[checkout[o]] :
           /\ checkout' = [checkout EXCEPT ![o] = s]
           /\ sent'     = sent \cup {[order |-> o, status |-> s, id |-> i] : i \in EventIds}
    BY <1>7 DEF ProviderMoves
  <2>2. checkout[o] # "NONE" /\ s # "NONE" /\ checkout'[o] = s
    <3>1. checkout[o] \in CheckoutState /\ checkout'[o] = s
      BY <2>1 DEF TypeOK
    <3>2. checkout[o] # "NONE" /\ s \in EventStatus
      BY <2>1, <3>1 DEF CheckoutMoves, CheckoutState, EventStatus
    <3> QED
      BY <3>1, <3>2 DEF EventStatus
  <2>3. UNCHANGED <<order, intent, accrual, ledger, request, elapsed, reading, stale>>
    BY <1>7 DEF ProviderMoves
  <2>4. OrderInv(o)'
    BY <1>0, <2>2, <2>3 DEF OrderInv, HandlerAlone, MoneyFollowsIntent, SaleBooked,
       RoyaltyDue, Captured, Refunded, HandedOver
  <2>5. ASSUME NEW p \in Orders \ {o} PROVE OrderInv(p)'
    BY <1>0, <2>1, <2>3, Untouched DEF TypeOK
  <2>6. ASSUME NEW e \in sent' PROVE checkout'[e.order] # "NONE"
    <3>1. CASE e \in sent
      BY <2>1, <2>2, <3>1 DEF LedgerInv, Serialised, TypeOK, Event
    <3>2. CASE e \notin sent
      BY <2>1, <2>2, <3>2
    <3> QED
      BY <3>1, <3>2
  <2> QED
    BY <2>3, <2>4, <2>5, <2>6 DEF LedgerInv, Serialised
<1>8. ASSUME NEW e \in Event, DeliverEvent(e) PROVE LedgerInv'
  BY <1>8, ApplyKeepsLedger DEF DeliverEvent, LedgerInv, Serialised
<1>9. ASSUME NEW e \in Event, BeginEvent(e) PROVE LedgerInv'
  BY <1>9 DEF BeginEvent
<1>10. ASSUME NEW r \in reading PROVE LedgerInv'
  BY <1>10 DEF LedgerInv, Serialised
<1>11. ASSUME SelectStaleHolds PROVE LedgerInv'
  <2>1. UNCHANGED <<order, intent, accrual, ledger, request, elapsed, checkout, sent, reading>>
    BY <1>11 DEF SelectStaleHolds
  <2>2. \A o \in stale' : elapsed[o]
    BY <1>11 DEF SelectStaleHolds, StaleHolds, LedgerInv, Serialised
  <2> QED
    BY <1>0, <2>1, <2>2, Untouched DEF LedgerInv, Serialised
<1>12. ASSUME NEW o \in Orders, HoldElapses(o) PROVE LedgerInv'
  <2>1. request[o] \in {"DONE", "CRASHED"}
    BY <1>12 DEF HoldElapses
  <2>2. UNCHANGED <<order, intent, accrual, ledger, request, checkout, sent, reading, stale>>
    BY <1>12 DEF HoldElapses
  <2>3. OrderInv(o)'
    BY <1>0, <2>1, <2>2 DEF OrderInv, HandlerAlone, MoneyFollowsIntent, SaleBooked,
       RoyaltyDue, Captured, Refunded, HandedOver
  <2>4. ASSUME NEW p \in Orders \ {o} PROVE OrderInv(p)'
    BY <1>0, <1>12, <2>2, Untouched DEF HoldElapses, TypeOK
  <2>5. \A p \in stale' : elapsed'[p]
    BY <1>12, <2>2 DEF HoldElapses, LedgerInv, Serialised, TypeOK
  <2> QED
    BY <2>2, <2>3, <2>4, <2>5 DEF LedgerInv, Serialised
<1>13. ASSUME NEW o \in Orders, ExpireHold(o) PROVE LedgerInv'
  <2>1. /\ ReleaseOrderReservation(o, "CANCELLED", {"PENDING_PAYMENT"})
        /\ stale' \subseteq stale
        /\ UNCHANGED <<accrual, ledger, request, elapsed, checkout, sent, reading>>
    BY <1>13 DEF ExpireHold
  <2>2. /\ intent'[o] = intent[o] \/ intent'[o] = "CANCELLED"
        /\ \A p \in Orders \ {o} : intent'[p] = intent[p]
    BY <1>13 DEF ExpireHold, TypeOK
  <2>3. elapsed[o]
    BY <1>13 DEF ExpireHold, LedgerInv, Serialised
  <2>4. OrderInv(o)'
    BY <1>0, <2>1, <2>2, <2>3, ReleaseKeepsSale DEF OrderInv, HandlerAlone,
       MoneyFollowsIntent, Captured, Refunded, HandedOver, Unpaid
  <2>5. ASSUME NEW p \in Orders \ {o} PROVE OrderInv(p)'
    BY <1>0, <2>1, <2>2, ReleaseKeepsSale, Untouched
  <2> QED
    BY <2>1, <2>4, <2>5 DEF LedgerInv, Serialised
<1>14. ASSUME NEW o \in Orders, FulfilOrder(o) PROVE LedgerInv'
  <2>1. \A p \in Orders, u \in EntryType :
           ledger'[p][u] = IF p = o /\ u = "ORDER_FULFILLED"
                           THEN ledger[p][u] + 1 ELSE ledger[p][u]
    BY <1>14, AppendEffect DEF FulfilOrder, EntryType
  <2>2. order[o] = "PAID" /\ order'[o] = "FULFILLED" /\ accrual'[o] = "ELIGIBLE"
    BY <1>0, <1>14 DEF FulfilOrder, OrderInv, RoyaltyDue, TypeOK
  <2>3. Captured(o)' = Captured(o) /\ Refunded(o)' = Refunded(o) /\ HandedOver(o)' = 1
    BY <1>0, <2>1, <2>2 DEF OrderInv, MoneyFollowsIntent, Captured, Refunded, HandedOver, EntryType
  <2>4. UNCHANGED <<intent, request, elapsed, checkout, sent, reading, stale>>
    BY <1>14 DEF FulfilOrder
  <2>5. OrderInv(o)'
    BY <1>0, <2>2, <2>3, <2>4 DEF OrderInv, HandlerAlone, MoneyFollowsIntent, SaleBooked,
       RoyaltyDue
  <2>6. ASSUME NEW p \in Orders \ {o} PROVE OrderInv(p)'
    BY <1>0, <1>14, <2>1, <2>4, Untouched DEF FulfilOrder, TypeOK
  <2> QED
    BY <2>4, <2>5, <2>6 DEF LedgerInv, Serialised
<1>15. ASSUME NEW c \in Capacities, NEW off \in BOOLEAN, ConfigureStock(c, off)
       PROVE  LedgerInv'
  BY <1>0, <1>15, Untouched DEF ConfigureStock, LedgerInv, Serialised
<1>16. CASE UNCHANGED vars
  BY <1>0, <1>16, Untouched DEF vars, LedgerInv, Serialised
<1> QED
  BY <1>1, <1>2, <1>3, <1>4, <1>5, <1>6, <1>7, <1>8, <1>9, <1>10, <1>11, <1>12,
     <1>13, <1>14, <1>15, <1>16
     DEF Next, RequestNext

-----------------------------------------------------------------------------
(* Webhook transactions side by side.  On PostgreSQL an event may commit on *)
(* a status that others have changed since it was read, so the intent no    *)
(* longer says what the ledger holds; the receipts do, as long as the       *)
(* provider gives each status of an order one event id.                     *)

OneEventId == \A i, j \in EventIds : i = j

Received(o, s) == \E e \in receipts : e.order = o /\ e.status = s

\* A capture or a refund is booked exactly when its event was received.
MoneyFollowsReceipts(o) ==
    /\ Received(o, "PAID") <=> Captured(o) = 1
    /\ Received(o, "REFUNDED") <=> Refunded(o) = 1
    /\ intent[o] = "PAID" => Captured(o) = 1
    /\ intent[o] = "REFUNDED" => Refunded(o) = 1
    /\ order[o] = "REFUNDED" <=> Refunded(o) = 1
    /\ Captured(o) = 0 => accrual[o] = "NONE" /\ HandedOver(o) = 0
    /\ order[o] = "PAID" => HandedOver(o) = 0

BookedOnce(o) == MoneyFollowsReceipts(o) /\ SaleBooked(o) /\ RoyaltyDue(o)

\* What an open transaction read of the money is still so, its receipt is
\* not committed, and no other transaction inserts the same receipt.
ReadingStands(r) ==
    /\ r.event \notin receipts
    /\ r.seen = r.event.status \/ r.event.status \in AllowedTransitions[r.seen]
    /\ r.seen = "PAID" => Captured(r.event.order) = 1
    /\ r.seen = "REFUNDED" => Refunded(r.event.order) = 1
    /\ \A q \in reading : q.event = r.event => q = r

ReceiptsInv ==
    /\ Dialect = "sqlite" => reading = {}
    /\ \A o \in Orders : BookedOnce(o)
    /\ \A r \in reading : ReadingStands(r)

\* With one id there is one event of a status for an order.
LEMMA OneEventOfStatus ==
    ASSUME OneEventId, TypeOK, NEW e \in Event, e \notin receipts
    PROVE  ~Received(e.order, e.status)
<1> SUFFICES ASSUME NEW d \in receipts, d.order = e.order, d.status = e.status PROVE FALSE
  BY DEF Received
<1>1. d \in Event
  BY DEF TypeOK
<1>2. d.id = e.id
  BY <1>1 DEF OneEventId, Event
<1>3. d = e
  BY <1>1, <1>2 DEF Event
<1> QED
  BY <1>3

LEMMA BookedUntouched ==
    ASSUME NEW p \in Orders, BookedOnce(p),
           order'[p] = order[p], intent'[p] = intent[p], accrual'[p] = accrual[p],
           \A u \in EntryType : ledger'[p][u] = ledger[p][u],
           Received(p, "PAID")' <=> Received(p, "PAID"),
           Received(p, "REFUNDED")' <=> Received(p, "REFUNDED")
    PROVE  BookedOnce(p)'
BY DEF BookedOnce, MoneyFollowsReceipts, SaleBooked, RoyaltyDue, Captured, Refunded,
   HandedOver, EntryType

\* A release from PENDING_PAYMENT, with the intent moved to a status that
\* says nothing of money.
LEMMA ReleaseKeepsBooks ==
    ASSUME TypeOK, NEW o \in Orders, \A p \in Orders : BookedOnce(p),
           ReleaseOrderReservation(o, "CANCELLED", {"PENDING_PAYMENT"}),
           UNCHANGED <<accrual, ledger>>,
           intent'[o] \in {intent[o], "FAILED", "CANCELLED"},
           \A p \in Orders \ {o} : intent'[p] = intent[p],
           \A p \in Orders : Received(p, "PAID")' <=> Received(p, "PAID"),
           \A p \in Orders : Received(p, "REFUNDED")' <=> Received(p, "REFUNDED")
    PROVE  \A p \in Orders : BookedOnce(p)'
<1>1. /\ order'[o] = order[o] \/ (order[o] = "PENDING_PAYMENT" /\ order'[o] = "CANCELLED")
      /\ \A p \in Orders \ {o} : order'[p] = order[p]
  BY DEF ReleaseOrderReservation, TypeOK
<1>2. BookedOnce(o)'
  BY <1>1 DEF BookedOnce, MoneyFollowsReceipts, SaleBooked, RoyaltyDue, Captured, Refunded,
     HandedOver
<1>3. ASSUME NEW p \in Orders \ {o} PROVE BookedOnce(p)'
  BY <1>1, BookedUntouched
<1> QED
  BY <1>2, <1>3

\* Readings stand as long as no receipt of theirs is committed and the
\* ledger loses no entry.
LEMMA ReadingsUntouched ==
    ASSUME TypeOK, \A r \in reading : ReadingStands(r), reading' \subseteq reading,
           \A r \in reading' : r.event \notin receipts',
           \A o \in Orders : Captured(o) = 1 => Captured(o)' = 1,
           \A o \in Orders : Refunded(o) = 1 => Refunded(o)' = 1
    PROVE  \A r \in reading' : ReadingStands(r)'
<1> SUFFICES ASSUME NEW r \in reading' PROVE ReadingStands(r)'
  OBVIOUS
<1>1. r.event.order \in Orders
  BY DEF TypeOK, Reading, Event
<1> QED
  BY <1>1 DEF ReadingStands

\* The writes of an event, for whatever status its SELECT returned, as long
\* as what it says of the money is still so.
LEMMA ApplyKeepsBooks ==
    ASSUME OneEventId, TypeOK, \A p \in Orders : BookedOnce(p),
           NEW e \in Event, NEW seen \in IntentStatus, e \notin receipts,
           seen = e.status \/ e.status \in AllowedTransitions[seen],
           seen = "PAID" => Captured(e.order) = 1,
           seen = "REFUNDED" => Refunded(e.order) = 1,
           ApplyEvent(e, seen)
    PROVE  /\ \A p \in Orders : BookedOnce(p)'
           /\ \A p \in Orders : Captured(p) = 1 => Captured(p)' = 1
           /\ \A p \in Orders : Refunded(p) = 1 => Refunded(p)' = 1
<1> DEFINE o == e.order
<1>1. o \in Orders /\ e.status \in EventStatus /\ receipts' = receipts \cup {e}
  BY DEF Event, ApplyEvent
<1>2. ~Received(o, e.status)
  BY OneEventOfStatus
<1>3. \A p \in Orders, s \in EventStatus :
         Received(p, s)' <=> Received(p, s) \/ (p = o /\ s = e.status)
  BY <1>1 DEF Received
<1>4. BookedOnce(o) /\ Captured(o) \in Nat /\ Refunded(o) \in Nat
  BY <1>1 DEF TypeOK, Captured, Refunded, EntryType
<1>5. CASE seen = e.status
  <2>1. e.status \notin {"PAID", "REFUNDED"}
    BY <1>2, <1>4, <1>5 DEF BookedOnce, MoneyFollowsReceipts
  <2>2. \A p \in Orders : /\ Received(p, "PAID")' <=> Received(p, "PAID")
                          /\ Received(p, "REFUNDED")' <=> Received(p, "REFUNDED")
    BY <1>3, <2>1 DEF EventStatus
  <2>3. UNCHANGED dbVars
    BY <1>5 DEF ApplyEvent
  <2>4. ASSUME NEW p \in Orders PROVE BookedOnce(p)'
    BY <2>2, <2>3, BookedUntouched DEF dbVars
  <2> QED
    BY <2>3, <2>4 DEF dbVars, Captured, Refunded
<1>6. CASE seen # e.status
  <2>1. e.status \in AllowedTransitions[seen] /\ intent' = [intent EXCEPT ![o] = e.status]
    BY <1>6 DEF ApplyEvent
  <2>2. CASE e.status = "PAID"
    <3>1. Capture(o)
      BY <1>6, <2>2 DEF ApplyEvent, EventStatus
    <3>2. \A p \in Orders, u \in EntryType :
             ledger'[p][u] = IF p = o /\ u = "PAYMENT_CAPTURED"
                             THEN ledger[p][u] + 1 ELSE ledger[p][u]
      BY <1>1, <3>1, AppendEffect DEF Capture, EntryType
    <3>3. /\ Captured(o) = 0 /\ Refunded(o) = 0 /\ ~Received(o, "REFUNDED")
          /\ accrual[o] = "NONE" /\ HandedOver(o) = 0
      BY <1>2, <1>4, <2>2 DEF BookedOnce, MoneyFollowsReceipts, SaleBooked
    <3>4. Captured(o)' = 1 /\ Refunded(o)' = 0 /\ HandedOver(o)' = 0
      BY <1>1, <3>2, <3>3 DEF Captured, Refunded, HandedOver, EntryType
    <3>5. order'[o] = "PAID" /\ accrual'[o] = "PENDING" /\ intent'[o] = "PAID"
      BY <1>1, <2>1, <2>2, <3>1, <3>3 DEF Capture, TypeOK
    <3>6. Received(o, "PAID")' /\ ~Received(o, "REFUNDED")'
      BY <1>1, <1>3, <2>2, <3>3 DEF EventStatus
    <3>7. BookedOnce(o)'
      BY <3>4, <3>5, <3>6 DEF BookedOnce, MoneyFollowsReceipts, SaleBooked, RoyaltyDue
    <3>8. ASSUME NEW p \in Orders \ {o}
          PROVE  BookedOnce(p)' /\ Captured(p)' = Captured(p) /\ Refunded(p)' = Refunded(p)
      <4>1. /\ order'[p] = order[p] /\ intent'[p] = intent[p] /\ accrual'[p] = accrual[p]
            /\ \A u \in EntryType : ledger'[p][u] = ledger[p][u]
        BY <1>1, <2>1, <3>1, <3>2 DEF Capture, TypeOK
      <4>2. /\ Received(p, "PAID")' <=> Received(p, "PAID")
            /\ Received(p, "REFUNDED")' <=> Received(p, "REFUNDED")
        BY <1>3 DEF EventStatus
      <4> QED
        BY <4>1, <4>2, BookedUntouched DEF Captured, Refunded, EntryType
    <3> QED
      BY <3>3, <3>4, <3>7, <3>8
  <2>3. CASE e.status = "REFUNDED"
    <3>1. Refund(o)
      BY <1>6, <2>3 DEF ApplyEvent, EventStatus
    <3>2. \A p \in Orders, u \in EntryType :
             ledger'[p][u] = IF p = o /\ u = "PAYMENT_REFUNDED"
                             THEN ledger[p][u] + 1 ELSE ledger[p][u]
      BY <1>1, <3>1, AppendEffect DEF Refund, EntryType
    <3>3. seen = "PAID"
      BY <2>1, <2>3 DEF AllowedTransitions, IntentStatus
    <3>4. /\ Captured(o) = 1 /\ Refunded(o) = 0 /\ Received(o, "PAID")
          /\ order[o] \in {"PAID", "FULFILLED"}
      BY <1>2, <1>4, <2>3, <3>3 DEF BookedOnce, MoneyFollowsReceipts, SaleBooked
    <3>5. Captured(o)' = 1 /\ Refunded(o)' = 1
      BY <1>1, <3>2, <3>4 DEF Captured, Refunded, EntryType
    <3>6. order' = [order EXCEPT ![o] = "REFUNDED"]
      BY <3>1, <3>4 DEF Refund, ReleaseOrderReservation, Holding
    <3>7. /\ order'[o] = "REFUNDED" /\ intent'[o] = "REFUNDED"
          /\ accrual'[o] \notin {"PENDING", "ELIGIBLE", "LOCKED"}
      BY <1>1, <2>1, <2>3, <3>1, <3>6 DEF Refund, TypeOK
    <3>8. Received(o, "PAID")' /\ Received(o, "REFUNDED")'
      BY <1>1, <1>3, <2>3, <3>4 DEF EventStatus
    <3>9. BookedOnce(o)'
      BY <3>5, <3>7, <3>8 DEF BookedOnce, MoneyFollowsReceipts, SaleBooked, RoyaltyDue
    <3>10. ASSUME NEW p \in Orders \ {o}
           PROVE  BookedOnce(p)' /\ Captured(p)' = Captured(p) /\ Refunded(p)' = Refunded(p)
      <4>1. /\ order'[p] = order[p] /\ intent'[p] = intent[p] /\ accrual'[p] = accrual[p]
            /\ \A u \in EntryType : ledger'[p][u] = ledger[p][u]
        BY <1>1, <2>1, <3>1, <3>2, <3>6 DEF Refund, TypeOK
      <4>2. /\ Received(p, "PAID")' <=> Received(p, "PAID")
            /\ Received(p, "REFUNDED")' <=> Received(p, "REFUNDED")
        BY <1>3 DEF EventStatus
      <4> QED
        BY <4>1, <4>2, BookedUntouched DEF Captured, Refunded, EntryType
    <3> QED
      BY <3>4, <3>5, <3>9, <3>10
  <2>4. CASE e.status \notin {"PAID", "REFUNDED"}
    <3>1. \A p \in Orders : /\ Received(p, "PAID")' <=> Received(p, "PAID")
                            /\ Received(p, "REFUNDED")' <=> Received(p, "REFUNDED")
      BY <1>3, <2>4 DEF EventStatus
    <3>2. UNCHANGED <<accrual, ledger>>
      BY <1>6, <2>4 DEF ApplyEvent
    <3>3. intent'[o] = e.status /\ \A p \in Orders \ {o} : intent'[p] = intent[p]
      BY <1>1, <2>1 DEF TypeOK
    <3>4. CASE e.status \in {"FAILED", "CANCELLED"}
      <4>1. ReleaseOrderReservation(o, "CANCELLED", {"PENDING_PAYMENT"})
        BY <1>6, <3>4 DEF ApplyEvent
      <4>2. \A p \in Orders : BookedOnce(p)'
        BY <1>1, <3>1, <3>2, <3>3, <3>4, <4>1, ReleaseKeepsBooks
      <4> QED
        BY <3>2, <4>2 DEF Captured, Refunded
    <3>5. CASE e.status = "AUTHORIZED"
      <4>1. UNCHANGED order
        BY <1>6, <3>5 DEF ApplyEvent, EventStatus
      <4>2. BookedOnce(o)'
        BY <1>1, <1>4, <3>1, <3>2, <3>3, <3>5, <4>1
           DEF BookedOnce, MoneyFollowsReceipts, SaleBooked, RoyaltyDue, Captured, Refunded,
               HandedOver
      <4>3. ASSUME NEW p \in Orders \ {o} PROVE BookedOnce(p)'
        BY <3>1, <3>2, <3>3, <4>1, BookedUntouched
      <4> QED
        BY <3>2, <4>2, <4>3 DEF Captured, Refunded
    <3> QED
      BY <1>1, <2>4, <3>4, <3>5 DEF EventStatus
  <2> QED
    BY <2>2, <2>3, <2>4
<1> QED
  BY <1>5, <1>6

LEMMA ReceiptsInvInit == Init => ReceiptsInv
BY DEF Init, ReceiptsInv, BookedOnce, MoneyFollowsReceipts, SaleBooked, RoyaltyDue, Received,
   Captured, Refunded, HandedOver, EntryType

LEMMA ReceiptsInvNext ==
    OneEventId /\ TypeOK /\ ReceiptsInv /\ [Next]_vars => ReceiptsInv'
<1> SUFFICES ASSUME OneEventId, TypeOK, ReceiptsInv, [Next]_vars PROVE ReceiptsInv'
  OBVIOUS
<1> USE DEF dbVars, stockVars, providerVars
<1>0. /\ \A p \in Orders : BookedOnce(p)
      /\ \A r \in reading : ReadingStands(r) /\ r \in Reading
  BY DEF ReceiptsInv, TypeOK
<1>1. ASSUME UNCHANGED <<order, accrual, ledger, receipts, reading>>,
             \A p \in Orders : intent'[p] \in {intent[p], "REDIRECT_REQUIRED", "FAILED"}
      PROVE  ReceiptsInv'
  <2>1. ASSUME NEW p \in Orders PROVE BookedOnce(p)'
    BY <1>0, <1>1 DEF BookedOnce, MoneyFollowsReceipts, SaleBooked, RoyaltyDue, Received,
       Captured, Refunded, HandedOver
  <2>2. \A r \in reading' : ReadingStands(r)'
    BY <1>0, <1>1, ReadingsUntouched DEF ReadingStands, Captured, Refunded
  <2> QED
    BY <1>1, <2>1, <2>2 DEF ReceiptsInv
<1>2. ASSUME NEW o \in Orders, CreateOrder(o) PROVE ReceiptsInv'
  <2>1. \A p \in Orders, u \in EntryType :
           ledger'[p][u] = IF p = o /\ u = "ORDER_CREATED"
                           THEN ledger[p][u] + 1 ELSE ledger[p][u]
    BY <1>2, AppendEffect DEF CreateOrder, EntryType
  <2>2. /\ order'[o] = "PENDING_PAYMENT" /\ intent'[o] = "PENDING_PROVIDER"
        /\ order[o] = "NONE"
    BY <1>2 DEF CreateOrder, TypeOK
  <2>3. UNCHANGED <<accrual, receipts, reading>>
    BY <1>2 DEF CreateOrder
  <2>4. \A p \in Orders : /\ Captured(p)' = Captured(p) /\ Refunded(p)' = Refunded(p)
                          /\ HandedOver(p)' = HandedOver(p)
    BY <2>1 DEF Captured, Refunded, HandedOver, EntryType
  <2>5. BookedOnce(o)'
    BY <1>0, <2>2, <2>3, <2>4 DEF BookedOnce, MoneyFollowsReceipts, SaleBooked, RoyaltyDue,
       Received
  <2>6. ASSUME NEW p \in Orders \ {o} PROVE BookedOnce(p)'
    BY <1>0, <1>2, <2>1, <2>3, BookedUntouched DEF CreateOrder, TypeOK, Received
  <2>7. \A r \in reading' : ReadingStands(r)'
    BY <1>0, <2>3, <2>4, ReadingsUntouched DEF ReadingStands
  <2> QED
    BY <2>3, <2>5, <2>6, <2>7 DEF ReceiptsInv
<1>3. ASSUME NEW o \in Orders, RequestNext(o) \/ HandlerCrash(o) PROVE ReceiptsInv'
  <2>1. CASE ReleaseFailedOrder(o)
    <3>1. /\ ReleaseOrderReservation(o, "CANCELLED", {"PENDING_PAYMENT"})
          /\ UNCHANGED <<intent, accrual, ledger, receipts, reading>>
      BY <2>1 DEF ReleaseFailedOrder
    <3>2. \A p \in Orders : BookedOnce(p)'
      BY <1>0, <3>1, ReleaseKeepsBooks DEF Received
    <3>3. \A r \in reading' : ReadingStands(r)'
      BY <1>0, <3>1, ReadingsUntouched DEF ReadingStands, Captured, Refunded
    <3> QED
      BY <3>1, <3>2, <3>3 DEF ReceiptsInv
  <2>2. CASE StoreReference(o)
    BY <1>1, <2>2 DEF StoreReference, TypeOK
  <2>3. CASE MarkIntentFailed(o)
    BY <1>1, <2>3 DEF MarkIntentFailed, TypeOK
  <2>4. CASE Respond(o) \/ HandlerCrash(o)
    BY <1>1, <2>4 DEF Respond, HandlerCrash
  <2> QED
    BY <1>3, <2>1, <2>2, <2>3, <2>4 DEF RequestNext
<1>4. ASSUME NEW o \in Orders, ProviderMoves(o) \/ HoldElapses(o) PROVE ReceiptsInv'
  BY <1>1, <1>4 DEF ProviderMoves, HoldElapses
<1>5. ASSUME SelectStaleHolds PROVE ReceiptsInv'
  BY <1>1, <1>5 DEF SelectStaleHolds
<1>6. ASSUME NEW e \in Event, DeliverEvent(e) PROVE ReceiptsInv'
  <2> DEFINE o == e.order
  <2>1. o \in Orders /\ intent[o] \in IntentStatus
    BY DEF TypeOK, Event
  <2>2. /\ ApplyEvent(e, intent[o]) /\ e \notin receipts /\ UNCHANGED reading
        /\ intent[o] = e.status \/ e.status \in AllowedTransitions[intent[o]]
    BY <1>6 DEF DeliverEvent, Applicable
  <2>3. /\ intent[o] = "PAID" => Captured(o) = 1
        /\ intent[o] = "REFUNDED" => Refunded(o) = 1
    BY <1>0, <2>1 DEF BookedOnce, MoneyFollowsReceipts
  <2>4. \A p \in Orders : BookedOnce(p)'
    BY <1>0, <2>1, <2>2, <2>3, ApplyKeepsBooks
  <2> QED
    BY <1>6, <2>2, <2>4 DEF DeliverEvent, ReceiptsInv
<1>7. ASSUME NEW e \in Event, BeginEvent(e) PROVE ReceiptsInv'
  <2> DEFINE o == e.order
  <2>0. PICK n : n = [event |-> e, seen |-> intent[o]]
    OBVIOUS
  <2>1. o \in Orders
    BY DEF Event
  <2>2. /\ reading' = reading \cup {n} /\ \A r \in reading : r.event # e
        /\ e \notin receipts /\ Dialect = "postgres"
        /\ intent[o] = e.status \/ e.status \in AllowedTransitions[intent[o]]
        /\ UNCHANGED <<order, intent, accrual, ledger, receipts>>
    BY <1>7, <2>0 DEF BeginEvent, Applicable
  <2>3. ASSUME NEW p \in Orders PROVE BookedOnce(p)'
    BY <1>0, <2>2, BookedUntouched DEF Received
  <2>4. ASSUME NEW r \in reading PROVE ReadingStands(r)'
    BY <1>0, <2>0, <2>2 DEF ReadingStands, Captured, Refunded
  <2>5. ReadingStands(n)'
    <3>1. /\ intent[o] = "PAID" => Captured(o) = 1
          /\ intent[o] = "REFUNDED" => Refunded(o) = 1
      BY <1>0, <2>1 DEF BookedOnce, MoneyFollowsReceipts
    <3>2. n.event = e /\ n.seen = intent[o]
      BY <2>0
    <3> QED
      BY <2>2, <3>1, <3>2 DEF ReadingStands, Captured, Refunded
  <2> QED
    BY <2>2, <2>3, <2>4, <2>5 DEF ReceiptsInv
<1>8. ASSUME NEW r \in reading, CommitEvent(r) PROVE ReceiptsInv'
  <2>1. /\ ReadingStands(r) /\ r.event \in Event /\ r.seen \in IntentStatus
        /\ ApplyEvent(r.event, r.seen) /\ reading' = reading \ {r}
    BY <1>0, <1>8 DEF CommitEvent, Reading
  <2>2. /\ \A p \in Orders : BookedOnce(p)'
        /\ \A p \in Orders : Captured(p) = 1 => Captured(p)' = 1
        /\ \A p \in Orders : Refunded(p) = 1 => Refunded(p)' = 1
    BY <1>0, <2>1, ApplyKeepsBooks DEF ReadingStands
  <2>3. ASSUME NEW q \in reading' PROVE q.event \notin receipts'
    <3>1. q \in reading /\ q.event # r.event /\ q.event \notin receipts
      BY <1>0, <2>1 DEF ReadingStands
    <3> QED
      BY <2>1, <3>1 DEF ApplyEvent
  <2>4. \A q \in reading' : ReadingStands(q)'
    BY <1>0, <2>1, <2>2, <2>3, ReadingsUntouched
  <2> QED
    BY <2>1, <2>2, <2>4 DEF ReceiptsInv
<1>9. ASSUME NEW r \in reading, AbortEvent(r) PROVE ReceiptsInv'
  <2>1. reading' = reading \ {r} /\ UNCHANGED <<order, intent, accrual, ledger, receipts>>
    BY <1>9 DEF AbortEvent
  <2>2. ASSUME NEW p \in Orders PROVE BookedOnce(p)'
    BY <1>0, <2>1, BookedUntouched DEF Received
  <2>3. \A q \in reading' : ReadingStands(q)'
    BY <1>0, <2>1, ReadingsUntouched DEF ReadingStands, Captured, Refunded
  <2> QED
    BY <2>1, <2>2, <2>3 DEF ReceiptsInv
<1>10. ASSUME NEW o \in Orders, ExpireHold(o) PROVE ReceiptsInv'
  <2>1. /\ ReleaseOrderReservation(o, "CANCELLED", {"PENDING_PAYMENT"})
        /\ UNCHANGED <<accrual, ledger, receipts, reading>>
    BY <1>10 DEF ExpireHold
  <2>2. /\ intent'[o] \in {intent[o], "FAILED", "CANCELLED"}
        /\ \A p \in Orders \ {o} : intent'[p] = intent[p]
    BY <1>10 DEF ExpireHold, TypeOK
  <2>3. \A p \in Orders : BookedOnce(p)'
    BY <1>0, <2>1, <2>2, ReleaseKeepsBooks DEF Received
  <2>4. \A r \in reading' : ReadingStands(r)'
    BY <1>0, <2>1, ReadingsUntouched DEF ReadingStands, Captured, Refunded
  <2> QED
    BY <2>1, <2>3, <2>4 DEF ReceiptsInv
<1>11. ASSUME NEW o \in Orders, FulfilOrder(o) PROVE ReceiptsInv'
  <2>1. \A p \in Orders, u \in EntryType :
           ledger'[p][u] = IF p = o /\ u = "ORDER_FULFILLED"
                           THEN ledger[p][u] + 1 ELSE ledger[p][u]
    BY <1>11, AppendEffect DEF FulfilOrder, EntryType
  <2>2. order[o] = "PAID" /\ order'[o] = "FULFILLED" /\ accrual'[o] = "ELIGIBLE"
    BY <1>0, <1>11 DEF FulfilOrder, BookedOnce, RoyaltyDue, TypeOK
  <2>3. \A p \in Orders : Captured(p)' = Captured(p) /\ Refunded(p)' = Refunded(p)
    BY <2>1 DEF Captured, Refunded, EntryType
  <2>4. HandedOver(o)' = 1
    BY <1>0, <2>1, <2>2 DEF BookedOnce, MoneyFollowsReceipts, HandedOver, EntryType
  <2>5. UNCHANGED <<intent, receipts, reading>>
    BY <1>11 DEF FulfilOrder
  <2>6. BookedOnce(o)'
    BY <1>0, <2>2, <2>3, <2>4, <2>5 DEF BookedOnce, MoneyFollowsReceipts, SaleBooked,
       RoyaltyDue, Received
  <2>7. ASSUME NEW p \in Orders \ {o} PROVE BookedOnce(p)'
    BY <1>0, <1>11, <2>1, <2>5, BookedUntouched DEF FulfilOrder, TypeOK, Received
  <2>8. \A r \in reading' : ReadingStands(r)'
    BY <1>0, <2>3, <2>5, ReadingsUntouched DEF ReadingStands
  <2> QED
    BY <2>5, <2>6, <2>7, <2>8 DEF ReceiptsInv
<1>12. ASSUME NEW c \in Capacities, NEW off \in BOOLEAN, ConfigureStock(c, off)
       PROVE  ReceiptsInv'
  BY <1>1, <1>12 DEF ConfigureStock
<1>13. CASE UNCHANGED vars
  BY <1>1, <1>13 DEF vars
<1> QED
  BY <1>2, <1>3, <1>4, <1>5, <1>6, <1>7, <1>8, <1>9, <1>10, <1>11, <1>12, <1>13 DEF Next

\* An order is a sale exactly while one capture of its payment is booked and
\* no refund, whatever the handler, the sweeper and repeated or reordered
\* webhooks do, where webhook transactions are serialised or the provider
\* gives each status of an order one event id; and
THEOREM LedgerBacksEverySale ==
    Dialect = "sqlite" \/ OneEventId => (Spec => []LedgerBacksSales)
<1>1. ASSUME Dialect = "sqlite" PROVE Spec => []LedgerBacksSales
  <2>1. TypeOK /\ LedgerInv /\ [Next]_vars => LedgerInv'
    BY <1>1, LedgerInvNext
  <2>2. LedgerInv => LedgerBacksSales
    BY DEF LedgerInv, OrderInv, LedgerBacksSales
  <2> QED
    BY <2>1, <2>2, LedgerInvInit, TypeCorrect, PTL DEF Spec
<1>2. ASSUME OneEventId PROVE Spec => []LedgerBacksSales
  <2>1. TypeOK /\ ReceiptsInv /\ [Next]_vars => ReceiptsInv'
    BY <1>2, ReceiptsInvNext
  <2>2. ReceiptsInv => LedgerBacksSales
    BY DEF ReceiptsInv, BookedOnce, LedgerBacksSales
  <2> QED
    BY <2>1, <2>2, ReceiptsInvInit, TypeCorrect, PTL DEF Spec
<1> QED
  BY <1>1, <1>2

\* A royalty waits exactly while its sale is paid and not handed over, is
\* payable or paid out once it is handed over, and is never payable on a
\* refunded order (payments.ts:481-505, commerce-ops.ts:429).
THEOREM RoyaltyOnDeliveredSales ==
    Dialect = "sqlite" \/ OneEventId => (Spec => []RoyaltyFollowsDelivery)
<1>1. ASSUME Dialect = "sqlite" PROVE Spec => []RoyaltyFollowsDelivery
  <2>1. TypeOK /\ LedgerInv /\ [Next]_vars => LedgerInv'
    BY <1>1, LedgerInvNext
  <2>2. LedgerInv => RoyaltyFollowsDelivery
    BY DEF LedgerInv, OrderInv, RoyaltyFollowsDelivery
  <2> QED
    BY <2>1, <2>2, LedgerInvInit, TypeCorrect, PTL DEF Spec
<1>2. ASSUME OneEventId PROVE Spec => []RoyaltyFollowsDelivery
  <2>1. TypeOK /\ ReceiptsInv /\ [Next]_vars => ReceiptsInv'
    BY <1>2, ReceiptsInvNext
  <2>2. ReceiptsInv => RoyaltyFollowsDelivery
    BY DEF ReceiptsInv, BookedOnce, RoyaltyFollowsDelivery
  <2> QED
    BY <2>1, <2>2, ReceiptsInvInit, TypeCorrect, PTL DEF Spec
<1> QED
  BY <1>1, <1>2

-----------------------------------------------------------------------------
(* One-step capture: what the stock rests on.                                *)

Unauthorized ==
    /\ \A o \in Orders : checkout[o] # "AUTHORIZED" /\ intent[o] # "AUTHORIZED"
    /\ \A e \in sent : e.status # "AUTHORIZED"

\* An order that waits for its payment has an intent the sweeper may cancel,
\* or one that failed; a cancelled order has an intent nothing can revive.
HoldFollowsIntent(o) ==
    /\ order[o] = "CANCELLED" => intent[o] \in {"FAILED", "CANCELLED"}
    /\ order[o] = "PENDING_PAYMENT" =>
          intent[o] \in {"PENDING_PROVIDER", "REDIRECT_REQUIRED", "FAILED"}
    /\ request[o] = "RELEASING" => intent[o] = "FAILED"

StockInv ==
    /\ Unauthorized
    /\ \A o \in Orders : HoldFollowsIntent(o)
    /\ StockBacksOrders

LEMMA TokensCount ==
    ASSUME NEW o \in Orders
    PROVE  Units[o] \in Nat /\ IsFiniteSet(Tokens(o)) /\ Cardinality(Tokens(o)) = Units[o]
<1>1. Units[o] \in Nat /\ Units[o] > 0
  BY UnitsAssumption
<1>2. IsFiniteSet(1..Units[o]) /\ Cardinality(1..Units[o]) = Units[o]
  <2> DEFINE n == Units[o]
  <2>1. 1 \in Int /\ n \in Int /\ ~(1 > n) /\ n - 1 + 1 = n
    BY <1>1
  <2> HIDE DEF n
  <2>2. IsFiniteSet(1..n) /\ Cardinality(1..n) = IF 1 > n THEN 0 ELSE n - 1 + 1
    BY <2>1, FS_Interval
  <2> QED
    BY <2>1, <2>2 DEF n
<1>3. IsFiniteSet({o}) /\ Cardinality({o}) = 1
  BY FS_Singleton
<1>4. IsFiniteSet({o} \X (1..Units[o]))
      /\ Cardinality({o} \X (1..Units[o])) = Cardinality({o}) * Cardinality(1..Units[o])
  BY <1>2, <1>3, FS_Product
<1> QED
  BY <1>1, <1>2, <1>3, <1>4 DEF Tokens

\* What a set of orders holds, whatever their statuses.
UnitsOf(S) == UNION {Tokens(o) : o \in S}
Holders    == {p \in Orders : order[p] \in Holding}

LEMMA UnitsOfFinite ==
    ASSUME NEW S \in SUBSET Orders
    PROVE  IsFiniteSet(UnitsOf(S))
<1> DEFINE T == {Tokens(o) : o \in S}
           f == [o \in S |-> Tokens(o)]
<1>1. IsFiniteSet(S)
  BY OrdersAssumption, FS_Subset
<1>2. f \in Surjection(S, T)
  BY DEF Surjection
<1>3. IsFiniteSet(T)
  <2> HIDE DEF T, f
  <2> QED
    BY <1>1, <1>2, FS_Surjection
<1>4. \A x \in T : IsFiniteSet(x)
  BY TokensCount
<1>5. IsFiniteSet(UNION T)
  <2> HIDE DEF T
  <2> QED
    BY <1>3, <1>4, FS_UNION
<1> QED
  BY <1>5 DEF UnitsOf

\* One more holder holds its own units on top: the tokens of two orders are
\* different.
LEMMA OneMoreHolder ==
    ASSUME NEW S \in SUBSET Orders, NEW o \in Orders, o \notin S
    PROVE  /\ Cardinality(UnitsOf(S)) \in Nat
           /\ Cardinality(UnitsOf(S \cup {o})) = Cardinality(UnitsOf(S)) + Units[o]
<1>1. UnitsOf(S \cup {o}) = UnitsOf(S) \cup Tokens(o)
  BY DEF UnitsOf
<1>2. UnitsOf(S) \cap Tokens(o) = {}
  BY DEF UnitsOf, Tokens
<1>3. Cardinality({}) = 0
  BY FS_EmptySet
<1>4. IsFiniteSet(UnitsOf(S)) /\ Cardinality(UnitsOf(S)) \in Nat
  BY UnitsOfFinite, FS_CardinalityType
<1>5. Cardinality(UnitsOf(S) \cup Tokens(o)) =
         Cardinality(UnitsOf(S)) + Cardinality(Tokens(o)) - Cardinality({})
  BY <1>2, <1>4, TokensCount, FS_Union
<1>6. Units[o] \in Nat /\ Cardinality(Tokens(o)) = Units[o]
  BY TokensCount
<1>7. Cardinality(UnitsOf(S) \cup Tokens(o)) = Cardinality(UnitsOf(S)) + Units[o]
  BY <1>3, <1>4, <1>5, <1>6
<1> QED
  BY <1>1, <1>4, <1>7

LEMMA HeldUnitsOfHolders == HeldUnits = UnitsOf(Holders)
BY DEF HeldUnits, UnitsOf, Holders

\* The units that change hands when the status of one order changes.
LEMMA HolderJoins ==
    ASSUME NEW o \in Orders, order[o] \notin Holding, order'[o] \in Holding,
           \A p \in Orders \ {o} : order'[p] = order[p]
    PROVE  Cardinality(HeldUnits)' = Cardinality(HeldUnits) + Units[o]
<1>1. Holders' = Holders \cup {o} /\ o \notin Holders /\ Holders \in SUBSET Orders
  BY DEF Holders
<1>2. HeldUnits' = UnitsOf(Holders')
  BY DEF HeldUnits, UnitsOf, Holders
<1> QED
  BY <1>1, <1>2, OneMoreHolder, HeldUnitsOfHolders

LEMMA HolderLeaves ==
    ASSUME NEW o \in Orders, order[o] \in Holding, order'[o] \notin Holding,
           \A p \in Orders \ {o} : order'[p] = order[p]
    PROVE  /\ Cardinality(HeldUnits)' \in Nat
           /\ Cardinality(HeldUnits) = Cardinality(HeldUnits)' + Units[o]
<1> DEFINE S == Holders'
<1>1. Holders = S \cup {o} /\ o \notin S /\ S \in SUBSET Orders
  BY DEF Holders
<1>2. HeldUnits' = UnitsOf(S)
  BY DEF HeldUnits, UnitsOf, Holders
<1> HIDE DEF S
<1> QED
  BY <1>1, <1>2, OneMoreHolder, HeldUnitsOfHolders

LEMMA HoldersStay ==
    ASSUME \A p \in Orders : order'[p] \in Holding <=> order[p] \in Holding
    PROVE  Cardinality(HeldUnits)' = Cardinality(HeldUnits)
<1>1. {p \in Orders : order'[p] \in Holding} = {p \in Orders : order[p] \in Holding}
  OBVIOUS
<1>2. HeldUnits' = HeldUnits
  BY <1>1 DEF HeldUnits
<1> QED
  BY <1>2

\* A release returns exactly the units the order held.
LEMMA ReleaseKeepsStock ==
    ASSUME TypeOK, StockBacksOrders, NEW o \in Orders, NEW next, NEW from \in SUBSET Holding,
           next \notin Holding, ReleaseOrderReservation(o, next, from)
    PROVE  StockBacksOrders'
<1>1. CASE order[o] \in from
  <2>1. order' = [order EXCEPT ![o] = next] /\ order[o] \in Holding
    BY <1>1 DEF ReleaseOrderReservation
  <2>2. /\ Cardinality(HeldUnits)' \in Nat
        /\ Cardinality(HeldUnits) = Cardinality(HeldUnits)' + Units[o]
    BY <2>1, HolderLeaves DEF TypeOK
  <2>3. reserved' = IF reserved >= Units[o] THEN reserved - Units[o] ELSE reserved
    BY <1>1 DEF ReleaseOrderReservation
  <2>4. Units[o] \in Nat
    BY TokensCount
  <2> QED
    BY <2>2, <2>3, <2>4 DEF StockBacksOrders, TypeOK
<1>2. CASE order[o] \notin from
  BY <1>2, HoldersStay DEF ReleaseOrderReservation, StockBacksOrders
<1> QED
  BY <1>1, <1>2

LEMMA StockInvInit == Init /\ ~TwoStepCapture => StockInv
<1> SUFFICES ASSUME Init PROVE StockInv
  OBVIOUS
<1>1. Unauthorized /\ \A o \in Orders : HoldFollowsIntent(o)
  BY DEF Init, Unauthorized, HoldFollowsIntent
<1>2. HeldUnits = {}
  BY DEF Init, HeldUnits, Holding
<1>3. Cardinality(HeldUnits) = 0
  BY <1>2, FS_EmptySet
<1> QED
  BY <1>1, <1>3 DEF Init, StockInv, StockBacksOrders

\* A payment is only captured for an order that still waits for it.
LEMMA CaptureOfPending ==
    ASSUME TypeOK, LedgerInv, StockInv, NEW o \in Orders,
           "PAID" \in AllowedTransitions[intent[o]]
    PROVE  order[o] = "PENDING_PAYMENT"
<1>1. intent[o] = "REDIRECT_REQUIRED"
  <2>1. intent[o] \in IntentStatus /\ intent[o] # "AUTHORIZED"
    BY DEF StockInv, Unauthorized, TypeOK
  <2> QED
    BY <2>1 DEF AllowedTransitions, IntentStatus
<1>2. OrderInv(o) /\ HoldFollowsIntent(o)
  BY DEF LedgerInv, StockInv
<1>3. Captured(o) = 0 /\ Refunded(o) \in Nat
  BY <1>1, <1>2 DEF OrderInv, MoneyFollowsIntent, Unpaid, Refunded, TypeOK, EntryType
<1>4. order[o] \notin {"PAID", "FULFILLED", "REFUNDED"}
  BY <1>2, <1>3 DEF OrderInv, SaleBooked
<1>5. order[o] \notin {"NONE", "CANCELLED"}
  BY <1>1, <1>2 DEF OrderInv, HandlerAlone, HoldFollowsIntent
<1> QED
  BY <1>4, <1>5 DEF TypeOK, OrderStatus

\* What a webhook event does to the status of the order, seen from outside.
OrderMoves(o) ==
    \/ order' = order
    \/ /\ order[o] = "PENDING_PAYMENT"
       /\ order' = [order EXCEPT ![o] = "PAID"]
       /\ intent'[o] = "PAID" /\ UNCHANGED reserved
    \/ /\ order[o] = "PENDING_PAYMENT"
       /\ order' = [order EXCEPT ![o] = "CANCELLED"]
       /\ intent'[o] \in {"FAILED", "CANCELLED"}
    \/ /\ order[o] \in {"PAID", "FULFILLED"}
       /\ order' = [order EXCEPT ![o] = "REFUNDED"]

LEMMA ApplyMovesOrder ==
    ASSUME TypeOK, LedgerInv, StockInv, NEW e \in Event,
           Applicable(e, intent[e.order]), ApplyEvent(e, intent[e.order])
    PROVE  OrderMoves(e.order)
<1> DEFINE o == e.order
<1>1. o \in Orders /\ e.status \in EventStatus
  BY DEF Event
<1>2. CASE intent[o] = e.status
  BY <1>2 DEF ApplyEvent, dbVars, OrderMoves
<1>3. CASE intent[o] # e.status
  <2>1. e.status \in AllowedTransitions[intent[o]] /\ intent'[o] = e.status
    BY <1>1, <1>3 DEF Applicable, ApplyEvent, TypeOK
  <2>2. CASE e.status = "PAID"
    <3>1. Capture(o)
      BY <1>3, <2>2 DEF ApplyEvent
    <3>2. order[o] = "PENDING_PAYMENT"
      BY <1>1, <2>1, <2>2, CaptureOfPending
    <3> QED
      BY <2>1, <2>2, <3>1, <3>2 DEF Capture, OrderMoves
  <2>3. CASE e.status = "REFUNDED"
    <3>1. intent[o] = "PAID"
      <4>1. intent[o] \in IntentStatus
        BY <1>1 DEF TypeOK
      <4> QED
        BY <2>1, <2>3, <4>1 DEF AllowedTransitions, IntentStatus
    <3>2. order[o] \in {"PAID", "FULFILLED"}
      BY <1>1, <3>1 DEF LedgerInv, OrderInv, MoneyFollowsIntent, SaleBooked
    <3>3. ReleaseOrderReservation(o, "REFUNDED", Holding)
      BY <1>3, <2>3 DEF ApplyEvent, Refund
    <3> QED
      BY <3>2, <3>3 DEF ReleaseOrderReservation, Holding, OrderMoves
  <2>4. CASE e.status \in {"FAILED", "CANCELLED"}
    <3>1. ReleaseOrderReservation(o, "CANCELLED", {"PENDING_PAYMENT"})
      BY <1>3, <2>4 DEF ApplyEvent
    <3> QED
      BY <2>1, <2>4, <3>1 DEF ReleaseOrderReservation, OrderMoves
  <2>5. CASE e.status = "AUTHORIZED"
    BY <1>3, <2>5 DEF ApplyEvent, OrderMoves
  <2> QED
    BY <1>1, <2>2, <2>3, <2>4, <2>5 DEF EventStatus
<1> QED
  BY <1>2, <1>3

LEMMA ApplyKeepsStock ==
    ASSUME TypeOK, LedgerInv, StockInv, NEW e \in Event,
           Applicable(e, intent[e.order]), ApplyEvent(e, intent[e.order]),
           UNCHANGED <<request, providerVars>>
    PROVE  StockInv'
<1> DEFINE o == e.order
<1>1. o \in Orders /\ e.status # "AUTHORIZED" /\ e.status \in EventStatus
  BY DEF Event, Applicable, StockInv, Unauthorized
<1>2. OrderMoves(o) /\ HoldFollowsIntent(o)
  BY <1>1, ApplyMovesOrder DEF StockInv
<1>3. intent' = IF intent[o] = e.status THEN intent ELSE [intent EXCEPT ![o] = e.status]
  BY DEF ApplyEvent, dbVars
<1>4. Unauthorized'
  BY <1>1, <1>3 DEF StockInv, Unauthorized, providerVars, TypeOK
<1>5. HoldFollowsIntent(o)'
  <2>1. CASE order' = order /\ intent[o] # e.status
    <3>1. e.status \in AllowedTransitions[intent[o]] /\ intent'[o] = e.status
      BY <1>1, <1>3, <2>1 DEF Applicable, TypeOK
    <3>2. intent[o] \notin {"FAILED", "CANCELLED"}
      BY <3>1 DEF AllowedTransitions
    <3>3. CASE order[o] = "PENDING_PAYMENT"
      <4>1. e.status \in {"PAID", "FAILED", "CANCELLED"}
        BY <1>1, <1>2, <3>1, <3>2, <3>3 DEF HoldFollowsIntent, AllowedTransitions, EventStatus
      <4>2. order'[o] # "PENDING_PAYMENT"
        BY <1>1, <2>1, <3>3, <4>1 DEF ApplyEvent, Capture, ReleaseOrderReservation, TypeOK
      <4> QED
        BY <2>1, <3>3, <4>2
    <3> QED
      BY <1>2, <2>1, <3>2, <3>3 DEF HoldFollowsIntent
  <2>2. CASE order' = order /\ intent[o] = e.status
    BY <1>2, <1>3, <2>2 DEF HoldFollowsIntent
  <2>3. CASE order' # order
    <3>1. /\ order'[o] \in {"PAID", "REFUNDED", "CANCELLED"}
          /\ order'[o] = "CANCELLED" => intent'[o] \in {"FAILED", "CANCELLED"}
      BY <1>1, <1>2, <2>3 DEF OrderMoves, TypeOK
    <3>2. request[o] = "RELEASING" => intent'[o] = "FAILED"
      BY <1>1, <1>2, <1>3 DEF HoldFollowsIntent, Applicable, AllowedTransitions, TypeOK
    <3> QED
      BY <3>1, <3>2 DEF HoldFollowsIntent
  <2> QED
    BY <2>1, <2>2, <2>3
<1>6. ASSUME NEW p \in Orders \ {o} PROVE HoldFollowsIntent(p)'
  BY <1>1, <1>2, <1>3 DEF StockInv, HoldFollowsIntent, OrderMoves, TypeOK
<1>7. StockBacksOrders'
  <2>1. CASE intent[o] = e.status
    BY <2>1, HoldersStay DEF ApplyEvent, dbVars, StockInv, StockBacksOrders
  <2>2. CASE intent[o] # e.status /\ e.status = "PAID"
    <3>1. Capture(o) /\ order[o] = "PENDING_PAYMENT"
      BY <1>1, <2>2, CaptureOfPending DEF Applicable, ApplyEvent
    <3>2. Cardinality(HeldUnits)' = Cardinality(HeldUnits)
      BY <1>1, <3>1, HoldersStay DEF Capture, Holding, TypeOK
    <3> QED
      BY <3>1, <3>2 DEF Capture, StockInv, StockBacksOrders
  <2>3. CASE intent[o] # e.status /\ e.status = "REFUNDED"
    BY <1>1, <2>3, ReleaseKeepsStock DEF ApplyEvent, Refund, Holding, StockInv
  <2>4. CASE intent[o] # e.status /\ e.status \in {"FAILED", "CANCELLED"}
    BY <1>1, <2>4, ReleaseKeepsStock DEF ApplyEvent, Holding, StockInv
  <2> QED
    BY <1>1, <2>1, <2>2, <2>3, <2>4 DEF EventStatus
<1> QED
  BY <1>4, <1>5, <1>6, <1>7 DEF StockInv

\* One step per action; with TwoStepCapture the sweeper breaks it, see the
\* run that shows how.
LEMMA StockInvNext ==
    ASSUME Dialect = "sqlite", ~TwoStepCapture, TypeOK, LedgerInv, StockInv, [Next]_vars
    PROVE  StockInv'
<1> USE DEF dbVars, stockVars
<1>0. /\ \A p \in Orders : HoldFollowsIntent(p)
      /\ Unauthorized /\ StockBacksOrders
  BY DEF StockInv
<1>1. ASSUME NEW o \in Orders, CreateOrder(o) PROVE StockInv'
  <2>1. /\ order[o] = "NONE" /\ order'[o] = "PENDING_PAYMENT"
        /\ \A p \in Orders \ {o} : order'[p] = order[p]
    BY <1>1 DEF CreateOrder, TypeOK
  <2>2. /\ intent'[o] = "PENDING_PROVIDER" /\ request'[o] = "CALLING"
        /\ \A p \in Orders \ {o} : intent'[p] = intent[p] /\ request'[p] = request[p]
    BY <1>1 DEF CreateOrder, TypeOK
  <2>3. StockBacksOrders'
    BY <1>0, <1>1, <2>1, HolderJoins
       DEF CreateOrder, ReserveBranchStock, StockBacksOrders, Holding
  <2>4. Unauthorized'
    BY <1>0, <1>1, <2>2 DEF CreateOrder, Unauthorized, providerVars
  <2>5. \A p \in Orders : HoldFollowsIntent(p)'
    BY <1>0, <2>1, <2>2 DEF HoldFollowsIntent
  <2> QED
    BY <2>3, <2>4, <2>5 DEF StockInv
<1>2. ASSUME NEW o \in Orders, StoreReference(o) PROVE StockInv'
  <2>1. intent[o] = "PENDING_PROVIDER"
    BY <1>2 DEF StoreReference, LedgerInv, OrderInv, HandlerAlone
  <2>2. Unauthorized' /\ \A p \in Orders : HoldFollowsIntent(p)'
    BY <1>0, <1>2, <2>1 DEF StoreReference, Unauthorized, HoldFollowsIntent, TypeOK
  <2>3. StockBacksOrders'
    BY <1>0, <1>2, HoldersStay DEF StoreReference, StockBacksOrders
  <2> QED
    BY <2>2, <2>3 DEF StockInv
<1>3. ASSUME NEW o \in Orders, Respond(o) PROVE StockInv'
  <2>1. Unauthorized' /\ \A p \in Orders : HoldFollowsIntent(p)'
    BY <1>0, <1>3 DEF Respond, Unauthorized, HoldFollowsIntent, TypeOK, providerVars
  <2>2. StockBacksOrders'
    BY <1>0, <1>3, HoldersStay DEF Respond, StockBacksOrders
  <2> QED
    BY <2>1, <2>2 DEF StockInv
<1>4. ASSUME NEW o \in Orders, MarkIntentFailed(o) PROVE StockInv'
  <2>1. Unauthorized' /\ \A p \in Orders : HoldFollowsIntent(p)'
    BY <1>0, <1>4 DEF MarkIntentFailed, Unauthorized, HoldFollowsIntent, TypeOK, providerVars
  <2>2. StockBacksOrders'
    BY <1>0, <1>4, HoldersStay DEF MarkIntentFailed, StockBacksOrders
  <2> QED
    BY <2>1, <2>2 DEF StockInv
<1>5. ASSUME NEW o \in Orders, ReleaseFailedOrder(o) PROVE StockInv'
  <2>1. /\ ReleaseOrderReservation(o, "CANCELLED", {"PENDING_PAYMENT"})
        /\ UNCHANGED <<intent, providerVars>>
        /\ intent[o] = "FAILED"
    BY <1>0, <1>5 DEF ReleaseFailedOrder, HoldFollowsIntent
  <2>2. StockBacksOrders'
    BY <1>0, <2>1, ReleaseKeepsStock DEF Holding
  <2>3. Unauthorized' /\ \A p \in Orders : HoldFollowsIntent(p)'
    BY <1>0, <1>5, <2>1 DEF ReleaseFailedOrder, ReleaseOrderReservation, Unauthorized,
       HoldFollowsIntent, TypeOK, providerVars
  <2> QED
    BY <2>2, <2>3 DEF StockInv
<1>6. ASSUME NEW o \in Orders, HandlerCrash(o) PROVE StockInv'
  <2>1. Unauthorized' /\ \A p \in Orders : HoldFollowsIntent(p)'
    BY <1>0, <1>6 DEF HandlerCrash, Unauthorized, HoldFollowsIntent, TypeOK, providerVars
  <2>2. StockBacksOrders'
    BY <1>0, <1>6, HoldersStay DEF HandlerCrash, StockBacksOrders
  <2> QED
    BY <2>1, <2>2 DEF StockInv
<1>7. ASSUME NEW o \in Orders, ProviderMoves(o) PROVE StockInv'
  <2>1. PICK s \in CheckoutMoves[checkout[o]] :
           /\ checkout' = [checkout EXCEPT ![o] = s]
           /\ sent'     = sent \cup {[order |-> o, status |-> s, id |-> i] : i \in EventIds}
    BY <1>7 DEF ProviderMoves
  <2>2. checkout[o] \in CheckoutState /\ checkout[o] # "AUTHORIZED"
    BY <1>0 DEF TypeOK, Unauthorized
  <2>3. s # "AUTHORIZED"
    BY <2>1, <2>2 DEF CheckoutMoves, CheckoutState, EventStatus
  <2>4. UNCHANGED <<order, intent, reserved, request>>
    BY <1>7 DEF ProviderMoves
  <2>5. Unauthorized'
    BY <1>0, <2>1, <2>3, <2>4 DEF Unauthorized, TypeOK
  <2>6. \A p \in Orders : HoldFollowsIntent(p)'
    BY <1>0, <2>4 DEF HoldFollowsIntent
  <2>7. StockBacksOrders'
    BY <1>0, <2>4, HoldersStay DEF StockBacksOrders
  <2> QED
    BY <2>5, <2>6, <2>7 DEF StockInv
<1>8. ASSUME NEW e \in Event, DeliverEvent(e) PROVE StockInv'
  BY <1>8, ApplyKeepsStock DEF DeliverEvent
<1>9. ASSUME NEW e \in Event, BeginEvent(e) PROVE StockInv'
  BY <1>9 DEF BeginEvent
<1>10. ASSUME NEW r \in reading PROVE StockInv'
  BY <1>10 DEF LedgerInv, Serialised
<1>11. ASSUME UNCHANGED <<order, intent, reserved, request, checkout, sent>>
       PROVE  StockInv'
  BY <1>0, <1>11, HoldersStay DEF StockInv, StockBacksOrders, Unauthorized, HoldFollowsIntent
<1>12. ASSUME NEW o \in Orders, ExpireHold(o) PROVE StockInv'
  <2>1. /\ ReleaseOrderReservation(o, "CANCELLED", {"PENDING_PAYMENT"})
        /\ UNCHANGED <<request, providerVars>>
    BY <1>12 DEF ExpireHold
  <2>2. StockBacksOrders'
    BY <1>0, <2>1, ReleaseKeepsStock DEF Holding
  <2>3. Unauthorized'
    BY <1>0, <1>12, <2>1 DEF ExpireHold, Unauthorized, providerVars, TypeOK
  <2>4. request[o] # "RELEASING" \/ intent'[o] = "FAILED"
    BY <1>0, <1>12 DEF ExpireHold, HoldFollowsIntent
  <2>5. HoldFollowsIntent(o)'
    BY <1>0, <1>12, <2>1, <2>4 DEF ExpireHold, ReleaseOrderReservation, HoldFollowsIntent, TypeOK
  <2>6. ASSUME NEW p \in Orders \ {o} PROVE HoldFollowsIntent(p)'
    BY <1>0, <1>12, <2>1 DEF ExpireHold, ReleaseOrderReservation, HoldFollowsIntent, TypeOK
  <2> QED
    BY <2>2, <2>3, <2>5, <2>6 DEF StockInv
<1>13. ASSUME NEW o \in Orders, FulfilOrder(o) PROVE StockInv'
  <2>1. Unauthorized' /\ \A p \in Orders : HoldFollowsIntent(p)'
    BY <1>0, <1>13 DEF FulfilOrder, Unauthorized, HoldFollowsIntent, TypeOK, providerVars
  <2>2. StockBacksOrders'
    BY <1>0, <1>13, HoldersStay DEF FulfilOrder, StockBacksOrders, Holding, TypeOK
  <2> QED
    BY <2>1, <2>2 DEF StockInv
<1> QED
  BY <1>1, <1>2, <1>3, <1>4, <1>5, <1>6, <1>7, <1>8, <1>9, <1>10, <1>11, <1>12, <1>13
     DEF Next, RequestNext, SelectStaleHolds, HoldElapses, ConfigureStock, providerVars, vars

\* With serialised webhooks and a provider that captures in one step, the
\* counter of reserved units and the orders it backs never drift apart.
THEOREM StockNeverDrifts ==
    Dialect = "sqlite" /\ ~TwoStepCapture => (Spec => []StockBacksOrders)
<1> SUFFICES ASSUME Dialect = "sqlite", ~TwoStepCapture PROVE Spec => []StockBacksOrders
  OBVIOUS
<1>1. TypeOK /\ LedgerInv /\ StockInv /\ [Next]_vars => StockInv'
  BY StockInvNext
<1>2. TypeOK /\ LedgerInv /\ [Next]_vars => LedgerInv'
  BY LedgerInvNext
<1>3. Init => StockInv
  BY StockInvInit
<1>4. StockInv => StockBacksOrders
  BY DEF StockInv
<1> QED
  BY <1>1, <1>2, <1>3, <1>4, LedgerInvInit, TypeCorrect, PTL DEF Spec

-----------------------------------------------------------------------------
(* Refinement.                                                              *)

LEMMA OwedIsHeld == Sale!Owed = Cardinality(HeldUnits)
<1>1. UNION {Sale!Tokens(o) : o \in {p \in Orders : order[p] \in Sale!Holding}} = HeldUnits
  BY DEF Sale!Tokens, Tokens, Sale!Holding, HeldUnits, Holding
<1> QED
  BY <1>1 DEF Sale!Owed, Sale!Cardinality, Cardinality

LEMMA ReleaseIsCancel ==
    ASSUME NEW o \in Orders, UNCHANGED capacity,
           ReleaseOrderReservation(o, "CANCELLED", {"PENDING_PAYMENT"})
    PROVE  [Sale!Next]_(Sale!vars)
BY DEF ReleaseOrderReservation, Sale!Next, Sale!Advance, Sale!vars

LEMMA SaleStep ==
    ASSUME Dialect = "sqlite", TypeOK, LedgerInv, StockInv, [Next]_vars
    PROVE  [Sale!Next]_(Sale!vars)
<1> USE DEF dbVars, stockVars
<1>1. Sale!Owed = reserved
  BY OwedIsHeld DEF StockInv, StockBacksOrders
<1>2. ASSUME NEW o \in Orders, CreateOrder(o) PROVE Sale!Next
  <2>1. Sale!Place(o)
    BY <1>1, <1>2, OwedIsHeld DEF CreateOrder, ReserveBranchStock, Sale!Place
  <2> QED
    BY <2>1 DEF Sale!Next
<1>3. ASSUME NEW o \in Orders, ReleaseFailedOrder(o) \/ ExpireHold(o)
      PROVE  [Sale!Next]_(Sale!vars)
  BY <1>3, ReleaseIsCancel DEF ReleaseFailedOrder, ExpireHold
<1>4. ASSUME NEW e \in Event, DeliverEvent(e) PROVE [Sale!Next]_(Sale!vars)
  <2>1. e.order \in Orders /\ OrderMoves(e.order) /\ UNCHANGED capacity
    BY <1>4, ApplyMovesOrder DEF DeliverEvent, Event
  <2> QED
    BY <2>1 DEF OrderMoves, Sale!Next, Sale!Advance, Sale!vars
<1>5. ASSUME NEW o \in Orders, FulfilOrder(o) PROVE Sale!Next
  BY <1>5 DEF FulfilOrder, Sale!Next, Sale!Advance
<1>6. ASSUME NEW c \in Capacities, NEW off \in BOOLEAN, ConfigureStock(c, off)
      PROVE  Sale!Next
  BY <1>1, <1>6 DEF ConfigureStock, Sale!Next, Sale!Resize
<1>7. ASSUME UNCHANGED <<order, capacity>> PROVE [Sale!Next]_(Sale!vars)
  BY <1>7 DEF Sale!vars
<1>8. ASSUME NEW e \in Event, BeginEvent(e) PROVE FALSE
  BY <1>8 DEF BeginEvent
<1>9. ASSUME NEW r \in reading PROVE FALSE
  BY <1>9 DEF LedgerInv, Serialised
<1> QED
  BY <1>2, <1>3, <1>4, <1>5, <1>6, <1>7, <1>8, <1>9
     DEF Next, RequestNext, StoreReference, Respond, MarkIntentFailed, HandlerCrash,
         ProviderMoves, SelectStaleHolds, HoldElapses, vars

\* Under the same assumptions the purchase cycle implements the sale it
\* promises: nothing is sold beyond the capacity of the branch, and a
\* cancelled or refunded order is over.
THEOREM CycleImplementsSale ==
    Dialect = "sqlite" /\ ~TwoStepCapture => (Spec => ImplementsDropSale)
<1> SUFFICES ASSUME Dialect = "sqlite", ~TwoStepCapture PROVE Spec => Sale!Spec
  BY DEF ImplementsDropSale
<1>1. Init => Sale!Init
  BY DEF Init, Sale!Init
<1>2. TypeOK /\ LedgerInv /\ StockInv /\ [Next]_vars => [Sale!Next]_(Sale!vars)
  BY SaleStep
<1>3. TypeOK /\ LedgerInv /\ StockInv /\ [Next]_vars => StockInv'
  BY StockInvNext
<1>4. TypeOK /\ LedgerInv /\ [Next]_vars => LedgerInv'
  BY LedgerInvNext
<1>5. Init => StockInv
  BY StockInvInit
<1> QED
  BY <1>1, <1>2, <1>3, <1>4, <1>5, LedgerInvInit, TypeCorrect, PTL DEF Spec, Sale!Spec

-----------------------------------------------------------------------------
(* The quantity cap.                                                        *)

CapInv == reserved <= QuantityCap

LEMMA CapInvNext ==
    ASSUME Dialect = "sqlite", TypeOK, LedgerInv, StockInv, CapInv, [Next]_vars
    PROVE  CapInv'
<1> USE DEF dbVars, CapInv
<1>0. reserved \in Nat /\ QuantityCap \in Nat
  BY QuantityCapAssumption DEF TypeOK
<1>1. ASSUME NEW o \in Orders, CreateOrder(o) PROVE CapInv'
  BY <1>1 DEF CreateOrder, ReserveBranchStock, StockInv, StockBacksOrders
<1>2. ASSUME NEW o \in Orders, NEW next, NEW from, ReleaseOrderReservation(o, next, from)
      PROVE  CapInv'
  <2>1. Units[o] \in Nat
    BY UnitsAssumption
  <2> QED
    BY <1>0, <1>2, <2>1 DEF ReleaseOrderReservation
<1>3. ASSUME NEW o \in Orders, ReleaseFailedOrder(o) \/ ExpireHold(o) PROVE CapInv'
  BY <1>2, <1>3 DEF ReleaseFailedOrder, ExpireHold
<1>4. ASSUME NEW e \in Event, DeliverEvent(e) PROVE CapInv'
  <2>1. e.order \in Orders
    BY DEF Event
  <2> QED
    BY <1>2, <1>4, <2>1 DEF DeliverEvent, ApplyEvent, Capture, Refund
<1>5. ASSUME UNCHANGED reserved PROVE CapInv'
  BY <1>5
<1>6. ASSUME NEW r \in reading PROVE FALSE
  BY <1>6 DEF LedgerInv, Serialised
<1> QED
  BY <1>1, <1>3, <1>4, <1>5, <1>6
     DEF Next, RequestNext, StoreReference, Respond, MarkIntentFailed, HandlerCrash,
         ProviderMoves, BeginEvent, SelectStaleHolds, HoldElapses, FulfilOrder,
         ConfigureStock, vars

\* Under the same assumptions the orders that hold units never hold more
\* than the branch agreed to prepare, nor more than the launch's cap.
THEOREM NothingOversold ==
    Dialect = "sqlite" /\ ~TwoStepCapture => (Spec => []Sale!NeverOversold)
<1> SUFFICES ASSUME Dialect = "sqlite", ~TwoStepCapture PROVE Spec => []Sale!NeverOversold
  OBVIOUS
<1>1. Init => CapInv
  BY QuantityCapAssumption DEF Init, CapInv
<1>2. TypeOK /\ LedgerInv /\ StockInv /\ CapInv /\ [Next]_vars => CapInv'
  BY CapInvNext
<1>3. TypeOK /\ StockInv /\ CapInv => Sale!NeverOversold
  BY OwedIsHeld DEF TypeOK, StockInv, StockBacksOrders, CapInv, Sale!NeverOversold
<1>4. TypeOK /\ LedgerInv /\ StockInv /\ [Next]_vars => StockInv'
  BY StockInvNext
<1>5. TypeOK /\ LedgerInv /\ [Next]_vars => LedgerInv'
  BY LedgerInvNext
<1>6. Init => StockInv
  BY StockInvInit
<1> QED
  BY <1>1, <1>2, <1>3, <1>4, <1>5, <1>6, LedgerInvInit, TypeCorrect, PTL DEF Spec
=============================================================================
