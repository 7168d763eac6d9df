------------------------------ MODULE DemoStore ------------------------------
(***************************************************************************)
(* The store of a demo session, where the browser plays the server: one    *)
(* collaboration from the tasting to the market, the orders of its launch, *)
(* the royalties they earn and the batches that settle them.               *)
(*                                                                         *)
(*   src/lib/store.ts           the demo branch of every operation         *)
(*   src/data/demoUniverse.ts   what the session starts with               *)
(*                                                                         *)
(* Calls run to completion, one at a time.  A visitor switches between the *)
(* demo's users at will (setUser), the administrator among them: an offer  *)
(* and a signature have a side, but who acts is left out of the guards.    *)
(* An order's royalty is as many as its units.                             *)
(***************************************************************************)
EXTENDS Integers, SequencesExt, FiniteSetsExt

CONSTANTS
    NewOrders,      \* orders the visitor may place
    Seeds,          \* orders of the demo universe
    PaidSeeds,      \* those of them that are paid: the others are pending
    Gone,           \* paid orders it takes out again, once all else is built
    Creators,
    CreatorOf,      \* accruals.creatorId, of every order
    Runs,           \* for each batch of the universe, the status it gives to
                    \* its royalties: an APPROVED one locks them, a PAID one pays
    Carrier,        \* the batch of the universe each royalty is in, 0 for none
    Ripe,           \* orders whose royalty, in no batch, is eligible for one
    UnitsSold,      \* launch.unitsSold to begin with: not what the orders add up to
    Cap,            \* quantityCapUnits
    Price,          \* units of the largest order
    MaxOffers       \* bound: offers sent

ASSUME DemoAssumption == /\ NewOrders \cap (Seeds \cup Gone) = {} /\ Seeds \cap Gone = {}
                         /\ PaidSeeds \subseteq Seeds
ASSUME UniverseAssumption == /\ Runs \in Seq({"SETTLEMENT_LOCKED", "PAID"})
                             /\ Carrier \in [Seeds \cup Gone -> 0..Len(Runs)]
                             /\ UnitsSold \in Nat

VARIABLES
    stage,      \* collaboration.stage
    offers,     \* offerHistory: who sent each offer and its status
    contracts,  \* the contracts drawn up, the collaboration's the last
    drop,       \* launch.status, NONE before it is prepared
    ready,      \* the conditions of the gate somebody ticks
    papers,     \* the host's documents are valid
    product,    \* product.status
    sold,       \* launch.unitsSold
    orders,
    accruals,
    batches     \* total of every settlement batch

dealVars == <<stage, offers, contracts, drop, ready, papers, product>>
saleVars == <<sold, orders, accruals, batches>>
demoVars == <<dealVars, saleVars>>

Orders == NewOrders \cup Seeds

Absent == [status |-> "NONE", units |-> 0]
Accrual(o, status, batch, seeded) == [order |-> o, status |-> status, batch |-> batch, seeded |-> seeded]

\* An order has at most one seeded accrual and one of the visitor's.
Worth(set) ==
    SumFunction([k \in {[order |-> a.order, seeded |-> a.seeded] : a \in set} |->
                    IF k.seeded THEN 1 ELSE orders[k.order].units])

\* The royalties of the universe as its batches add them up.  Pending orders
\* have one too.
SeedStatus(o) ==
    IF Carrier[o] # 0 THEN Runs[Carrier[o]]
    ELSE IF o \in Ripe THEN "SETTLEMENT_ELIGIBLE" ELSE "ACCRUED"

Universe == {Accrual(o, SeedStatus(o), Carrier[o], TRUE) : o \in Seeds \cup Gone}

\* A collaboration whose tasting is over, or one that sells.  One launch is
\* then moved to tomorrow: its orders go, and their royalties with them, but
\* the batches keep their totals.
DemoInit ==
    /\ \/ /\ stage = "TASTING_COMPLETED" /\ drop = "NONE" /\ product = "AVAILABLE_FOR_MATCHING"
          /\ offers = <<>> /\ contracts = <<>> /\ ready = FALSE
       \/ /\ stage = "LIVE" /\ drop = "LIVE" /\ product = "LIVE"
          /\ offers = <<[by |-> "HOST", status |-> "ACCEPTED"]>>
          /\ contracts = <<[offer |-> 1, signed |-> {"CREATOR", "HOST"}]>> /\ ready = TRUE
    /\ papers = TRUE
    /\ orders = [o \in Orders |->
                    IF o \in NewOrders THEN Absent
                    ELSE [status |-> IF o \in PaidSeeds THEN "COMPLETED" ELSE "PENDING_PAYMENT",
                          units |-> 1]]
    /\ sold = UnitsSold
    /\ accruals = {a \in Universe : a.order \in Seeds}
    /\ batches = [b \in 1..Len(Runs) |-> Worth({a \in Universe : a.batch = b})]

-----------------------------------------------------------------------------
(* The deal.                                                                *)

\* A batch of the lab reopens the negotiation, whatever the stage.
AddLabBatch ==
    /\ stage' = "LAB_ACTIVE"
    /\ UNCHANGED <<offers, contracts, drop, ready, papers, product, saleVars>>

\* Faulty variant: an offer leaves the one before it open.
LeaveOpen(o) == o

Countered(o) == IF o.status = "PENDING" THEN [o EXCEPT !.status = "COUNTERED"] ELSE o

SendOffer(side) ==
    /\ stage \in {"TASTING_COMPLETED", "LAB_ACTIVE", "OFFER_SENT", "COUNTERED"}
    /\ Len(offers) < MaxOffers
    /\ offers' = Append([n \in DOMAIN offers |-> Countered(offers[n])],
                        [by |-> side, status |-> "PENDING"])
    /\ stage' = "OFFER_SENT"
    /\ UNCHANGED <<contracts, drop, ready, papers, product, saleVars>>

\* The stage is not asked for; the new contract takes the place of the old one.
AcceptOffer(n) ==
    /\ offers[n].status = "PENDING"
    /\ offers' = [offers EXCEPT ![n].status = "ACCEPTED"]
    /\ stage' = "COMMERCIAL_AGREED"
    /\ contracts' = Append(contracts, [offer |-> n, signed |-> {}])
    /\ UNCHANGED <<drop, ready, papers, product, saleVars>>

FullySigned(c) == c.signed = {"CREATOR", "HOST"}

\* Any contract that is not signed yet, also one that has been replaced.
SignContract(c, side) ==
    /\ ~FullySigned(contracts[c])
    /\ contracts' = [contracts EXCEPT ![c].signed = @ \cup {side}]
    /\ stage' = IF FullySigned(contracts'[c]) THEN "SIGNED" ELSE stage
    /\ UNCHANGED <<offers, drop, ready, papers, product, saleVars>>

Signed == contracts # <<>> /\ FullySigned(Last(contracts))

\* getLaunchGate: the contract and the documents as they are now, the rest as
\* it was ticked.
LaunchGate == Signed /\ papers /\ ready

PrepareLaunch ==
    /\ Signed /\ drop = "NONE"
    /\ drop' = "SCHEDULED" /\ stage' = "PRE_LAUNCH" /\ ready' = FALSE
    /\ UNCHANGED <<offers, contracts, papers, product, saleVars>>

\* Prepares the launch when there is none.
SetLaunchGateItem(value) ==
    /\ drop # "NONE" \/ Signed
    /\ ready' = value
    /\ IF drop = "NONE" THEN drop' = "SCHEDULED" /\ stage' = "PRE_LAUNCH" ELSE UNCHANGED <<drop, stage>>
    /\ UNCHANGED <<offers, contracts, papers, product, saleVars>>

\* The status of the launch and of the product is not asked for: a paused one
\* goes live again.
ActivateLaunch ==
    /\ drop # "NONE" /\ LaunchGate
    /\ drop' = "LIVE" /\ stage' = "LIVE" /\ product' = "LIVE"
    /\ UNCHANGED <<offers, contracts, ready, papers, saleVars>>

PauseProduct ==
    /\ product' = "PAUSED"
    /\ drop' = IF drop = "LIVE" THEN "PAUSED" ELSE drop
    /\ UNCHANGED <<stage, offers, contracts, ready, papers, saleVars>>

\* The gate is looked at anew: it may have fallen during the pause.
ResumeProduct ==
    /\ IF drop # "PAUSED" THEN product' = "AVAILABLE_FOR_MATCHING" /\ UNCHANGED <<drop, stage>>
       ELSE IF LaunchGate THEN drop' = "LIVE" /\ stage' = "LIVE" /\ product' = "LIVE"
       ELSE drop' = "SCHEDULED" /\ stage' = "PRE_LAUNCH" /\ product' = "LAUNCH_GATE"
    /\ UNCHANGED <<offers, contracts, ready, papers, saleVars>>

\* A product under review is approved.
DecideProduct ==
    /\ product' = "AVAILABLE_FOR_MATCHING"
    /\ UNCHANGED <<stage, offers, contracts, drop, ready, papers, saleVars>>

\* refreshTemporalStates: a document comes near its expiry, which already
\* keeps the gate shut.
PapersExpire ==
    /\ papers /\ papers' = FALSE
    /\ UNCHANGED <<stage, offers, contracts, drop, ready, product, saleVars>>

-----------------------------------------------------------------------------
(* Orders, royalties, settlements.                                          *)

\* What waits for payment does not count against the quantity.
PlaceOrder(o, units) ==
    /\ orders[o] = Absent /\ drop = "LIVE"
    /\ sold + units <= Cap
    /\ orders' = [orders EXCEPT ![o] = [status |-> "PENDING_PAYMENT", units |-> units]]
    /\ UNCHANGED <<dealVars, sold, accruals, batches>>

\* The quantity is not asked for again: two pending orders may oversell it.
SimulateDemoPayment(o) ==
    /\ orders[o].status = "PENDING_PAYMENT"
    /\ orders' = [orders EXCEPT ![o].status = "COMPLETED"]
    /\ sold' = sold + orders[o].units
    /\ accruals' = accruals \cup {Accrual(o, "ACCRUED", 0, FALSE)}
    /\ UNCHANGED <<dealVars, batches>>

CancelDemoOrder(o) ==
    /\ orders[o].status = "PENDING_PAYMENT"
    /\ orders' = [orders EXCEPT ![o] = Absent]
    /\ UNCHANGED <<dealVars, sold, accruals, batches>>

Of(o) == {a \in accruals : a.order = o}

\* find: the newest accrual decides, ...
Newest(o) == IF \E a \in Of(o) : ~a.seeded THEN {a \in Of(o) : ~a.seeded} ELSE Of(o)

\* Faulty variant: only a royalty that awaits its payout is out of reach.
RefundUnlessLocked(o) ==
    /\ orders[o].status = "COMPLETED"
    /\ \A a \in Newest(o) : a.status # "SETTLEMENT_LOCKED"
    /\ orders' = [orders EXCEPT ![o].status = "REFUNDED"]
    /\ sold' = IF sold < orders[o].units THEN 0 ELSE sold - orders[o].units
    /\ accruals' = accruals \ Of(o)
    /\ UNCHANGED <<dealVars, batches>>

\* ... and all of them go.
RefundDemoOrder(o) ==
    /\ orders[o].status = "COMPLETED"
    /\ \A a \in Newest(o) : a.status \notin {"SETTLEMENT_LOCKED", "PAID"}
    /\ orders' = [orders EXCEPT ![o].status = "REFUNDED"]
    /\ sold' = IF sold < orders[o].units THEN 0 ELSE sold - orders[o].units
    /\ accruals' = accruals \ Of(o)
    /\ UNCHANGED <<dealVars, batches>>

Eligible(c) == {a \in accruals : a.status = "SETTLEMENT_ELIGIBLE" /\ CreatorOf[a.order] = c}

\* One batch for all that one creator may be paid.
ApproveSettlementBatch(c) ==
    /\ Eligible(c) # {}
    /\ batches' = Append(batches, Worth(Eligible(c)))
    /\ accruals' = (accruals \ Eligible(c)) \cup
                   {Accrual(a.order, "SETTLEMENT_LOCKED", Len(batches'), a.seeded) : a \in Eligible(c)}
    /\ UNCHANGED <<dealVars, sold, orders>>

-----------------------------------------------------------------------------
DealNext ==
    \/ AddLabBatch \/ PrepareLaunch \/ ActivateLaunch \/ PauseProduct \/ ResumeProduct
    \/ DecideProduct \/ PapersExpire
    \/ \E side \in {"CREATOR", "HOST"} : \/ SendOffer(side)
                                         \/ \E c \in DOMAIN contracts : SignContract(c, side)
    \/ \E n \in DOMAIN offers : AcceptOffer(n)
    \/ \E value \in BOOLEAN : SetLaunchGateItem(value)

SaleNext ==
    \/ \E o \in NewOrders, units \in 1..Price : PlaceOrder(o, units)
    \/ \E o \in Orders : SimulateDemoPayment(o) \/ CancelDemoOrder(o) \/ RefundDemoOrder(o)
    \/ \E c \in Creators : ApproveSettlementBatch(c)

DemoNext == DealNext \/ SaleNext

DemoSpec == DemoInit /\ [][DemoNext]_demoVars

-----------------------------------------------------------------------------
(* Properties.                                                              *)

InBatch(b) == {a \in accruals : a.batch = b}

\* What a demo shows of money adds up, through payments, cancellations,
\* refunds and settlements: an order the visitor placed has one royalty while
\* it is paid and none otherwise, and a batch, also one of the universe, paid
\* out or not, is worth the royalties it carries.  Two things of the universe
\* break this, and nothing else: a batch that carried an order taken out
\* again, and pending orders with a royalty; paid, such an order earns twice,
\* and its refund takes the first royalty out of the batch that carries it.
BooksOfTheDemo ==
    /\ \A o \in NewOrders : Cardinality(Of(o)) = IF orders[o].status = "COMPLETED" THEN 1 ELSE 0
    /\ (\A o \in Seeds \ PaidSeeds : orders[o].status # "REFUNDED") =>
          \A b \in DOMAIN batches :
             (\A o \in Gone : Carrier[o] # b) => batches[b] = Worth(InBatch(b))

\* At most the last offer is open, and every contract carries an offer that
\* was accepted, each its own, through any number of negotiations.
OneOfferOpen ==
    /\ \A n \in DOMAIN offers : offers[n].status = "PENDING" => n = Len(offers)
    /\ \A c \in DOMAIN contracts : offers[contracts[c].offer].status = "ACCEPTED"
    /\ \A c, d \in DOMAIN contracts : contracts[c].offer = contracts[d].offer => c = d
=============================================================================
