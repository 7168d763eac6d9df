----------------------------- MODULE Reservation -----------------------------
(***************************************************************************)
(* How the orders of one launch take its units when PostgreSQL runs their  *)
(* transactions side by side at READ COMMITTED.  An order may be for any   *)
(* branch, and for the pickup slot of its branch.  Its transaction         *)
(* reserves from the stock row of the branch, counts the orders of the     *)
(* slot, sums the units of the launch and then inserts the order; other    *)
(* transactions commit between these statements.  Meanwhile a host may     *)
(* configure the stock of a branch that had none.                          *)
(*                                                                         *)
(*   server/orders.ts        POST /commerce/orders, the transaction        *)
(*   server/checkout.ts      reserveBranchStock, releaseOrderReservation   *)
(*   server/commerce-ops.ts  PUT /launches/:id/branches/:id/stock          *)
(*                                                                         *)
(* The payment of an order is OrderPayments' matter: here an order holds   *)
(* its units or has given them back.                                       *)
(***************************************************************************)
EXTENDS Integers, FiniteSets

CONSTANTS
    Baskets,     \* orders
    Branches,    \* branches of the establishment
    BranchOf,    \* orders.branch_id
    Size,        \* orders.units
    SlotTakers,  \* orders for the pickup slot of their branch
    SlotLimit,   \* capacityOrders of each slot
    DropCap,     \* launches.quantity_cap
    Rooms        \* bound: capacities a host may configure

ASSUME BasketsAssumption == IsFiniteSet(Baskets)
ASSUME BranchAssumption  == BranchOf \in [Baskets -> Branches]
ASSUME SizeAssumption    == Size \in [Baskets -> Nat \ {0}]
ASSUME TakersAssumption  == SlotTakers \subseteq Baskets
ASSUME LimitsAssumption  == SlotLimit \in Nat /\ DropCap \in Nat /\ Rooms \subseteq Nat

VARIABLES
    basket,       \* orders.status: does the order hold its units?
    buying,       \* the statement each open order transaction is at
    row,          \* launch_branch_stock, what is committed of it
    configuring,  \* the stock configuration of a branch with no row yet
    carried,      \* history: orders whose units the stock row took
    sawUnits,     \* history: orders among the units each order summed
    sawSlot,      \* history: orders each order counted in its slot
    astray        \* history: orders a new row has missed, or counted in vain

buyVars  == <<basket, buying, sawUnits, sawSlot>>
resVars  == <<buyVars, row, configuring, carried, astray>>

NoRow  == [present |-> FALSE, capacity |-> 0, reserved |-> 0]
NoPlan == [open |-> FALSE, capacity |-> 0, counted |-> {}]

\* Statements done in an order's transaction.
BuyStep == {"NONE", "STOCK", "SLOT", "SUM"}

Tokens(o) == {o} \X (1..Size[o])
Load(S)   == Cardinality(UNION {Tokens(o) : o \in S})

\* Rows other transactions see.
Holding    == {o \in Baskets : basket[o] = "HOLDING"}
HoldsAt(b) == {o \in Holding : BranchOf[o] = b}

\* Rows a transaction has updated stay locked until it ends.
Locked(b) == \E o \in carried : BranchOf[o] = b /\ buying[o] # "NONE"

ReservationInit ==
    /\ basket      = [o \in Baskets |-> "NONE"]
    /\ buying      = [o \in Baskets |-> "NONE"]
    /\ row         = [b \in Branches |-> NoRow]
    /\ configuring = [b \in Branches |-> NoPlan]
    /\ carried     = {}
    /\ sawUnits    = [o \in Baskets |-> {}]
    /\ sawSlot     = [o \in Baskets |-> {}]
    /\ astray      = {}

-----------------------------------------------------------------------------
(* POST /commerce/orders, the transaction.                                  *)

\* Faulty variant: nobody waits for the row.
ReserveUnlocked(o) ==
    LET b == BranchOf[o] IN
    /\ basket[o] = "NONE" /\ buying[o] = "NONE"
    /\ row[b].present => row[b].reserved + Size[o] <= row[b].capacity
    /\ carried' = IF row[b].present THEN carried \cup {o} ELSE carried
    /\ buying'  = [buying EXCEPT ![o] = "STOCK"]
    /\ UNCHANGED <<basket, sawUnits, sawSlot, row, configuring, astray>>

\* With no stock row there is nothing to reserve and nothing to wait for;
\* with one, the conditional UPDATE waits for the row and finds it as the
\* transaction before left it.  A branch that is cut off refuses, as any
\* refusal below may at any time.
ReserveStock(o) ==
    LET b == BranchOf[o] IN
    /\ basket[o] = "NONE" /\ buying[o] = "NONE"
    /\ row[b].present => ~Locked(b) /\ row[b].reserved + Size[o] <= row[b].capacity
    /\ carried' = IF row[b].present THEN carried \cup {o} ELSE carried
    /\ buying'  = [buying EXCEPT ![o] = "STOCK"]
    /\ UNCHANGED <<basket, sawUnits, sawSlot, row, configuring, astray>>

SlotOf(o) == HoldsAt(BranchOf[o]) \cap SlotTakers

CountSlot(o) ==
    /\ buying[o] = "STOCK"
    /\ o \in SlotTakers => Cardinality(SlotOf(o)) < SlotLimit
    /\ sawSlot' = [sawSlot EXCEPT ![o] = IF o \in SlotTakers THEN SlotOf(o) ELSE {}]
    /\ buying'  = [buying EXCEPT ![o] = "SLOT"]
    /\ UNCHANGED <<basket, sawUnits, row, configuring, carried, astray>>

SumUnits(o) ==
    /\ buying[o] = "SLOT"
    /\ Load(Holding) + Size[o] <= DropCap
    /\ sawUnits' = [sawUnits EXCEPT ![o] = Holding]
    /\ buying'   = [buying EXCEPT ![o] = "SUM"]
    /\ UNCHANGED <<basket, sawSlot, row, configuring, carried, astray>>

\* The order and its intent are inserted and the transaction commits.  A row
\* that was not there when the order asked for it may be by now.
CommitOrder(o) ==
    LET b == BranchOf[o] IN
    /\ buying[o] = "SUM"
    /\ basket' = [basket EXCEPT ![o] = "HOLDING"]
    /\ buying' = [buying EXCEPT ![o] = "NONE"]
    /\ row'    = IF o \in carried THEN [row EXCEPT ![b].reserved = @ + Size[o]] ELSE row
    /\ astray' = IF row[b].present /\ o \notin carried THEN astray \cup {o} ELSE astray
    /\ UNCHANGED <<configuring, carried, sawUnits, sawSlot>>

\* A check refused, or a statement failed: nothing stays.
RollBack(o) ==
    /\ buying[o] # "NONE"
    /\ buying'   = [buying EXCEPT ![o] = "NONE"]
    /\ carried'  = carried \ {o}
    /\ sawUnits' = [sawUnits EXCEPT ![o] = {}]
    /\ sawSlot'  = [sawSlot EXCEPT ![o] = {}]
    /\ UNCHANGED <<basket, row, configuring, astray>>

-----------------------------------------------------------------------------
(* releaseOrderReservation and the stock configuration.                     *)

\* Faulty variant: the units go back only to an order the row itself took.
ReleaseCarried(o) ==
    LET b == BranchOf[o] IN
    /\ basket[o] = "HOLDING"
    /\ row[b].present => ~Locked(b)
    /\ basket' = [basket EXCEPT ![o] = "RELEASED"]
    /\ row'    = IF o \in carried /\ row[b].reserved >= Size[o]
                 THEN [row EXCEPT ![b].reserved = @ - Size[o]] ELSE row
    /\ UNCHANGED <<buying, configuring, carried, sawUnits, sawSlot, astray>>

\* A cancelled or refunded order gives its units back to the row, if there
\* is one and it holds as many.
Release(o) ==
    LET b == BranchOf[o] IN
    /\ basket[o] = "HOLDING"
    /\ row[b].present => ~Locked(b)
    /\ basket' = [basket EXCEPT ![o] = "RELEASED"]
    /\ row'    = IF row[b].present /\ row[b].reserved >= Size[o]
                 THEN [row EXCEPT ![b].reserved = @ - Size[o]] ELSE row
    /\ UNCHANGED <<buying, configuring, carried, sawUnits, sawSlot, astray>>

\* The branch has no row yet: what its orders hold is summed ...
CountHeld(b, c) ==
    /\ ~row[b].present /\ ~configuring[b].open
    /\ Load(HoldsAt(b)) <= c
    /\ configuring' = [configuring EXCEPT ![b] = [open |-> TRUE, capacity |-> c,
                                                  counted |-> HoldsAt(b)]]
    /\ UNCHANGED <<buyVars, row, carried, astray>>

\* ... and inserted with the row, in a statement of its own.
InsertRow(b) ==
    /\ configuring[b].open
    /\ row' = [row EXCEPT ![b] = [present |-> TRUE, capacity |-> configuring[b].capacity,
                                  reserved |-> Load(configuring[b].counted)]]
    /\ configuring' = [configuring EXCEPT ![b] = NoPlan]
    /\ astray' = astray \cup (HoldsAt(b) \ configuring[b].counted)
                       \cup (configuring[b].counted \ HoldsAt(b))
    /\ UNCHANGED <<buyVars, carried>>

\* A capacity below the units reserved is refused, by the handler or, where
\* it read the row too early, by the table's CHECK.
Resize(b, c) ==
    /\ row[b].present /\ ~Locked(b)
    /\ row[b].reserved <= c
    /\ row' = [row EXCEPT ![b].capacity = c]
    /\ UNCHANGED <<buyVars, configuring, carried, astray>>

ReservationNext ==
    \/ \E o \in Baskets :
          \/ ReserveStock(o)
          \/ CountSlot(o)
          \/ SumUnits(o)
          \/ CommitOrder(o)
          \/ RollBack(o)
          \/ Release(o)
    \/ \E b \in Branches :
          \/ \E c \in Rooms : CountHeld(b, c) \/ Resize(b, c)
          \/ InsertRow(b)

ReservationSpec == ReservationInit /\ [][ReservationNext]_resVars

-----------------------------------------------------------------------------
(* Properties.                                                              *)

ReservationTypeOK ==
    /\ basket \in [Baskets -> {"NONE", "HOLDING", "RELEASED"}]
    /\ buying \in [Baskets -> BuyStep]
    /\ row \in [Branches -> [present : BOOLEAN, capacity : Nat, reserved : Nat]]
    /\ configuring \in [Branches -> [open : BOOLEAN, capacity : Nat, counted : SUBSET Baskets]]
    /\ carried \subseteq Baskets /\ astray \subseteq Baskets
    /\ sawUnits \in [Baskets -> SUBSET Baskets]
    /\ sawSlot \in [Baskets -> SUBSET Baskets]

\* The stock row of the branch put one order after the other.
Serialised(o, p) == BranchOf[o] = BranchOf[p] /\ {o, p} \subseteq carried

Blind(saw, o, p) == o # p /\ o \notin saw[p] /\ p \notin saw[o] /\ ~Serialised(o, p)

\* A launch is sold beyond its cap, or a pickup slot beyond its limit, only
\* by two orders that still hold their units, counted before either was
\* committed, and had no common stock row to wait for
\* (orders.ts: the COUNT of a slot and the SUM of the cap lock nothing).
OversoldOnlyBlindly ==
    /\ Load(Holding) > DropCap => \E o, p \in Holding : Blind(sawUnits, o, p)
    /\ \A b \in Branches :
          Cardinality(HoldsAt(b) \cap SlotTakers) > SlotLimit =>
              \E o, p \in HoldsAt(b) \cap SlotTakers : Blind(sawSlot, o, p)

Astray(b) == {o \in astray : BranchOf[o] = b}

\* The stock row of a branch never exceeds what the branch can prepare, and
\* its orders hold no more than the row says and the orders that went astray
\* around its insertion weigh: those that had found no row and were committed
\* after they could be counted, and those counted and then given back.  With
\* none astray the row counts exactly the units held, the ones from before it
\* included (reserveBranchStock, releaseOrderReservation, PUT .../stock).  So
\* "can never drift" (checkout.ts:5-6) fails through these orders and through
\* no other.
StockRowsTrue ==
    \A b \in Branches : row[b].present =>
        /\ row[b].reserved <= row[b].capacity
        /\ Load(HoldsAt(b)) <= row[b].reserved + Load(Astray(b))
        /\ Astray(b) = {} => row[b].reserved = Load(HoldsAt(b))

=============================================================================
