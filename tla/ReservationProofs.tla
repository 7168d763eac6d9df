-------------------------- MODULE ReservationProofs --------------------------
(***************************************************************************)
(* Theorems about Reservation, for any orders, branches, sizes, limits and *)
(* any capacities a host configures.                                       *)
(***************************************************************************)
EXTENDS Reservation, FiniteSetTheorems, TLAPS

-----------------------------------------------------------------------------
(* What a set of orders weighs.                                             *)

LEMMA TokensOf ==
    ASSUME NEW o \in Baskets
    PROVE  /\ Size[o] \in Nat /\ Size[o] > 0
           /\ IsFiniteSet(Tokens(o)) /\ Cardinality(Tokens(o)) = Size[o]
<1>1. Size[o] \in Nat /\ Size[o] > 0
  BY SizeAssumption
<1>2. IsFiniteSet(1..Size[o]) /\ Cardinality(1..Size[o]) = Size[o]
  <2> DEFINE n == Size[o]
  <2>1. 1 \in Int /\ n \in Int /\ ~(1 > n) /\ n - 1 + 1 = n
    BY <1>1
  <2> HIDE DEF n
  <2> QED
    BY <2>1, FS_Interval DEF n
<1>3. IsFiniteSet({o}) /\ Cardinality({o}) = 1
  BY FS_Singleton
<1>4. IsFiniteSet({o} \X (1..Size[o]))
      /\ Cardinality({o} \X (1..Size[o])) = Cardinality({o}) * Cardinality(1..Size[o])
  BY <1>2, <1>3, FS_Product
<1> QED
  BY <1>1, <1>2, <1>3, <1>4 DEF Tokens

TokensIn(S) == UNION {Tokens(o) : o \in S}

LEMMA TokensInFinite ==
    ASSUME NEW S \in SUBSET Baskets
    PROVE  IsFiniteSet(TokensIn(S)) /\ Load(S) = Cardinality(TokensIn(S)) /\ Load(S) \in Nat
<1> DEFINE T == {Tokens(o) : o \in S}
           f == [o \in S |-> Tokens(o)]
<1>1. IsFiniteSet(S)
  BY BasketsAssumption, FS_Subset
<1>2. f \in Surjection(S, T)
  BY DEF Surjection
<1>3. \A x \in T : IsFiniteSet(x)
  BY TokensOf
<1> HIDE DEF T, f
<1>4. IsFiniteSet(T)
  BY <1>1, <1>2, FS_Surjection
<1>5. IsFiniteSet(UNION T)
  BY <1>3, <1>4, FS_UNION
<1>6. IsFiniteSet(TokensIn(S))
  BY <1>5 DEF TokensIn, T
<1> QED
  BY <1>6, FS_CardinalityType DEF Load, TokensIn

\* One order more weighs its size more.
LEMMA LoadOfOneMore ==
    ASSUME NEW S \in SUBSET Baskets, NEW o \in Baskets, o \notin S
    PROVE  Load(S \cup {o}) = Load(S) + Size[o]
<1>1. TokensIn(S \cup {o}) = TokensIn(S) \cup Tokens(o) /\ TokensIn(S) \cap Tokens(o) = {}
  BY DEF TokensIn, Tokens
<1>2. Cardinality({}) = 0
  BY FS_EmptySet
<1>3. IsFiniteSet(TokensIn(S)) /\ Load(S) = Cardinality(TokensIn(S)) /\ Load(S) \in Nat
  BY TokensInFinite
<1>4. Cardinality(TokensIn(S) \cup Tokens(o)) =
         Cardinality(TokensIn(S)) + Cardinality(Tokens(o)) - Cardinality({})
  BY <1>1, <1>3, TokensOf, FS_Union
<1>5. S \cup {o} \in SUBSET Baskets
  OBVIOUS
<1>6. Load(S \cup {o}) = Cardinality(TokensIn(S \cup {o}))
  BY <1>5, TokensInFinite
<1>7. Size[o] \in Nat /\ Cardinality(Tokens(o)) = Size[o]
  BY TokensOf
<1>8. Cardinality(TokensIn(S) \cup Tokens(o)) = Cardinality(TokensIn(S)) + Size[o]
  BY <1>2, <1>3, <1>4, <1>7
<1>9. Load(S \cup {o}) = Cardinality(TokensIn(S) \cup Tokens(o))
  BY <1>1, <1>6, Zenon
<1> QED
  BY <1>3, <1>8, <1>9, Zenon

LEMMA LoadGrows ==
    ASSUME NEW S \in SUBSET Baskets, NEW T \in SUBSET S
    PROVE  Load(T) <= Load(S)
<1>1. TokensIn(T) \subseteq TokensIn(S) /\ T \in SUBSET Baskets
  BY DEF TokensIn
<1>2. IsFiniteSet(TokensIn(S)) /\ Load(S) = Cardinality(TokensIn(S)) /\ Load(T) = Cardinality(TokensIn(T))
  BY <1>1, TokensInFinite
<1>3. Cardinality(TokensIn(T)) <= Cardinality(TokensIn(S))
  BY <1>1, <1>2, FS_Subset
<1> QED
  BY <1>2, <1>3

LEMMA LoadOfTwo ==
    ASSUME NEW S \in SUBSET Baskets, NEW T \in SUBSET Baskets
    PROVE  Load(S \cup T) <= Load(S) + Load(T)
<1>1. /\ IsFiniteSet(TokensIn(S)) /\ Load(S) = Cardinality(TokensIn(S)) /\ Load(S) \in Nat
      /\ IsFiniteSet(TokensIn(T)) /\ Load(T) = Cardinality(TokensIn(T)) /\ Load(T) \in Nat
  BY TokensInFinite
<1>2. S \cup T \in SUBSET Baskets /\ TokensIn(S \cup T) = TokensIn(S) \cup TokensIn(T)
  BY DEF TokensIn
<1>3. PICK common \in Nat : common = Cardinality(TokensIn(S) \cap TokensIn(T))
  <2>1. IsFiniteSet(TokensIn(S) \cap TokensIn(T))
    BY <1>1, FS_Intersection
  <2> QED
    BY <2>1, FS_CardinalityType
<1>4. Cardinality(TokensIn(S) \cup TokensIn(T)) = Load(S) + Load(T) - common
  BY <1>1, <1>3, FS_Union
<1>5. Load(S \cup T) = Load(S) + Load(T) - common
  BY <1>2, <1>4, TokensInFinite
<1> QED
  BY <1>1, <1>3, <1>5

-----------------------------------------------------------------------------
(* The inductive invariant.                                                 *)

Buys(o) == buying[o] # "NONE"

\* An order is in a transaction before it is an order, holds the row only
\* from then on, has seen orders only, and goes astray only as an order.
Standing ==
    \A o \in Baskets :
        /\ Buys(o) => basket[o] = "NONE"
        /\ basket[o] = "NONE" /\ ~Buys(o) => o \notin carried
        /\ \A p \in sawUnits[o] \cup sawSlot[o] : basket[p] # "NONE"
        /\ o \in astray => basket[o] # "NONE"

\* Who took units of a row and is not committed holds the row alone, and the
\* row has room for them.
RowsHeld ==
    /\ \A o \in carried : row[BranchOf[o]].present
    /\ \A o \in carried : Buys(o) =>
          row[BranchOf[o]].reserved + Size[o] <= row[BranchOf[o]].capacity
    /\ \A o, p \in carried : Buys(o) /\ Buys(p) /\ BranchOf[o] = BranchOf[p] => o = p

RowsFit == \A b \in Branches : row[b].present => row[b].reserved <= row[b].capacity

\* A row about to be inserted has counted orders of its branch, and has room.
Plans ==
    \A b \in Branches : configuring[b].open =>
        /\ ~row[b].present
        /\ Load(configuring[b].counted) <= configuring[b].capacity
        /\ \A o \in configuring[b].counted : BranchOf[o] = b /\ basket[o] # "NONE"

\* What a transaction has counted left room for it; if it holds a stock row,
\* it has counted every order that row has taken.
Counted ==
    \A o \in Baskets :
        /\ buying[o] = "SUM" =>
              /\ Load(sawUnits[o]) + Size[o] <= DropCap
              /\ o \in carried => \A p \in Holding \cap carried :
                    BranchOf[p] = BranchOf[o] => p \in sawUnits[o]
        /\ buying[o] \in {"SLOT", "SUM"} /\ o \in SlotTakers =>
              /\ Cardinality(sawSlot[o]) < SlotLimit
              /\ o \in carried => SlotOf(o) \cap carried \subseteq sawSlot[o]

\* Of any orders that are together too many, two are blind to each other: a
\* release leaves fewer orders, so the claim is about all subsets.
BlindAmongTooMany ==
    /\ \A S \in SUBSET Holding :
          Load(S) > DropCap => \E o, p \in S : Blind(sawUnits, o, p)
    /\ \A b \in Branches : \A S \in SUBSET (HoldsAt(b) \cap SlotTakers) :
          Cardinality(S) > SlotLimit => \E o, p \in S : Blind(sawSlot, o, p)

StockInv == ReservationTypeOK /\ Standing /\ RowsHeld /\ RowsFit /\ Plans /\ StockRowsTrue

ReservationInv == StockInv /\ Counted /\ BlindAmongTooMany

-----------------------------------------------------------------------------
(* The stock rows.                                                          *)

RowType  == [present : BOOLEAN, capacity : Nat, reserved : Nat]
PlanType == [open : BOOLEAN, capacity : Nat, counted : SUBSET Baskets]

LEMMA StockTypes ==
    ASSUME StockInv
    PROVE  /\ basket \in [Baskets -> {"NONE", "HOLDING", "RELEASED"}]
           /\ buying \in [Baskets -> BuyStep]
           /\ row \in [Branches -> RowType] /\ configuring \in [Branches -> PlanType]
           /\ carried \subseteq Baskets /\ astray \subseteq Baskets
           /\ sawUnits \in [Baskets -> SUBSET Baskets] /\ sawSlot \in [Baskets -> SUBSET Baskets]
           /\ \A o \in Baskets : BranchOf[o] \in Branches /\ Size[o] \in Nat /\ Size[o] > 0
BY BranchAssumption, SizeAssumption DEF StockInv, ReservationTypeOK, RowType, PlanType

LEMMA StockInit == ReservationInit => StockInv
<1> SUFFICES ASSUME ReservationInit PROVE StockInv
  OBVIOUS
<1>1. ReservationTypeOK
  BY DEF ReservationInit, ReservationTypeOK, BuyStep, NoRow, NoPlan
<1>2. \A b \in Branches : ~row[b].present /\ ~configuring[b].open
  BY DEF ReservationInit, NoRow, NoPlan
<1>3. Standing
  BY DEF ReservationInit, Standing, Buys
<1>4. RowsHeld
  BY DEF ReservationInit, RowsHeld
<1> QED
  BY <1>1, <1>2, <1>3, <1>4 DEF StockInv, RowsFit, Plans, StockRowsTrue

\* What depends on orders and rows alone.
LEMMA WeightsStay ==
    ASSUME UNCHANGED <<basket, astray>>
    PROVE  \A b \in Branches : /\ HoldsAt(b)' = HoldsAt(b) /\ Load(HoldsAt(b))' = Load(HoldsAt(b))
                               /\ Astray(b)' = Astray(b) /\ Load(Astray(b))' = Load(Astray(b))
<1>1. \A b \in Branches : HoldsAt(b)' = HoldsAt(b) /\ Astray(b)' = Astray(b)
  BY DEF HoldsAt, Holding, Astray
<1> QED
  BY <1>1 DEF Load, Tokens

LEMMA StockUntouched ==
    ASSUME StockInv, UNCHANGED <<basket, row, configuring, astray>>
    PROVE  RowsFit' /\ Plans' /\ StockRowsTrue'
<1>1. RowsFit' /\ StockRowsTrue'
  BY WeightsStay DEF StockInv, RowsFit, StockRowsTrue
<1>2. Plans'
  BY DEF StockInv, Plans, Load, Tokens
<1> QED
  BY <1>1, <1>2

\* Steps of a transaction that leave orders and rows alone.
LEMMA StockOfOpen ==
    ASSUME StockInv, NEW o \in Baskets, basket[o] = "NONE",
           buying' \in [Baskets -> BuyStep], \A p \in Baskets : p # o => buying'[p] = buying[p],
           carried' \in {carried, carried \cup {o}, carried \ {o}},
           buying'[o] = "NONE" => carried' = carried \ {o},
           o \in carried' =>
              /\ row[BranchOf[o]].present
              /\ row[BranchOf[o]].reserved + Size[o] <= row[BranchOf[o]].capacity
              /\ o \in carried \/ ~Locked(BranchOf[o]),
           sawUnits' \in [Baskets -> SUBSET Baskets], sawSlot' \in [Baskets -> SUBSET Baskets],
           \A p \in Baskets : \A q \in sawUnits'[p] \cup sawSlot'[p] : basket[q] # "NONE",
           o \in carried => Buys(o),
           UNCHANGED <<basket, row, configuring, astray>>
    PROVE  StockInv'
<1>1. /\ carried \subseteq Baskets /\ \A p \in Baskets : BranchOf[p] \in Branches
      /\ \A p \in carried' : p = o \/ p \in carried
  BY StockTypes
<1>2. ReservationTypeOK'
  BY <1>1 DEF StockInv, ReservationTypeOK
<1>4. RowsFit' /\ Plans' /\ StockRowsTrue'
  BY StockUntouched
<1>5. Standing'
  BY <1>1 DEF StockInv, Standing, Buys
<1>6. RowsHeld'
  <2>1. \A p \in carried' : row[BranchOf[p]].present
    BY <1>1 DEF StockInv, RowsHeld
  <2>2. ASSUME NEW p \in carried', Buys(p)'
        PROVE  row[BranchOf[p]].reserved + Size[p] <= row[BranchOf[p]].capacity
    BY <1>1, <2>2 DEF StockInv, RowsHeld, Buys
  <2>3. ASSUME NEW p \in carried', NEW q \in carried', Buys(p)', Buys(q)', BranchOf[p] = BranchOf[q]
        PROVE  p = q
    <3>1. CASE o \in carried
      BY <1>1, <2>3, <3>1 DEF StockInv, RowsHeld, Buys
    <3>2. CASE o \notin carried
      BY <1>1, <2>3, <3>2 DEF StockInv, RowsHeld, Buys, Locked
    <3> QED
      BY <3>1, <3>2
  <2> QED
    BY <2>1, <2>2, <2>3 DEF RowsHeld, Buys
<1> QED
  BY <1>2, <1>4, <1>5, <1>6 DEF StockInv

LEMMA StockReserve ==
    ASSUME StockInv, NEW o \in Baskets, ReserveStock(o) PROVE StockInv'
<1>1. /\ basket[o] = "NONE" /\ buying[o] = "NONE" /\ o \notin carried
      /\ buying' = [buying EXCEPT ![o] = "STOCK"]
      /\ carried' = (IF row[BranchOf[o]].present THEN carried \cup {o} ELSE carried)
      /\ UNCHANGED <<basket, sawUnits, sawSlot, row, configuring, astray>>
  BY DEF ReserveStock, StockInv, Standing, Buys
<1>2. buying' \in [Baskets -> BuyStep] /\ buying'[o] = "STOCK"
  BY <1>1, StockTypes DEF BuyStep
<1>3. o \in carried' =>
         /\ row[BranchOf[o]].present
         /\ row[BranchOf[o]].reserved + Size[o] <= row[BranchOf[o]].capacity
         /\ ~Locked(BranchOf[o])
  BY <1>1 DEF ReserveStock
<1>4. \A p \in Baskets : \A q \in sawUnits'[p] \cup sawSlot'[p] : basket[q] # "NONE"
  BY <1>1 DEF StockInv, Standing
<1> QED
  BY <1>1, <1>2, <1>3, <1>4, StockOfOpen, StockTypes

LEMMA StockCount ==
    ASSUME StockInv, NEW o \in Baskets, CountSlot(o) \/ SumUnits(o) PROVE StockInv'
<1>1. /\ Buys(o) /\ basket[o] = "NONE" /\ buying'[o] # "NONE"
      /\ buying' \in [Baskets -> BuyStep] /\ \A p \in Baskets : p # o => buying'[p] = buying[p]
      /\ UNCHANGED <<basket, row, configuring, carried, astray>>
  BY StockTypes DEF CountSlot, SumUnits, BuyStep, Buys, StockInv, Standing
<1>2. /\ sawUnits' \in [Baskets -> SUBSET Baskets] /\ sawSlot' \in [Baskets -> SUBSET Baskets]
      /\ \A p \in Baskets : /\ sawUnits'[p] \in {sawUnits[p], Holding}
                             /\ sawSlot'[p] \in {sawSlot[p], {}, SlotOf(p)}
  BY StockTypes DEF CountSlot, SumUnits, SlotOf, HoldsAt, Holding
<1>3. \A p \in Baskets : \A q \in sawUnits'[p] \cup sawSlot'[p] : basket[q] # "NONE"
  BY <1>2 DEF StockInv, Standing, SlotOf, HoldsAt, Holding
<1>4. o \in carried => /\ row[BranchOf[o]].present
                       /\ row[BranchOf[o]].reserved + Size[o] <= row[BranchOf[o]].capacity
  BY <1>1 DEF StockInv, RowsHeld
<1> QED
  BY <1>1, <1>2, <1>3, <1>4, StockOfOpen

LEMMA StockRollBack ==
    ASSUME StockInv, NEW o \in Baskets, RollBack(o) PROVE StockInv'
<1>1. /\ Buys(o) /\ basket[o] = "NONE" /\ buying'[o] = "NONE"
      /\ buying' \in [Baskets -> BuyStep] /\ \A p \in Baskets : p # o => buying'[p] = buying[p]
      /\ carried' = carried \ {o}
      /\ UNCHANGED <<basket, row, configuring, astray>>
  BY StockTypes DEF RollBack, BuyStep, Buys, StockInv, Standing
<1>2. /\ sawUnits' \in [Baskets -> SUBSET Baskets] /\ sawSlot' \in [Baskets -> SUBSET Baskets]
      /\ \A p \in Baskets : sawUnits'[p] \subseteq sawUnits[p] /\ sawSlot'[p] \subseteq sawSlot[p]
  BY StockTypes DEF RollBack
<1>3. \A p \in Baskets : \A q \in sawUnits'[p] \cup sawSlot'[p] : basket[q] # "NONE"
  BY <1>2 DEF StockInv, Standing
<1> QED
  BY <1>1, <1>2, <1>3, StockOfOpen

LEMMA StockCommit ==
    ASSUME StockInv, NEW o \in Baskets, CommitOrder(o) PROVE StockInv'
<1> DEFINE b == BranchOf[o]
<1>t. /\ b \in Branches /\ Size[o] \in Nat /\ row \in [Branches -> RowType]
      /\ configuring \in [Branches -> PlanType] /\ carried \subseteq Baskets
      /\ basket \in [Baskets -> {"NONE", "HOLDING", "RELEASED"}] /\ buying \in [Baskets -> BuyStep]
      /\ \A p \in Baskets : BranchOf[p] \in Branches
  BY StockTypes
<1>1. /\ Buys(o) /\ basket[o] = "NONE"
      /\ basket' = [basket EXCEPT ![o] = "HOLDING"] /\ buying' = [buying EXCEPT ![o] = "NONE"]
      /\ row' = (IF o \in carried THEN [row EXCEPT ![b].reserved = @ + Size[o]] ELSE row)
      /\ astray' = (IF row[b].present /\ o \notin carried THEN astray \cup {o} ELSE astray)
      /\ UNCHANGED <<configuring, carried, sawUnits, sawSlot>>
  BY DEF CommitOrder, StockInv, Standing, Buys
<1>2. /\ basket' \in [Baskets -> {"NONE", "HOLDING", "RELEASED"}] /\ basket'[o] = "HOLDING"
      /\ \A p \in Baskets : p # o => basket'[p] = basket[p]
      /\ buying' \in [Baskets -> BuyStep] /\ buying'[o] = "NONE"
      /\ \A p \in Baskets : p # o => buying'[p] = buying[p]
  BY <1>1, <1>t DEF BuyStep
<1>3. o \in carried => row[b].present /\ row[b].reserved + Size[o] <= row[b].capacity
  BY <1>1 DEF StockInv, RowsHeld
<1>4. /\ row' \in [Branches -> RowType]
      /\ \A c \in Branches : /\ row'[c].present = row[c].present /\ row'[c].capacity = row[c].capacity
                              /\ row'[c].reserved = IF c = b /\ o \in carried
                                                    THEN row[c].reserved + Size[o] ELSE row[c].reserved
  BY <1>1, <1>t DEF RowType
<1>5. \A c \in Branches : HoldsAt(c) \in SUBSET Baskets
         /\ HoldsAt(c)' = IF c = b THEN HoldsAt(c) \cup {o} ELSE HoldsAt(c)
  BY <1>1, <1>2 DEF HoldsAt, Holding
<1>6. o \notin HoldsAt(b)
  BY <1>1 DEF HoldsAt, Holding
<1>7. Load(HoldsAt(b) \cup {o}) = Load(HoldsAt(b)) + Size[o]
  BY <1>5, <1>6, <1>t, LoadOfOneMore
<1> HIDE DEF b
<1>8. ReservationTypeOK'
  BY <1>1, <1>2, <1>4, <1>t DEF StockInv, ReservationTypeOK, RowType
<1>9. Standing'
  BY <1>1, <1>2 DEF StockInv, Standing, Buys
<1>10. RowsHeld'
  <2>1. \A p \in carried : row'[BranchOf[p]].present
    BY <1>4, <1>t DEF StockInv, RowsHeld
  <2>2. ASSUME NEW p \in carried, Buys(p)'
        PROVE  row'[BranchOf[p]].reserved + Size[p] <= row'[BranchOf[p]].capacity
    <3>1. p # o /\ Buys(p) /\ p \in Baskets
      BY <1>2, <1>t, <2>2 DEF Buys
    <3>2. ~(BranchOf[p] = b /\ o \in carried)
      BY <3>1, <1>1 DEF StockInv, RowsHeld, b
    <3>3. row[BranchOf[p]].reserved + Size[p] <= row[BranchOf[p]].capacity
      BY <3>1 DEF StockInv, RowsHeld
    <3> QED
      BY <3>1, <3>2, <3>3, <1>4, <1>t
  <2>3. \A p, q \in carried : Buys(p)' /\ Buys(q)' /\ BranchOf[p] = BranchOf[q] => p = q
    BY <1>2, <1>t DEF StockInv, RowsHeld, Buys
  <2> QED
    BY <1>1, <2>1, <2>2, <2>3 DEF RowsHeld, Buys
<1>11. RowsFit'
  BY <1>3, <1>4, <1>t DEF StockInv, RowsFit, RowType
<1>12. Plans'
  <2> SUFFICES ASSUME NEW c \in Branches, configuring[c].open
               PROVE  /\ ~row'[c].present
                      /\ Load(configuring[c].counted) <= configuring[c].capacity
                      /\ \A p \in configuring[c].counted : BranchOf[p] = c /\ basket'[p] # "NONE"
    BY <1>1 DEF Plans, Load, Tokens
  <2>1. configuring[c].counted \subseteq Baskets
    BY <1>t DEF PlanType
  <2> QED
    BY <2>1, <1>2, <1>4 DEF StockInv, Plans
<1>13. StockRowsTrue'
  <2> SUFFICES ASSUME NEW c \in Branches, row'[c].present
               PROVE  /\ Load(HoldsAt(c)') <= row'[c].reserved + Load(Astray(c)')
                      /\ Astray(c)' = {} => row'[c].reserved = Load(HoldsAt(c)')
    BY <1>11 DEF StockRowsTrue, Load, Tokens, RowsFit
  <2>0. Astray(c) \in SUBSET Baskets /\ Load(Astray(c)) \in Nat
    <3>1. Astray(c) \in SUBSET Baskets
      BY StockTypes DEF Astray
    <3> QED
      BY <3>1, TokensInFinite
  <2>1. /\ row[c].present /\ row[c].reserved \in Nat
        /\ Load(HoldsAt(c)) \in Nat /\ Load(HoldsAt(c)) <= row[c].reserved + Load(Astray(c))
        /\ Astray(c) = {} => row[c].reserved = Load(HoldsAt(c))
    BY <1>4, <1>5, <1>t, TokensInFinite DEF StockInv, StockRowsTrue, RowType
  <2>2. CASE c = b /\ o \in carried
    <3>1. Astray(c)' = Astray(c)
      BY <2>2, <1>1 DEF Astray
    <3>2. row'[c].reserved = row[c].reserved + Size[o] /\ Load(HoldsAt(c)') = Load(HoldsAt(c)) + Size[o]
      BY <2>2, <1>4, <1>5, <1>7
    <3> QED
      BY <2>0, <2>1, <3>1, <3>2, <1>t
  <2>3. CASE c = b /\ o \notin carried
    <3>1. Astray(c)' = Astray(c) \cup {o} /\ o \notin Astray(c)
      BY <2>1, <2>3, <1>1 DEF Astray, b, StockInv, Standing
    <3>2. row'[c].reserved = row[c].reserved /\ Load(HoldsAt(c)') = Load(HoldsAt(c)) + Size[o]
      BY <2>3, <1>4, <1>5, <1>7
    <3>3. Load(Astray(c)') = Load(Astray(c)) + Size[o]
      BY <2>0, <3>1, LoadOfOneMore
    <3> QED
      BY <2>0, <2>1, <3>1, <3>2, <3>3, <1>t
  <2>4. CASE c # b
    <3>1. Astray(c)' = Astray(c)
      BY <2>4, <1>1 DEF Astray, b
    <3>2. row'[c].reserved = row[c].reserved /\ HoldsAt(c)' = HoldsAt(c)
      BY <2>4, <1>4, <1>5
    <3> QED
      BY <2>1, <3>1, <3>2
  <2> QED
    BY <2>2, <2>3, <2>4
<1> QED
  BY <1>8, <1>9, <1>10, <1>11, <1>12, <1>13 DEF StockInv

LEMMA StockRelease ==
    ASSUME StockInv, NEW o \in Baskets, Release(o) PROVE StockInv'
<1> DEFINE b == BranchOf[o]
           back == row[b].present /\ row[b].reserved >= Size[o]
<1>t. /\ b \in Branches /\ Size[o] \in Nat /\ row \in [Branches -> RowType]
      /\ configuring \in [Branches -> PlanType] /\ carried \subseteq Baskets
      /\ basket \in [Baskets -> {"NONE", "HOLDING", "RELEASED"}]
      /\ \A p \in Baskets : BranchOf[p] \in Branches /\ Size[p] \in Nat
  BY StockTypes
<1>1. /\ basket[o] = "HOLDING" /\ (row[b].present => ~Locked(b))
      /\ basket' = [basket EXCEPT ![o] = "RELEASED"]
      /\ row' = (IF back THEN [row EXCEPT ![b].reserved = @ - Size[o]] ELSE row)
      /\ UNCHANGED <<buying, configuring, carried, sawUnits, sawSlot, astray>>
  BY DEF Release
<1>2. /\ basket' \in [Baskets -> {"NONE", "HOLDING", "RELEASED"}] /\ basket'[o] = "RELEASED"
      /\ \A p \in Baskets : p # o => basket'[p] = basket[p]
  BY <1>1, <1>t
<1>4. /\ row' \in [Branches -> RowType]
      /\ \A c \in Branches : /\ row'[c].present = row[c].present /\ row'[c].capacity = row[c].capacity
                              /\ row'[c].reserved = IF c = b /\ back
                                                    THEN row[c].reserved - Size[o] ELSE row[c].reserved
  BY <1>1, <1>t DEF RowType
<1>5. \A c \in Branches : HoldsAt(c) \in SUBSET Baskets
         /\ HoldsAt(c)' = IF c = b THEN HoldsAt(c) \ {o} ELSE HoldsAt(c)
  BY <1>1, <1>2 DEF HoldsAt, Holding
<1>6. Load(HoldsAt(b)) = Load(HoldsAt(b) \ {o}) + Size[o] /\ Load(HoldsAt(b) \ {o}) \in Nat
  <2> DEFINE S == HoldsAt(b) \ {o}
  <2>1. S \in SUBSET Baskets /\ o \notin S /\ HoldsAt(b) = S \cup {o}
    BY <1>1, <1>5 DEF HoldsAt, Holding
  <2> HIDE DEF S
  <2>2. Load(S \cup {o}) = Load(S) + Size[o] /\ Load(S) \in Nat
    BY <2>1, LoadOfOneMore, TokensInFinite
  <2> QED
    BY <2>1, <2>2 DEF S
<1> HIDE DEF b
<1>7. ReservationTypeOK'
  BY <1>1, <1>2, <1>4, <1>t DEF StockInv, ReservationTypeOK, RowType
<1>8. Standing'
  BY <1>1, <1>2 DEF StockInv, Standing, Buys
<1>9. RowsHeld'
  <2>1. \A p \in carried : row'[BranchOf[p]].present
    BY <1>4, <1>t DEF StockInv, RowsHeld
  <2>2. ASSUME NEW p \in carried, Buys(p)
        PROVE  row'[BranchOf[p]].reserved + Size[p] <= row'[BranchOf[p]].capacity
    <3>1. row[BranchOf[p]].reserved + Size[p] <= row[BranchOf[p]].capacity
      BY <2>2 DEF StockInv, RowsHeld
    <3>2. p \in Baskets
      BY <1>t
    <3> QED
      BY <3>1, <3>2, <1>4, <1>t DEF RowType
  <2> QED
    BY <1>1, <2>1, <2>2 DEF StockInv, RowsHeld, Buys
<1>10. RowsFit'
  BY <1>4, <1>t DEF StockInv, RowsFit, RowType
<1>11. Plans'
  <2> SUFFICES ASSUME NEW c \in Branches, configuring[c].open
               PROVE  /\ ~row'[c].present
                      /\ Load(configuring[c].counted) <= configuring[c].capacity
                      /\ \A p \in configuring[c].counted : BranchOf[p] = c /\ basket'[p] # "NONE"
    BY <1>1 DEF Plans, Load, Tokens
  <2>1. configuring[c].counted \subseteq Baskets
    BY <1>t DEF PlanType
  <2> QED
    BY <2>1, <1>2, <1>4 DEF StockInv, Plans
<1>12. StockRowsTrue'
  <2> SUFFICES ASSUME NEW c \in Branches, row'[c].present
               PROVE  /\ Load(HoldsAt(c)') <= row'[c].reserved + Load(Astray(c))
                      /\ Astray(c) = {} => row'[c].reserved = Load(HoldsAt(c)')
    BY <1>1, <1>10 DEF StockRowsTrue, Load, Tokens, RowsFit, Astray
  <2>0. Load(Astray(c)) \in Nat
    BY TokensInFinite, StockTypes DEF Astray
  <2>1. /\ row[c].present /\ row[c].reserved \in Nat
        /\ Load(HoldsAt(c)) \in Nat /\ Load(HoldsAt(c)) <= row[c].reserved + Load(Astray(c))
        /\ Astray(c) = {} => row[c].reserved = Load(HoldsAt(c))
    BY <1>4, <1>5, <1>t, TokensInFinite DEF StockInv, StockRowsTrue, RowType
  <2>2. CASE c = b
    <3>1. PICK rest \in Nat : rest = Load(HoldsAt(c)') /\ Load(HoldsAt(c)) = rest + Size[o]
      BY <2>2, <1>5, <1>6
    <3>2. CASE back
      <4>1. row'[c].reserved = row[c].reserved - Size[o]
        BY <2>2, <3>2, <1>4
      <4> QED
        BY <2>0, <2>1, <3>1, <4>1, <1>t
    <3>3. CASE ~back
      <4>1. row'[c].reserved = row[c].reserved /\ row[c].reserved < Size[o]
        BY <2>1, <2>2, <3>3, <1>4, <1>t DEF b
      <4> QED
        BY <2>0, <2>1, <3>1, <4>1, <1>t
    <3> QED
      BY <3>2, <3>3
  <2>3. CASE c # b
    BY <2>1, <2>3, <1>4, <1>5
  <2> QED
    BY <2>2, <2>3
<1> QED
  BY <1>7, <1>8, <1>9, <1>10, <1>11, <1>12 DEF StockInv

\* The configuration of a stock row leaves the orders alone.
LEMMA StockConfigured ==
    ASSUME StockInv, NEW b \in Branches,
           (\E c \in Rooms : CountHeld(b, c) \/ Resize(b, c)) \/ InsertRow(b)
    PROVE  StockInv'
<1>t. /\ row \in [Branches -> RowType] /\ configuring \in [Branches -> PlanType]
      /\ carried \subseteq Baskets /\ Rooms \subseteq Nat
      /\ \A p \in Baskets : BranchOf[p] \in Branches /\ Size[p] \in Nat
  BY StockTypes, LimitsAssumption
<1>1. \A c \in Branches : HoldsAt(c) \in SUBSET Baskets /\ Load(HoldsAt(c)) \in Nat
  BY TokensInFinite DEF HoldsAt, Holding
<1>2. UNCHANGED <<basket, buying, sawUnits, sawSlot, carried>>
  BY DEF CountHeld, Resize, InsertRow, buyVars
<1>3. /\ \A c \in Branches : HoldsAt(c)' = HoldsAt(c)
      /\ astray' = astray => Standing'
  BY <1>2 DEF StockInv, Standing, Buys, HoldsAt, Holding
<1>4. ASSUME NEW c \in Rooms, CountHeld(b, c) PROVE StockInv'
  <2> DEFINE k == [open |-> TRUE, capacity |-> c, counted |-> HoldsAt(b)]
  <2>1. /\ ~row[b].present /\ k.counted = HoldsAt(b) /\ Load(HoldsAt(b)) <= k.capacity
        /\ configuring' = [configuring EXCEPT ![b] = k] /\ row' = row /\ astray' = astray
    BY <1>4 DEF CountHeld
  <2>2. k \in PlanType
    BY <1>t, <1>1 DEF PlanType
  <2> HIDE DEF k
  <2>3. configuring' \in [Branches -> PlanType] /\ configuring'[b] = k
        /\ \A d \in Branches : d # b => configuring'[d] = configuring[d]
    BY <2>1, <2>2, <1>t
  <2>4. ReservationTypeOK'
    BY <1>2, <2>1, <2>3 DEF StockInv, ReservationTypeOK, PlanType
  <2>c. \A p \in HoldsAt(b) : BranchOf[p] = b /\ basket[p] # "NONE"
    BY DEF HoldsAt, Holding
  <2>5. Plans'
    BY <1>2, <2>1, <2>3, <2>c DEF StockInv, Plans, Load, Tokens
  <2>6. RowsHeld' /\ RowsFit' /\ StockRowsTrue'
    BY <1>2, <2>1, WeightsStay DEF StockInv, RowsHeld, RowsFit, StockRowsTrue, Buys
  <2> QED
    BY <1>3, <2>1, <2>4, <2>5, <2>6 DEF StockInv
<1>5. ASSUME InsertRow(b) PROVE StockInv'
  <2> DEFINE r == [present |-> TRUE, capacity |-> configuring[b].capacity,
                   reserved |-> Load(configuring[b].counted)]
           C == configuring[b].counted
           H == HoldsAt(b)
  <2>1. /\ configuring[b].open /\ row' = [row EXCEPT ![b] = r]
        /\ configuring' = [configuring EXCEPT ![b] = NoPlan]
        /\ astray' = astray \cup (H \ C) \cup (C \ H)
    BY <1>5 DEF InsertRow
  <2>c. /\ C \in SUBSET Baskets /\ Load(C) \in Nat /\ r.reserved = Load(C)
        /\ \A o \in C : BranchOf[o] = b /\ basket[o] # "NONE"
    BY <1>t, <2>1, TokensInFinite DEF PlanType, StockInv, Plans
  <2>h. H \in SUBSET Baskets /\ \A o \in H : BranchOf[o] = b /\ basket[o] # "NONE"
    BY DEF HoldsAt, Holding
  <2>2. r \in RowType /\ NoPlan \in PlanType /\ ~NoPlan.open
    BY <1>t, <2>c DEF RowType, PlanType, NoPlan
  <2>3. /\ ~row[b].present /\ r.reserved <= r.capacity /\ r.present
    BY <2>1, <2>c DEF StockInv, Plans
  <2> HIDE DEF r, C
  <2>4. /\ row' \in [Branches -> RowType] /\ row'[b] = r
        /\ \A d \in Branches : d # b => row'[d] = row[d]
        /\ configuring' \in [Branches -> PlanType] /\ ~configuring'[b].open
        /\ \A d \in Branches : d # b => configuring'[d] = configuring[d]
    BY <2>1, <2>2, <1>t
  <2>5. ReservationTypeOK'
    <3>1. astray' \subseteq Baskets
      BY <2>1, <2>c, <2>h, StockTypes
    <3> QED
      BY <1>2, <2>4, <3>1 DEF StockInv, ReservationTypeOK, PlanType, RowType
  <2>6. Plans' /\ RowsFit'
    BY <1>2, <2>3, <2>4 DEF StockInv, Plans, RowsFit, Load, Tokens
  <2>7. RowsHeld'
    BY <1>2, <1>t, <2>3, <2>4 DEF StockInv, RowsHeld, Buys
  <2>8. Standing'
    BY <1>2, <2>1, <2>c, <2>h DEF StockInv, Standing, Buys
  <2>9. ASSUME NEW d \in Branches, d # b
        PROVE  Astray(d)' = Astray(d)
    BY <2>1, <2>9, <2>c, <2>h DEF Astray
  <2>10. /\ Load(H) <= Load(C) + Load(Astray(b)')
         /\ Astray(b)' = {} => C = H
    <3> DEFINE A == Astray(b)'
    <3>1. A \in SUBSET Baskets
      BY <2>5 DEF Astray, ReservationTypeOK
    <3>2. H \ C \subseteq A /\ C \ H \subseteq A
      BY <2>1, <2>c, <2>h DEF Astray
    <3> HIDE DEF A, H
    <3>3. C \cup A \in SUBSET Baskets /\ H \in SUBSET (C \cup A)
      BY <2>c, <3>1, <3>2
    <3>4. Load(H) <= Load(C \cup A) /\ Load(C \cup A) <= Load(C) + Load(A)
      BY <2>c, <3>1, <3>3, LoadGrows, LoadOfTwo
    <3>5. Load(H) \in Nat /\ Load(C) \in Nat /\ Load(A) \in Nat /\ Load(C \cup A) \in Nat
      BY <2>c, <2>h, <3>1, <3>3, TokensInFinite
    <3>6. A = {} => C = H
      BY <3>2
    <3> QED
      BY <3>4, <3>5, <3>6 DEF A
  <2>11. StockRowsTrue'
    <3> SUFFICES ASSUME NEW d \in Branches, row'[d].present
                 PROVE  /\ row'[d].reserved <= row'[d].capacity
                        /\ Load(HoldsAt(d)) <= row'[d].reserved + Load(Astray(d)')
                        /\ Astray(d)' = {} => row'[d].reserved = Load(HoldsAt(d))
      BY <1>3 DEF StockRowsTrue, Load, Tokens
    <3>1. CASE d = b
      BY <2>3, <2>4, <2>c, <2>10, <3>1
    <3>2. CASE d # b
      BY <2>4, <2>9, <3>2 DEF StockInv, StockRowsTrue
    <3> QED
      BY <3>1, <3>2
  <2> QED
    BY <2>5, <2>6, <2>7, <2>8, <2>11 DEF StockInv
<1>6. ASSUME NEW c \in Rooms, Resize(b, c) PROVE StockInv'
  <2>1. /\ row[b].present /\ ~Locked(b) /\ row[b].reserved <= c
        /\ row' = [row EXCEPT ![b].capacity = c] /\ configuring' = configuring /\ astray' = astray
    BY <1>6 DEF Resize
  <2>2. /\ row' \in [Branches -> RowType] /\ row'[b].capacity = c
        /\ \A d \in Branches : row'[d].present = row[d].present /\ row'[d].reserved = row[d].reserved
        /\ \A d \in Branches : d # b => row'[d] = row[d]
    BY <2>1, <1>t DEF RowType
  <2>3. ReservationTypeOK'
    BY <1>2, <2>1, <2>2 DEF StockInv, ReservationTypeOK, RowType
  <2>4. Plans' /\ RowsFit' /\ StockRowsTrue'
    <3>1. Plans'
      BY <1>2, <2>1, <2>2 DEF StockInv, Plans, Load, Tokens
    <3>2. RowsFit' /\ StockRowsTrue'
      BY <1>2, <2>1, <2>2, WeightsStay DEF StockInv, RowsFit, StockRowsTrue
    <3> QED
      BY <3>1, <3>2
  <2>5. RowsHeld'
    BY <1>2, <1>t, <2>1, <2>2 DEF StockInv, RowsHeld, Buys, Locked
  <2> QED
    BY <1>3, <2>1, <2>3, <2>4, <2>5 DEF StockInv
<1> QED
  BY <1>4, <1>5, <1>6

LEMMA StockNext == StockInv /\ [ReservationNext]_resVars => StockInv'
<1> SUFFICES ASSUME StockInv, [ReservationNext]_resVars PROVE StockInv'
  OBVIOUS
<1>1. CASE UNCHANGED resVars
  <2>1. UNCHANGED <<basket, buying, sawUnits, sawSlot, row, configuring, carried, astray>>
    BY <1>1 DEF resVars, buyVars
  <2>2. RowsFit' /\ Plans' /\ StockRowsTrue'
    BY <2>1, StockUntouched
  <2>3. ReservationTypeOK' /\ Standing' /\ RowsHeld'
    BY <2>1 DEF StockInv, ReservationTypeOK, Standing, RowsHeld, Buys
  <2> QED
    BY <2>2, <2>3 DEF StockInv
<1> QED
  BY <1>1, StockReserve, StockCount, StockCommit, StockRollBack, StockRelease, StockConfigured
  DEF ReservationNext

-----------------------------------------------------------------------------
(* What was counted, and who is blind to whom.                              *)

\* A step of one order does not disturb what the others have counted, if it
\* adds no order to those a row has taken that another transaction waits for.
LEMMA CountedStays ==
    ASSUME ReservationInv, NEW o \in Baskets,
           \A p \in Baskets : p # o =>
              /\ buying'[p] = buying[p] /\ sawUnits'[p] = sawUnits[p] /\ sawSlot'[p] = sawSlot[p]
              /\ p \in carried' <=> p \in carried,
           \A q \in Holding' \cap carried' :
              q \in Holding \cap carried \/ (q = o /\ Buys(o) /\ o \in carried),
           buying'[o] = "SUM" =>
              /\ Load(sawUnits'[o]) + Size[o] <= DropCap
              /\ o \in carried' => \A p \in Holding' \cap carried' :
                    BranchOf[p] = BranchOf[o] => p \in sawUnits'[o],
           buying'[o] \in {"SLOT", "SUM"} /\ o \in SlotTakers =>
              /\ Cardinality(sawSlot'[o]) < SlotLimit
              /\ o \in carried' => SlotOf(o)' \cap carried' \subseteq sawSlot'[o]
    PROVE  Counted'
<1> SUFFICES ASSUME NEW p \in Baskets, p # o
             PROVE  /\ buying[p] = "SUM" =>
                          /\ Load(sawUnits[p]) + Size[p] <= DropCap
                          /\ p \in carried => \A q \in Holding' \cap carried' :
                                BranchOf[q] = BranchOf[p] => q \in sawUnits[p]
                    /\ buying[p] \in {"SLOT", "SUM"} /\ p \in SlotTakers =>
                          /\ Cardinality(sawSlot[p]) < SlotLimit
                          /\ p \in carried => SlotOf(p)' \cap carried' \subseteq sawSlot[p]
  BY DEF Counted, Load
<1>1. /\ buying[p] = "SUM" =>
            /\ Load(sawUnits[p]) + Size[p] <= DropCap
            /\ p \in carried => \A q \in Holding \cap carried :
                  BranchOf[q] = BranchOf[p] => q \in sawUnits[p]
      /\ buying[p] \in {"SLOT", "SUM"} /\ p \in SlotTakers =>
            /\ Cardinality(sawSlot[p]) < SlotLimit
            /\ p \in carried => SlotOf(p) \cap carried \subseteq sawSlot[p]
  BY DEF ReservationInv, Counted
<1>2. p \in carried /\ Buys(p) => ~(Buys(o) /\ o \in carried /\ BranchOf[o] = BranchOf[p])
  BY DEF ReservationInv, StockInv, RowsHeld
<1>3. p \in carried /\ Buys(p) => SlotOf(p)' \cap carried' \subseteq SlotOf(p) \cap carried
  BY <1>2 DEF SlotOf, HoldsAt
<1> QED
  BY <1>1, <1>2, <1>3 DEF Buys

\* Nobody who holds units becomes less blind, if no order is added.
LEMMA BlindStays ==
    ASSUME ReservationInv, Holding' \subseteq Holding,
           \A p \in Holding' :
              /\ sawUnits'[p] = sawUnits[p]
              /\ sawSlot'[p] = sawSlot[p]
              /\ p \in carried' <=> p \in carried
    PROVE  BlindAmongTooMany'
<1>1. ASSUME NEW o \in Holding', NEW p \in Holding'
      PROVE  /\ Blind(sawUnits, o, p) => Blind(sawUnits, o, p)'
             /\ Blind(sawSlot, o, p) => Blind(sawSlot, o, p)'
  <2>1. Serialised(o, p)' => Serialised(o, p)
    BY <1>1 DEF Serialised
  <2> QED
    BY <1>1, <2>1 DEF Blind
<1>2. ASSUME NEW S \in SUBSET Holding', Load(S) > DropCap
      PROVE  \E o, p \in S : Blind(sawUnits, o, p)'
  BY <1>1, <1>2 DEF ReservationInv, BlindAmongTooMany
<1>3. ASSUME NEW b \in Branches, NEW S \in SUBSET (HoldsAt(b)' \cap SlotTakers),
             Cardinality(S) > SlotLimit
      PROVE  \E o, p \in S : Blind(sawSlot, o, p)'
  <2>1. S \in SUBSET Holding' /\ S \in SUBSET (HoldsAt(b) \cap SlotTakers)
    BY DEF HoldsAt
  <2> QED
    BY <1>1, <1>3, <2>1 DEF ReservationInv, BlindAmongTooMany
<1> QED
  BY <1>2, <1>3 DEF BlindAmongTooMany, Load

\* Every step but the commit of an order.
LEMMA CountedOfOthers ==
    ASSUME ReservationInv, NEW o \in Baskets,
           ReserveStock(o) \/ CountSlot(o) \/ SumUnits(o) \/ RollBack(o) \/ Release(o)
    PROVE  Counted' /\ BlindAmongTooMany'
<1>t. /\ basket \in [Baskets -> {"NONE", "HOLDING", "RELEASED"}] /\ buying \in [Baskets -> BuyStep]
      /\ carried \subseteq Baskets
      /\ sawUnits \in [Baskets -> SUBSET Baskets] /\ sawSlot \in [Baskets -> SUBSET Baskets]
  BY StockTypes DEF ReservationInv
<1>s. /\ Buys(o) => basket[o] = "NONE"
      /\ basket[o] = "NONE" /\ ~Buys(o) => o \notin carried
  BY DEF ReservationInv, StockInv, Standing
<1>1. /\ \A p \in Baskets : p # o =>
            /\ buying'[p] = buying[p] /\ sawUnits'[p] = sawUnits[p] /\ sawSlot'[p] = sawSlot[p]
            /\ p \in carried' <=> p \in carried
            /\ basket'[p] = basket[p]
      /\ basket'[o] = "HOLDING" => FALSE
  BY <1>t, <1>s DEF ReserveStock, CountSlot, SumUnits, RollBack, Release, Buys
<1>2. Holding' \subseteq Holding \ {o}
  BY <1>1 DEF Holding
<1>3. BlindAmongTooMany'
  BY <1>1, <1>2, BlindStays DEF Holding
<1>4. \A q \in Holding' \cap carried' : q \in Holding \cap carried
  BY <1>1, <1>2 DEF Holding
<1>5. buying'[o] = "SUM" =>
         /\ Load(sawUnits'[o]) + Size[o] <= DropCap
         /\ o \in carried' => \A p \in Holding' \cap carried' :
               BranchOf[p] = BranchOf[o] => p \in sawUnits'[o]
  <2> SUFFICES ASSUME buying'[o] = "SUM", SumUnits(o) \/ Release(o)
               PROVE  /\ Load(sawUnits'[o]) + Size[o] <= DropCap
                      /\ o \in carried' => \A p \in Holding' \cap carried' :
                            BranchOf[p] = BranchOf[o] => p \in sawUnits'[o]
    BY <1>t DEF ReserveStock, CountSlot, RollBack
  <2>1. CASE SumUnits(o)
    BY <2>1, <1>2, <1>t DEF SumUnits
  <2>2. CASE Release(o)
    BY <2>2, <1>s DEF Release, Buys
  <2> QED
    BY <2>1, <2>2
<1>6. buying'[o] \in {"SLOT", "SUM"} /\ o \in SlotTakers =>
         /\ Cardinality(sawSlot'[o]) < SlotLimit
         /\ o \in carried' => SlotOf(o)' \cap carried' \subseteq sawSlot'[o]
  <2> SUFFICES ASSUME buying'[o] \in {"SLOT", "SUM"}, o \in SlotTakers,
                      CountSlot(o) \/ SumUnits(o) \/ Release(o)
               PROVE  /\ Cardinality(sawSlot'[o]) < SlotLimit
                      /\ o \in carried' => SlotOf(o)' \cap carried' \subseteq sawSlot'[o]
    BY <1>t DEF ReserveStock, RollBack
  <2>0. SlotOf(o)' \subseteq SlotOf(o)
    BY <1>2 DEF SlotOf, HoldsAt
  <2>1. CASE CountSlot(o)
    BY <2>0, <2>1, <1>t DEF CountSlot
  <2>2. CASE SumUnits(o)
    BY <2>0, <2>2, <1>t DEF SumUnits, ReservationInv, Counted
  <2>3. CASE Release(o)
    BY <2>3, <1>s DEF Release, Buys
  <2> QED
    BY <2>1, <2>2, <2>3
<1>7. Counted'
  BY <1>1, <1>4, <1>5, <1>6, CountedStays
<1> QED
  BY <1>3, <1>7

LEMMA CountedOfConfigured ==
    ASSUME ReservationInv, UNCHANGED <<basket, buying, sawUnits, sawSlot, carried>>
    PROVE  Counted' /\ BlindAmongTooMany'
<1>1. Holding' = Holding
  BY DEF Holding
<1>2. BlindAmongTooMany'
  BY <1>1, BlindStays
<1>3. Counted'
  BY <1>1 DEF ReservationInv, Counted, SlotOf, HoldsAt, Load, Tokens
<1> QED
  BY <1>2, <1>3

\* The committed order is blind to one it has not counted, and one it has not
\* counted is there if it makes them too many.
LEMMA CountedOfCommit ==
    ASSUME ReservationInv, NEW o \in Baskets, CommitOrder(o)
    PROVE  Counted' /\ BlindAmongTooMany'
<1>t. /\ basket \in [Baskets -> {"NONE", "HOLDING", "RELEASED"}] /\ buying \in [Baskets -> BuyStep]
      /\ carried \subseteq Baskets /\ Size[o] \in Nat /\ DropCap \in Nat /\ SlotLimit \in Nat
      /\ sawUnits \in [Baskets -> SUBSET Baskets] /\ sawSlot \in [Baskets -> SUBSET Baskets]
  BY StockTypes, LimitsAssumption DEF ReservationInv
<1>1. /\ buying[o] = "SUM" /\ Buys(o) /\ basket[o] = "NONE"
      /\ basket' = [basket EXCEPT ![o] = "HOLDING"] /\ buying' = [buying EXCEPT ![o] = "NONE"]
      /\ UNCHANGED <<carried, sawUnits, sawSlot>>
  BY DEF CommitOrder, ReservationInv, StockInv, Standing, Buys
<1>2. /\ buying'[o] = "NONE" /\ \A p \in Baskets : p # o => buying'[p] = buying[p]
      /\ Holding' = Holding \cup {o} /\ o \notin Holding /\ Holding \in SUBSET Baskets
  BY <1>1, <1>t DEF Holding
<1>3. Counted'
  <2>1. \A q \in Holding' \cap carried' :
           q \in Holding \cap carried \/ (q = o /\ Buys(o) /\ o \in carried)
    BY <1>1, <1>2
  <2> QED
    BY <2>1, <1>1, <1>2, CountedStays
<1>4. \A p \in Holding : o \notin sawUnits[p] /\ o \notin sawSlot[p]
  BY <1>1, <1>2 DEF ReservationInv, StockInv, Standing
<1>5. /\ Load(sawUnits[o]) + Size[o] <= DropCap
      /\ o \in carried => \A p \in Holding \cap carried :
            BranchOf[p] = BranchOf[o] => p \in sawUnits[o]
      /\ o \in SlotTakers =>
            /\ Cardinality(sawSlot[o]) < SlotLimit
            /\ o \in carried => SlotOf(o) \cap carried \subseteq sawSlot[o]
  BY <1>1 DEF ReservationInv, Counted
<1>6. ASSUME NEW S \in SUBSET Holding', Load(S) > DropCap
      PROVE  \E q, p \in S : Blind(sawUnits, q, p)
  <2>1. CASE o \notin S
    <3>1. S \in SUBSET Holding
      BY <2>1, <1>2
    <3> QED
      BY <3>1, <1>6 DEF ReservationInv, BlindAmongTooMany
  <2>2. CASE o \in S
    <3> DEFINE T == S \ {o}
    <3>1. T \in SUBSET Holding /\ T \in SUBSET Baskets /\ o \notin T /\ S = T \cup {o} /\ T \subseteq S
      BY <2>2, <1>2
    <3> HIDE DEF T
    <3>2. Load(S) = Load(T) + Size[o] /\ Load(T) \in Nat
      BY <3>1, LoadOfOneMore, TokensInFinite
    <3>3. sawUnits[o] \in SUBSET Baskets /\ Load(sawUnits[o]) \in Nat
      BY <1>t, TokensInFinite
    <3>4. T \in SUBSET sawUnits[o] => Load(T) <= Load(sawUnits[o])
      BY <3>3, LoadGrows
    <3>5. ~(T \subseteq sawUnits[o])
      BY <3>2, <3>3, <3>4, <1>5, <1>6, <1>t
    <3>6. PICK p \in T : p \notin sawUnits[o]
      BY <3>5
    <3>7. ~Serialised(o, p)
      BY <3>1, <3>6, <1>5 DEF Serialised
    <3> QED
      BY <2>2, <3>1, <3>6, <3>7, <1>4 DEF Blind
  <2> QED
    BY <2>1, <2>2
<1>7. ASSUME NEW b \in Branches, NEW S \in SUBSET (HoldsAt(b)' \cap SlotTakers),
             Cardinality(S) > SlotLimit
      PROVE  \E q, p \in S : Blind(sawSlot, q, p)
  <2>1. CASE o \notin S
    <3>1. S \in SUBSET (HoldsAt(b) \cap SlotTakers)
      BY <2>1, <1>2 DEF HoldsAt
    <3> QED
      BY <3>1, <1>7 DEF ReservationInv, BlindAmongTooMany
  <2>2. CASE o \in S
    <3> DEFINE T == S \ {o}
    <3>1. T \in SUBSET SlotOf(o) /\ T \in SUBSET Holding /\ o \in SlotTakers /\ T \subseteq S
      BY <2>2, <1>2 DEF HoldsAt, SlotOf
    <3>2. IsFiniteSet(S) /\ IsFiniteSet(sawSlot[o])
      BY <1>2, <1>t, BasketsAssumption, FS_Subset DEF HoldsAt
    <3>3. /\ Cardinality(T) = Cardinality(S) - 1 /\ Cardinality(S) \in Nat
          /\ Cardinality(sawSlot[o]) \in Nat
      BY <2>2, <3>2, FS_RemoveElement, FS_CardinalityType
    <3> HIDE DEF T
    <3>4. T \subseteq sawSlot[o] => Cardinality(T) <= Cardinality(sawSlot[o])
      BY <3>2, FS_Subset
    <3>5. ~(T \subseteq sawSlot[o])
      BY <3>1, <3>3, <3>4, <1>5, <1>7, <1>t
    <3>6. PICK p \in T : p \notin sawSlot[o]
      BY <3>5
    <3>7. ~Serialised(o, p)
      BY <3>1, <3>6, <1>5 DEF Serialised
    <3>8. o # p
      BY <3>1, <3>6, <1>2
    <3> QED
      BY <2>2, <3>1, <3>6, <3>7, <3>8, <1>4 DEF Blind
  <2> QED
    BY <2>1, <2>2
<1>8. BlindAmongTooMany'
  BY <1>1, <1>6, <1>7 DEF BlindAmongTooMany, Blind, Serialised, Load, Tokens
<1> QED
  BY <1>3, <1>8

LEMMA ReservationInitInv == ReservationInit => ReservationInv
<1> SUFFICES ASSUME ReservationInit PROVE ReservationInv
  OBVIOUS
<1>1. Holding = {} /\ \A b \in Branches : HoldsAt(b) = {}
  BY DEF ReservationInit, Holding, HoldsAt
<1>2. Load({}) = 0 /\ Cardinality({}) = 0
  BY FS_EmptySet DEF Load
<1>3. Counted
  BY DEF ReservationInit, Counted
<1>4. BlindAmongTooMany
  <2>1. \A S \in SUBSET {} : S = {}
    OBVIOUS
  <2>2. ~(0 > DropCap) /\ ~(0 > SlotLimit)
    BY LimitsAssumption
  <2> QED
    BY <1>1, <1>2, <2>1, <2>2 DEF BlindAmongTooMany
<1> QED
  BY <1>3, <1>4, StockInit DEF ReservationInv

LEMMA ReservationNextInv == ReservationInv /\ [ReservationNext]_resVars => ReservationInv'
<1> SUFFICES ASSUME ReservationInv, [ReservationNext]_resVars PROVE ReservationInv'
  OBVIOUS
<1>1. StockInv'
  BY StockNext DEF ReservationInv
<1>2. ASSUME NEW o \in Baskets, ReserveStock(o) \/ CountSlot(o) \/ SumUnits(o) \/ RollBack(o) \/ Release(o)
      PROVE  Counted' /\ BlindAmongTooMany'
  BY <1>2, CountedOfOthers
<1>3. ASSUME NEW o \in Baskets, CommitOrder(o) PROVE Counted' /\ BlindAmongTooMany'
  BY <1>3, CountedOfCommit
<1>4. ASSUME NEW b \in Branches,
             (\E c \in Rooms : CountHeld(b, c) \/ Resize(b, c)) \/ InsertRow(b)
      PROVE  Counted' /\ BlindAmongTooMany'
  BY <1>4, CountedOfConfigured DEF CountHeld, Resize, InsertRow, buyVars
<1>5. ASSUME UNCHANGED resVars PROVE Counted' /\ BlindAmongTooMany'
  <2>1. UNCHANGED <<basket, buying, sawUnits, sawSlot, carried>>
    BY <1>5 DEF resVars, buyVars
  <2> QED
    BY <2>1, CountedOfConfigured
<1> QED
  BY <1>1, <1>2, <1>3, <1>4, <1>5 DEF ReservationNext, ReservationInv

-----------------------------------------------------------------------------
(* Theorems.                                                                *)

\* Whatever orders, cancellations and resizes overlap, the stock row of a
\* branch says no more than the branch can prepare, and is short of what its
\* orders hold by no more than those weigh that went astray around the row's
\* insertion; where none did, it counts what they hold to the unit
\* (reserveBranchStock, releaseOrderReservation, PUT .../stock).
THEOREM StockRowsStayTrue == ReservationSpec => []StockRowsTrue
<1>1. StockInv => StockRowsTrue
  BY DEF StockInv
<1> QED
  BY <1>1, StockInit, StockNext, PTL DEF ReservationSpec

\* Whoever orders, in whatever sizes, a launch is sold beyond its cap and a
\* pickup slot beyond its limit only if two orders that still hold counted
\* before either was committed and shared no stock row (orders.ts, the COUNT
\* and the SUM of the order transaction).
THEOREM OversoldOnlyByTheBlind == ReservationSpec => []OversoldOnlyBlindly
<1>1. ReservationInv => OversoldOnlyBlindly
  <2> SUFFICES ASSUME ReservationInv PROVE OversoldOnlyBlindly
    OBVIOUS
  <2>1. Load(Holding) > DropCap => \E o, p \in Holding : Blind(sawUnits, o, p)
    <3>1. Holding \in SUBSET Holding
      OBVIOUS
    <3> QED
      BY <3>1 DEF ReservationInv, BlindAmongTooMany
  <2>2. ASSUME NEW b \in Branches, Cardinality(HoldsAt(b) \cap SlotTakers) > SlotLimit
        PROVE  \E o, p \in HoldsAt(b) \cap SlotTakers : Blind(sawSlot, o, p)
    <3>1. HoldsAt(b) \cap SlotTakers \in SUBSET (HoldsAt(b) \cap SlotTakers)
      OBVIOUS
    <3> QED
      BY <2>2, <3>1 DEF ReservationInv, BlindAmongTooMany
  <2> QED
    BY <2>1, <2>2 DEF OversoldOnlyBlindly
<1> QED
  BY <1>1, ReservationInitInv, ReservationNextInv, PTL DEF ReservationSpec
=============================================================================
