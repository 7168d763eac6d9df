----------------------------- MODULE BooksProofs -----------------------------
(***************************************************************************)
(* Theorems about the books: Settlement, LedgerChain and the two at work   *)
(* together in Books, for any orders, prices, royalties, batches, entries  *)
(* and forgeries, any number of postings, anchors and requests, and a      *)
(* change at any row.  What holds of Settlement on serialised transactions *)
(* only (Dialect = "sqlite") says so: the run that refutes it on           *)
(* PostgreSQL shows it must.                                               *)
(***************************************************************************)
EXTENDS Books, FiniteSetTheorems, SequenceTheorems, TLAPS

-----------------------------------------------------------------------------
(* Sums of amounts over finite sets.                                        *)

LEMMA AmountTokens ==
    ASSUME NEW n \in Nat, NEW o
    PROVE  IsFiniteSet({o} \X (1..n)) /\ Cardinality({o} \X (1..n)) = n
<1>1. IsFiniteSet(1..n) /\ Cardinality(1..n) = n
  <2>1. 1 \in Int /\ n \in Int /\ ((1 > n) => n = 0) /\ n - 1 + 1 = n
    OBVIOUS
  <2>2. IsFiniteSet(1..n) /\ Cardinality(1..n) = IF 1 > n THEN 0 ELSE n - 1 + 1
    BY <2>1, FS_Interval
  <2> QED
    BY <2>1, <2>2
<1>2. IsFiniteSet({o}) /\ Cardinality({o}) = 1
  BY FS_Singleton
<1>3. /\ IsFiniteSet({o} \X (1..n))
      /\ Cardinality({o} \X (1..n)) = Cardinality({o}) * Cardinality(1..n)
  BY <1>1, <1>2, FS_Product
<1> QED
  BY <1>1, <1>2, <1>3

LEMMA AmountsFinite ==
    ASSUME NEW D, IsFiniteSet(D), NEW S \in SUBSET D, NEW amount \in [D -> Nat]
    PROVE  IsFiniteSet(Tokens(S, amount)) /\ Sum(S, amount) \in Nat
<1> DEFINE T == {{o} \X (1..amount[o]) : o \in S}
           f == [o \in S |-> {o} \X (1..amount[o])]
<1>1. IsFiniteSet(S)
  BY FS_Subset
<1>2. f \in Surjection(S, T)
  BY DEF Surjection
<1>3. IsFiniteSet(T)
  <2> HIDE DEF T, f
  <2> QED
    BY <1>1, <1>2, FS_Surjection
<1>4. \A x \in T : IsFiniteSet(x)
  BY AmountTokens
<1>5. IsFiniteSet(UNION T)
  <2> HIDE DEF T
  <2> QED
    BY <1>3, <1>4, FS_UNION
<1>6. IsFiniteSet(Tokens(S, amount))
  BY <1>5 DEF Tokens
<1> QED
  BY <1>6, FS_CardinalityType DEF Sum

LEMMA EmptySum ==
    ASSUME NEW amount
    PROVE  Sum({}, amount) = 0
<1>1. Tokens({}, amount) = {}
  BY DEF Tokens
<1> QED
  BY <1>1, FS_EmptySet DEF Sum

\* Amounts of different members add up.
LEMMA AmountsOfDisjoint ==
    ASSUME NEW D, IsFiniteSet(D), NEW S \in SUBSET D, NEW T \in SUBSET D, S \cap T = {},
           NEW amount \in [D -> Nat]
    PROVE  Sum(S \cup T, amount) = Sum(S, amount) + Sum(T, amount)
<1>1. Tokens(S \cup T, amount) = Tokens(S, amount) \cup Tokens(T, amount)
  BY DEF Tokens
<1>2. Tokens(S, amount) \cap Tokens(T, amount) = {}
  BY DEF Tokens
<1>3. Cardinality({}) = 0
  BY FS_EmptySet
<1>4. /\ IsFiniteSet(Tokens(S, amount)) /\ IsFiniteSet(Tokens(T, amount))
      /\ Sum(S, amount) \in Nat /\ Sum(T, amount) \in Nat
  BY AmountsFinite
<1>5. Cardinality(Tokens(S, amount) \cup Tokens(T, amount)) =
         Cardinality(Tokens(S, amount)) + Cardinality(Tokens(T, amount)) - Cardinality({})
  BY <1>2, <1>4, FS_Union
<1>6. Sum(S \cup T, amount) = Cardinality(Tokens(S, amount) \cup Tokens(T, amount))
  BY <1>1 DEF Sum
<1>7. /\ Sum(S, amount) = Cardinality(Tokens(S, amount))
      /\ Sum(T, amount) = Cardinality(Tokens(T, amount))
  BY DEF Sum
<1> QED
  BY <1>3, <1>4, <1>5, <1>6, <1>7

LEMMA OneMoreAmount ==
    ASSUME NEW D, IsFiniteSet(D), NEW S \in SUBSET D, NEW o \in D, o \notin S,
           NEW amount \in [D -> Nat]
    PROVE  Sum(S \cup {o}, amount) = Sum(S, amount) + amount[o]
<1>1. Tokens({o}, amount) = {o} \X (1..amount[o])
  BY DEF Tokens
<1>2. amount[o] \in Nat
  OBVIOUS
<1>3. Sum({o}, amount) = amount[o]
  BY <1>1, <1>2, AmountTokens DEF Sum
<1>4. {o} \in SUBSET D /\ S \cap {o} = {}
  OBVIOUS
<1> QED
  BY <1>3, <1>4, AmountsOfDisjoint

\* A sum is of the amounts of its members only.
LEMMA SameAmounts ==
    ASSUME NEW S, NEW amount, NEW other, \A o \in S : amount[o] = other[o]
    PROVE  Sum(S, amount) = Sum(S, other)
<1>1. Tokens(S, amount) = Tokens(S, other)
  BY DEF Tokens
<1> QED
  BY <1>1 DEF Sum

LEMMA TokensFinite ==
    ASSUME NEW S \in SUBSET Orders, NEW amount \in [Orders -> Nat]
    PROVE  IsFiniteSet(Tokens(S, amount)) /\ Sum(S, amount) \in Nat
BY OrdersAssumption, AmountsFinite

LEMMA SumOfDisjoint ==
    ASSUME NEW S \in SUBSET Orders, NEW T \in SUBSET Orders, S \cap T = {},
           NEW amount \in [Orders -> Nat]
    PROVE  Sum(S \cup T, amount) = Sum(S, amount) + Sum(T, amount)
BY OrdersAssumption, AmountsOfDisjoint

\* The royalties of a set of orders are part of what their customers paid.
LEMMA RoyaltiesWithinPrices ==
    ASSUME NEW S \in SUBSET Orders
    PROVE  Owed(S) <= Sum(S, Price)
<1>1. Tokens(S, Royalty) \subseteq Tokens(S, Price)
  <2>1. ASSUME NEW o \in S PROVE 1..Royalty[o] \subseteq 1..Price[o]
    BY AmountsAssumption
  <2> QED
    BY <2>1 DEF Tokens
<1>2. IsFiniteSet(Tokens(S, Price))
  BY TokensFinite, AmountsAssumption
<1> QED
  BY <1>1, <1>2, FS_Subset DEF Owed, Sum

LEMMA OwedType ==
    ASSUME NEW S \in SUBSET Orders
    PROVE  Owed(S) \in Nat /\ Sum(S, Price) \in Nat
BY TokensFinite, AmountsAssumption DEF Owed

LEMMA OwedOfDisjoint ==
    ASSUME NEW S \in SUBSET Orders, NEW T \in SUBSET Orders, S \cap T = {}
    PROVE  Owed(S \cup T) = Owed(S) + Owed(T)
BY SumOfDisjoint, AmountsAssumption DEF Owed

LEMMA OneMorePrice ==
    ASSUME NEW S \in SUBSET Orders, NEW o \in Orders, o \notin S
    PROVE  Sum(S \cup {o}, Price) = Sum(S, Price) + Price[o]
BY OrdersAssumption, AmountsAssumption, OneMoreAmount

-----------------------------------------------------------------------------
(* Type correctness.                                                        *)

LEMMA PostType ==
    ASSUME TypeOK, NEW t \in EntryType, NEW fils \in Nat, Post(t, fils)
    PROVE  ledger' \in [EntryType -> Nat]
BY DEF TypeOK, Post

LEMMA LinkType ==
    ASSUME TypeOK, NEW b \in Batches, NEW taken \in SUBSET Orders, LockAccruals(b, taken)
    PROVE  /\ accrual' \in [Orders -> AccrualStatus]
           /\ batchOf' \in [Orders -> Batches \cup {NoBatch}]
           /\ batch'   \in [Batches -> BatchStatus]
           /\ total'   \in [Batches -> Nat]
           /\ \A o \in Orders : accrual'[o] = "LOCKED" => batchOf'[o] \in Batches
<1>1. Owed(taken) \in Nat
  BY OwedType
<1>2. total' \in [Batches -> Nat]
  BY <1>1 DEF TypeOK, LockAccruals
<1> QED
  BY <1>2 DEF TypeOK, LockAccruals, AccrualStatus, BatchStatus, Eligible, With

LEMMA InitType == Init => TypeOK
<1> SUFFICES ASSUME Init PROVE TypeOK
  OBVIOUS
<1>1. \A o \in Orders : accrual[o] # "LOCKED"
  BY DEF Init
<1> QED
  BY <1>1 DEF Init, TypeOK, SaleStatus, AccrualStatus, BatchStatus

LEMMA NextType == TypeOK /\ [Next]_vars => TypeOK'
<1> SUFFICES ASSUME TypeOK, [Next]_vars PROVE TypeOK'
  OBVIOUS
<1> USE DEF saleVars, batchVars, openVars
<1>1. ASSUME NEW o \in Orders, CaptureSale(o) PROVE TypeOK'
  <2>1. ledger' \in [EntryType -> Nat]
    BY <1>1, PostType, AmountsAssumption DEF CaptureSale, EntryType
  <2> QED
    BY <1>1, <2>1 DEF CaptureSale, TypeOK, SaleStatus, AccrualStatus
<1>2. ASSUME NEW o \in Orders, FulfilSale(o) PROVE TypeOK'
  BY <1>2 DEF FulfilSale, TypeOK, SaleStatus, AccrualStatus
<1>3. ASSUME NEW o \in Orders, RefundSale(o) PROVE TypeOK'
  <2>1. ledger' \in [EntryType -> Nat]
    BY <1>3, PostType, AmountsAssumption DEF RefundSale, EntryType
  <2> QED
    BY <1>3, <2>1 DEF RefundSale, TypeOK, SaleStatus, AccrualStatus
<1>4. ASSUME NEW b \in Batches, BeginApprove(b) PROVE TypeOK'
  BY <1>4 DEF BeginApprove, TypeOK, Eligible, With
<1>5. ASSUME NEW b \in Batches, CommitApprove(b) PROVE TypeOK'
  <2>1. selected[b] \in SUBSET Orders
    BY DEF TypeOK
  <2> QED
    BY <1>5, <2>1, LinkType DEF CommitApprove, TypeOK
<1>6. ASSUME NEW b \in Batches, AbortApprove(b) PROVE TypeOK'
  BY <1>6 DEF AbortApprove, TypeOK
<1>7. ASSUME NEW b \in Batches, BeginPay(b) PROVE TypeOK'
  BY <1>7 DEF BeginPay, TypeOK
<1>8. ASSUME NEW b \in Batches, CommitPay(b) PROVE TypeOK'
  <2>1. total[b] \in Nat
    BY DEF TypeOK
  <2>2. ledger' \in [EntryType -> Nat]
    BY <1>8, <2>1, PostType DEF CommitPay, Settle, EntryType
  <2> QED
    BY <1>8, <2>2 DEF CommitPay, Settle, TypeOK, AccrualStatus, BatchStatus, LockedIn, With
<1>9. ASSUME NEW b \in Batches, AbortPay(b) PROVE TypeOK'
  BY <1>9 DEF AbortPay, TypeOK
<1>10. ASSUME NEW b \in Batches, RefusePay(b) PROVE TypeOK'
  BY <1>10 DEF RefusePay, TypeOK
<1>11. CASE UNCHANGED vars
  BY <1>11 DEF vars, TypeOK
<1> QED
  BY <1>1, <1>2, <1>3, <1>4, <1>5, <1>6, <1>7, <1>8, <1>9, <1>10, <1>11 DEF Next

\* Whatever the deployment, every row keeps a value its table admits, no
\* total turns negative and every locked royalty names its batch.
THEOREM TypeCorrect == Spec => []TypeOK
BY InitType, NextType, PTL DEF Spec

-----------------------------------------------------------------------------
(* The books.                                                               *)

NotRefunded == {"PENDING", "ELIGIBLE", "LOCKED", "PAID"}

Sold == {o \in Orders : order[o] # "NONE"}
Back == {o \in Orders : order[o] = "REFUNDED"}

\* The status of a sale limits where its royalty can stand.
RoyaltyFollowsSale(o) ==
    /\ order[o] = "NONE" => accrual[o] = "NONE"
    /\ order[o] \in {"PAID", "FULFILLED"} => accrual[o] \in NotRefunded
    /\ order[o] = "REFUNDED" => accrual[o] \in {"REVERSED", "PAID"}

\* Customers' money is in the ledger, order by order.
SalesBooked ==
    /\ ledger["PAYMENT_CAPTURED"] = Sum(Sold, Price)
    /\ ledger["PAYMENT_REFUNDED"] = Sum(Back, Price)

BooksInv == SalesBooked /\ \A o \in Orders : RoyaltyFollowsSale(o)

LEMMA BooksInvInit == Init => BooksInv
<1> SUFFICES ASSUME Init PROVE BooksInv
  OBVIOUS
<1>1. Sold = {} /\ Back = {}
  BY DEF Init, Sold, Back
<1>2. SalesBooked
  BY <1>1, EmptySum DEF Init, SalesBooked, EntryType
<1> QED
  BY <1>2 DEF Init, BooksInv, RoyaltyFollowsSale

\* It holds of every deployment: no approval or payment touches a sale, and
\* a payment is the only one to touch an accrual that is locked.
LEMMA BooksInvNext == TypeOK /\ BooksInv /\ [Next]_vars => BooksInv'
<1> SUFFICES ASSUME TypeOK, BooksInv, [Next]_vars PROVE BooksInv'
  OBVIOUS
<1> USE DEF saleVars, batchVars, openVars
<1>0. /\ \A o \in Orders : RoyaltyFollowsSale(o)
      /\ SalesBooked
      /\ Sold \in SUBSET Orders /\ Back \in SUBSET Orders
  BY DEF BooksInv, Sold, Back
<1>1. ASSUME NEW o \in Orders, CaptureSale(o) PROVE BooksInv'
  <2>1. Sold' = Sold \cup {o} /\ o \notin Sold /\ Back' = Back
    BY <1>1 DEF CaptureSale, TypeOK, Sold, Back
  <2>2. Sum(Sold \cup {o}, Price) = Sum(Sold, Price) + Price[o]
    BY <1>0, <2>1, OneMorePrice
  <2>3. /\ ledger'["PAYMENT_CAPTURED"] = ledger["PAYMENT_CAPTURED"] + Price[o]
        /\ ledger'["PAYMENT_REFUNDED"] = ledger["PAYMENT_REFUNDED"]
    BY <1>1 DEF CaptureSale, Post, TypeOK, EntryType
  <2>4. Sum(Sold, Price)' = Sum(Sold', Price) /\ Sum(Back, Price)' = Sum(Back', Price)
    BY DEF Sum, Tokens
  <2>5. SalesBooked'
    BY <1>0, <2>1, <2>2, <2>3, <2>4 DEF SalesBooked
  <2>6. \A p \in Orders : RoyaltyFollowsSale(p)'
    BY <1>0, <1>1 DEF CaptureSale, TypeOK, RoyaltyFollowsSale, NotRefunded
  <2> QED
    BY <2>5, <2>6 DEF BooksInv
<1>2. ASSUME NEW o \in Orders, FulfilSale(o) PROVE BooksInv'
  <2>1. Sold' = Sold /\ Back' = Back
    BY <1>2 DEF FulfilSale, TypeOK, Sold, Back
  <2>2. Sum(Sold, Price)' = Sum(Sold', Price) /\ Sum(Back, Price)' = Sum(Back', Price)
    BY DEF Sum, Tokens
  <2>3. SalesBooked'
    BY <1>0, <1>2, <2>1, <2>2 DEF FulfilSale, SalesBooked
  <2>4. \A p \in Orders : RoyaltyFollowsSale(p)'
    BY <1>0, <1>2 DEF FulfilSale, TypeOK, RoyaltyFollowsSale, NotRefunded
  <2> QED
    BY <2>3, <2>4 DEF BooksInv
<1>3. ASSUME NEW o \in Orders, RefundSale(o) PROVE BooksInv'
  <2>1. Back' = Back \cup {o} /\ o \notin Back /\ Sold' = Sold
    BY <1>3 DEF RefundSale, TypeOK, Sold, Back
  <2>2. Sum(Back \cup {o}, Price) = Sum(Back, Price) + Price[o]
    BY <1>0, <2>1, OneMorePrice
  <2>3. /\ ledger'["PAYMENT_REFUNDED"] = ledger["PAYMENT_REFUNDED"] + Price[o]
        /\ ledger'["PAYMENT_CAPTURED"] = ledger["PAYMENT_CAPTURED"]
    BY <1>3 DEF RefundSale, Post, TypeOK, EntryType
  <2>4. Sum(Sold, Price)' = Sum(Sold', Price) /\ Sum(Back, Price)' = Sum(Back', Price)
    BY DEF Sum, Tokens
  <2>5. SalesBooked'
    BY <1>0, <2>1, <2>2, <2>3, <2>4 DEF SalesBooked
  <2>6. \A p \in Orders : RoyaltyFollowsSale(p)'
    BY <1>0, <1>3 DEF RefundSale, TypeOK, RoyaltyFollowsSale, NotRefunded
  <2> QED
    BY <2>5, <2>6 DEF BooksInv
<1>4. ASSUME UNCHANGED <<order, accrual, ledger>> PROVE BooksInv'
  BY <1>4 DEF BooksInv, SalesBooked, RoyaltyFollowsSale, Sold, Back, Sum, Tokens
<1>5. ASSUME NEW b \in Batches, CommitApprove(b) PROVE BooksInv'
  <2>1. SalesBooked'
    BY <1>0, <1>5 DEF CommitApprove, SalesBooked, Sold, Back, Sum, Tokens
  <2>2. \A p \in Orders : RoyaltyFollowsSale(p)'
    BY <1>0, <1>5
       DEF CommitApprove, LockAccruals, RoyaltyFollowsSale, NotRefunded, Eligible, With
  <2> QED
    BY <2>1, <2>2 DEF BooksInv
<1>6. ASSUME NEW b \in Batches, CommitPay(b) PROVE BooksInv'
  <2>1. /\ ledger'["PAYMENT_REFUNDED"] = ledger["PAYMENT_REFUNDED"]
        /\ ledger'["PAYMENT_CAPTURED"] = ledger["PAYMENT_CAPTURED"]
    BY <1>6 DEF CommitPay, Settle, Post, TypeOK, EntryType
  <2>2. SalesBooked'
    BY <1>0, <1>6, <2>1 DEF CommitPay, SalesBooked, Sold, Back, Sum, Tokens
  <2>3. \A p \in Orders : RoyaltyFollowsSale(p)'
    BY <1>0, <1>6
       DEF CommitPay, Settle, RoyaltyFollowsSale, NotRefunded, LockedIn, With
  <2> QED
    BY <2>2, <2>3 DEF BooksInv
<1> QED
  BY <1>1, <1>2, <1>3, <1>4, <1>5, <1>6
     DEF Next, BeginApprove, AbortApprove, BeginPay, AbortPay, RefusePay, vars

-----------------------------------------------------------------------------
(* Payouts.                                                                 *)

\* One transaction is open at a time, so what a payment verified still holds
\* when it writes.
OneOpen ==
    \A b \in Open : Open = {b} /\ ~(b \in paying /\ selected[b] # {})

PayoutInv ==
    /\ OneOpen
    /\ \A b \in paying : SumMatches(b)
    /\ PayoutsMatchRoyalties

LEMMA PayoutInvInit == Init => PayoutInv
<1> SUFFICES ASSUME Init PROVE PayoutInv
  OBVIOUS
<1>1. Open = {} /\ paying = {} /\ With({"PAID"}) = {}
  BY DEF Init, Open, With
<1>2. PayoutsMatchRoyalties
  BY <1>1, EmptySum DEF Init, PayoutsMatchRoyalties, Owed, EntryType
<1> QED
  BY <1>1, <1>2 DEF PayoutInv, OneOpen

\* Steps that pay no royalty and take no payment back.
LEMMA PaidStays ==
    ASSUME ledger'["SETTLEMENT_PAID"] = ledger["SETTLEMENT_PAID"], PayoutsMatchRoyalties,
           \A o \in Orders : accrual'[o] = "PAID" <=> accrual[o] = "PAID"
    PROVE  PayoutsMatchRoyalties'
<1>1. With({"PAID"})' = With({"PAID"})
  BY DEF With
<1> QED
  BY <1>1 DEF PayoutsMatchRoyalties, Owed, Sum, Tokens

\* With no transaction open there is nothing that could go stale.
LEMMA NothingOpen ==
    ASSUME Open = {}, UNCHANGED <<selected, paying>>, PayoutsMatchRoyalties'
    PROVE  PayoutInv'
BY DEF PayoutInv, OneOpen, Open

LEMMA PayoutInvNext ==
    ASSUME Dialect = "sqlite", TypeOK, BooksInv, PayoutInv, [Next]_vars
    PROVE  PayoutInv'
<1> USE DEF saleVars, batchVars, openVars
<1>0. OneOpen /\ PayoutsMatchRoyalties /\ \A b \in paying : SumMatches(b)
  BY DEF PayoutInv
<1>1. ASSUME NEW o \in Orders, CaptureSale(o) \/ FulfilSale(o) \/ RefundSale(o)
      PROVE  PayoutInv'
  <2>1. Open = {} /\ UNCHANGED <<selected, paying>>
    BY <1>1 DEF CaptureSale, FulfilSale, RefundSale, MayBegin
  <2>2. ledger'["SETTLEMENT_PAID"] = ledger["SETTLEMENT_PAID"]
    BY <1>1 DEF CaptureSale, FulfilSale, RefundSale, Post, TypeOK, EntryType
  <2>3. order[o] = "NONE" => accrual[o] = "NONE"
    BY DEF BooksInv, RoyaltyFollowsSale
  <2>4. \A p \in Orders : accrual'[p] = "PAID" <=> accrual[p] = "PAID"
    BY <1>1, <2>3 DEF CaptureSale, FulfilSale, RefundSale, TypeOK
  <2> QED
    BY <1>0, <2>1, <2>2, <2>4, PaidStays, NothingOpen
<1>2. ASSUME NEW b \in Batches, BeginApprove(b) PROVE PayoutInv'
  <2>1. Open = {} /\ paying' = {} /\ selected' = [selected EXCEPT ![b] = Eligible]
    BY <1>2 DEF BeginApprove, MayBegin, Open
  <2>2. \A c \in Batches \ {b} : selected'[c] = {}
    BY <2>1 DEF Open, TypeOK
  <2>3. OneOpen'
    BY <2>1, <2>2 DEF OneOpen, Open
  <2>4. PayoutsMatchRoyalties'
    BY <1>0, <1>2, PaidStays DEF BeginApprove
  <2> QED
    BY <2>1, <2>3, <2>4 DEF PayoutInv
<1>3. ASSUME NEW b \in Batches, selected[b] # {}, selected' = [selected EXCEPT ![b] = {}],
             UNCHANGED paying
      PROVE  OneOpen' /\ paying' = {}
  <2>1. b \in Open /\ Open = {b} /\ b \notin paying
    BY <1>0, <1>3 DEF OneOpen, Open
  <2>2. paying' = {} /\ \A c \in Batches : selected'[c] = {}
    BY <1>3, <2>1 DEF Open, TypeOK
  <2> QED
    BY <2>2 DEF OneOpen, Open
<1>4. ASSUME NEW b \in Batches, CommitApprove(b) PROVE PayoutInv'
  <2>1. OneOpen' /\ paying' = {}
    BY <1>3, <1>4 DEF CommitApprove
  <2>2. PayoutsMatchRoyalties'
    BY <1>0, <1>4, PaidStays DEF CommitApprove, LockAccruals, Eligible, With
  <2> QED
    BY <2>1, <2>2 DEF PayoutInv
<1>5. ASSUME NEW b \in Batches, AbortApprove(b) PROVE PayoutInv'
  <2>1. OneOpen' /\ paying' = {}
    BY <1>3, <1>5 DEF AbortApprove
  <2>2. PayoutsMatchRoyalties'
    BY <1>0, <1>5, PaidStays DEF AbortApprove
  <2> QED
    BY <2>1, <2>2 DEF PayoutInv
<1>6. ASSUME NEW b \in Batches, BeginPay(b) PROVE PayoutInv'
  <2>1. Open = {} /\ paying' = {b} /\ UNCHANGED selected
    BY <1>6 DEF BeginPay, MayBegin, Open
  <2>2. OneOpen'
    BY <2>1 DEF OneOpen, Open
  <2>3. SumMatches(b)'
    BY <1>6 DEF BeginPay, SumMatches, LockedIn, With, Owed, Sum, Tokens
  <2>4. PayoutsMatchRoyalties'
    BY <1>0, <1>6, PaidStays DEF BeginPay
  <2> QED
    BY <2>1, <2>2, <2>3, <2>4 DEF PayoutInv
<1>7. ASSUME NEW b \in paying, paying' = paying \ {b}, UNCHANGED selected
      PROVE  OneOpen' /\ paying' = {}
  <2>1. Open = {b} /\ selected[b] = {}
    BY <1>0, <1>7 DEF OneOpen, Open
  <2>2. paying' = {} /\ \A c \in Batches : selected'[c] = {}
    BY <1>7, <2>1 DEF Open
  <2> QED
    BY <2>2 DEF OneOpen, Open
<1>8. ASSUME NEW b \in Batches, CommitPay(b) PROVE PayoutInv'
  <2>1. OneOpen' /\ paying' = {}
    BY <1>7, <1>8 DEF CommitPay
  <2> DEFINE S == LockedIn(b)
             P == With({"PAID"})
  <2>2. S \in SUBSET Orders /\ P \in SUBSET Orders /\ P \cap S = {}
    BY DEF LockedIn, With
  <2>3. P' = P \cup S
    BY <1>8 DEF CommitPay, Settle, LockedIn, With
  <2>4. Owed(P \cup S) = Owed(P) + Owed(S)
    BY <2>2, OwedOfDisjoint
  <2>5. Owed(S) = total[b]
    BY <1>0, <1>8 DEF CommitPay, SumMatches
  <2>6. ledger'["SETTLEMENT_PAID"] = ledger["SETTLEMENT_PAID"] + total[b]
    BY <1>8 DEF CommitPay, Settle, Post, TypeOK, EntryType
  <2>7. Owed(With({"PAID"}))' = Owed(P')
    BY DEF Owed, Sum, Tokens
  <2>8. PayoutsMatchRoyalties'
    BY <1>0, <2>3, <2>4, <2>5, <2>6, <2>7 DEF PayoutsMatchRoyalties
  <2> QED
    BY <2>1, <2>8 DEF PayoutInv
<1>9. ASSUME NEW b \in Batches, AbortPay(b) PROVE PayoutInv'
  <2>1. OneOpen' /\ paying' = {}
    BY <1>7, <1>9 DEF AbortPay
  <2>2. PayoutsMatchRoyalties'
    BY <1>0, <1>9, PaidStays DEF AbortPay
  <2> QED
    BY <2>1, <2>2 DEF PayoutInv
<1>10. ASSUME NEW b \in Batches, RefusePay(b) PROVE PayoutInv'
  <2>1. Open = {} /\ UNCHANGED <<selected, paying>>
    BY <1>10 DEF RefusePay, MayBegin
  <2>2. PayoutsMatchRoyalties'
    BY <1>0, <1>10, PaidStays DEF RefusePay
  <2> QED
    BY <2>1, <2>2, NothingOpen
<1>11. CASE UNCHANGED vars
  <2>1. OneOpen' /\ \A b \in paying' : SumMatches(b)'
    BY <1>0, <1>11 DEF vars, OneOpen, Open, SumMatches, LockedIn, With, Owed, Sum, Tokens
  <2>2. PayoutsMatchRoyalties'
    BY <1>0, <1>11, PaidStays DEF vars
  <2> QED
    BY <2>1, <2>2 DEF PayoutInv
<1> QED
  BY <1>1, <1>2, <1>4, <1>5, <1>6, <1>8, <1>9, <1>10, <1>11 DEF Next

\* With serialised transactions the ledger pays out exactly the royalties
\* that are marked paid, each once and none that a refund took back first.
THEOREM PayoutsNeverDiverge == Dialect = "sqlite" => (Spec => []PayoutsMatchRoyalties)
<1> SUFFICES ASSUME Dialect = "sqlite" PROVE Spec => []PayoutsMatchRoyalties
  OBVIOUS
<1>1. TypeOK /\ BooksInv /\ PayoutInv /\ [Next]_vars => PayoutInv'
  BY PayoutInvNext
<1>2. PayoutInv => PayoutsMatchRoyalties
  BY DEF PayoutInv
<1> QED
  BY <1>1, <1>2, PayoutInvInit, BooksInvInit, BooksInvNext, TypeCorrect, PTL DEF Spec

-----------------------------------------------------------------------------
(* Solvency.                                                                *)

Live == {o \in Orders : order[o] \in {"PAID", "FULFILLED"}}

\* What is left of the customers' money after refunds is the price of the
\* sales that stand; the royalties on those, owed or paid, are within it.
LEMMA BooksImplySolvent ==
    ASSUME TypeOK, BooksInv, PayoutsMatchRoyalties
    PROVE  Solvent
<1> DEFINE Due    == With({"PENDING", "ELIGIBLE", "LOCKED"})
           Paid   == With({"PAID"})
           Off    == {o \in Paid : order[o] = "REFUNDED"}
           Earned == Paid \ Off
<1>0. /\ SalesBooked
      /\ \A o \in Orders : RoyaltyFollowsSale(o)
      /\ \A o \in Orders : order[o] \in SaleStatus
  BY DEF BooksInv, TypeOK
<1>1. Sold = Live \cup Back /\ Live \cap Back = {}
      /\ Live \in SUBSET Orders /\ Back \in SUBSET Orders
  BY <1>0 DEF Sold, Live, Back, SaleStatus
<1>2. Sum(Sold, Price) = Sum(Live, Price) + Sum(Back, Price)
  BY <1>1, SumOfDisjoint, AmountsAssumption
<1>3. Live = Due \cup Earned /\ Due \cap Earned = {}
      /\ Due \in SUBSET Orders /\ Earned \in SUBSET Orders
  BY <1>0 DEF Live, With, RoyaltyFollowsSale, NotRefunded, SaleStatus
<1>4. Paid = Earned \cup Off /\ Earned \cap Off = {} /\ Off \in SUBSET Orders
  BY DEF With
<1>5. Owed(Live) = Owed(Due) + Owed(Earned)
  BY <1>3, OwedOfDisjoint
<1>6. Owed(Paid) = Owed(Earned) + Owed(Off)
  BY <1>3, <1>4, OwedOfDisjoint
<1>7. Owed(Live) <= Sum(Live, Price)
  BY <1>1, RoyaltiesWithinPrices
<1>8. /\ Owed(Live) \in Nat /\ Owed(Due) \in Nat /\ Owed(Earned) \in Nat /\ Owed(Off) \in Nat
      /\ Sum(Live, Price) \in Nat /\ Sum(Back, Price) \in Nat
  BY <1>1, <1>3, <1>4, OwedType
<1>9. Reserve = Sum(Live, Price) - Owed(Earned) - Owed(Off)
  BY <1>0, <1>2, <1>6, <1>8 DEF Reserve, SalesBooked, PayoutsMatchRoyalties
<1>10. Owed(Due) <= Reserve + Owed(Off)
  BY <1>5, <1>7, <1>8, <1>9
<1> QED
  BY <1>10 DEF Solvent, Liabilities, WrittenOff

\* With serialised transactions the reserve the attestation computes covers
\* what creators are owed, but for royalties paid before their sale was
\* refunded, whatever the prices, the royalties and the order of events.
THEOREM BooksStaySolvent == Dialect = "sqlite" => (Spec => []Solvent)
<1> SUFFICES ASSUME Dialect = "sqlite" PROVE Spec => []Solvent
  OBVIOUS
<1>1. TypeOK /\ BooksInv /\ PayoutsMatchRoyalties => Solvent
  BY BooksImplySolvent
<1> QED
  BY <1>1, BooksInvInit, BooksInvNext, PayoutsNeverDiverge, TypeCorrect, PTL DEF Spec

-----------------------------------------------------------------------------
(* Refinement.                                                              *)

LEMMA OwedAgrees ==
    ASSUME NEW S
    PROVE  Account!Owed(S) = Owed(S)
<1>1. Account!Fils(S) = Tokens(S, Royalty)
  BY DEF Account!Fils, Tokens
<1> QED
  BY <1>1 DEF Account!Owed, Account!Cardinality, Owed, Sum, Cardinality

LEMMA StandingValues ==
    /\ Standing["NONE"] = "NONE"
    /\ Standing["PENDING"] = "EARNED"
    /\ Standing["ELIGIBLE"] = "DUE"
    /\ Standing["LOCKED"] = "DUE"
    /\ Standing["REVERSED"] = "DROPPED"
BY DEF Standing

\* One accrual that changes moves one royalty of the account.
LEMMA StandingMoves ==
    ASSUME TypeOK, NEW o \in Orders, NEW a, NEW v, Standing[a] = v,
           accrual' = [accrual EXCEPT ![o] = a]
    PROVE  [p \in Orders |-> Standing[accrual'[p]]] =
              [[p \in Orders |-> Standing[accrual[p]]] EXCEPT ![o] = v]
<1> DEFINE S(x) == Standing[x]
<1>1. accrual'[o] = a /\ \A p \in Orders \ {o} : accrual'[p] = accrual[p]
  BY DEF TypeOK
<1>2. \A p \in Orders : S(accrual'[p]) = IF p = o THEN S(a) ELSE S(accrual[p])
  BY <1>1
<1> HIDE DEF S
<1>3. [p \in Orders |-> S(accrual'[p])] = [[p \in Orders |-> S(accrual[p])] EXCEPT ![o] = S(a)]
  BY <1>2
<1> QED
  BY <1>3 DEF S

LEMMA AccountStep ==
    ASSUME Dialect = "sqlite", TypeOK, BooksInv, PayoutInv, [Next]_vars
    PROVE  [Account!Next]_(Account!accountVars)
<1> USE DEF saleVars, batchVars, openVars
<1>1. ASSUME NEW o \in Orders, CaptureSale(o) PROVE Account!Next
  <2>1. accrual[o] = "NONE"
    BY <1>1 DEF CaptureSale, BooksInv, RoyaltyFollowsSale
  <2>2. UNCHANGED ledger["SETTLEMENT_PAID"]
    BY <1>1 DEF CaptureSale, Post, TypeOK, EntryType
  <2>3. accrual' = [accrual EXCEPT ![o] = "PENDING"]
    BY <1>1 DEF CaptureSale
  <2>4. [p \in Orders |-> Standing[accrual'[p]]] =
          [[p \in Orders |-> Standing[accrual[p]]] EXCEPT ![o] = "EARNED"]
    BY <2>3, StandingValues, StandingMoves, Zenon
  <2>5. Account!Earn(o)
    BY <2>1, <2>2, <2>4, StandingValues DEF Account!Earn
  <2> QED
    BY <2>5 DEF Account!Next
<1>2. ASSUME NEW o \in Orders, FulfilSale(o) PROVE [Account!Next]_(Account!accountVars)
  <2>1. CASE accrual[o] = "PENDING"
    <3>1. accrual' = [accrual EXCEPT ![o] = "ELIGIBLE"] /\ UNCHANGED ledger
      BY <1>2, <2>1 DEF FulfilSale, TypeOK
    <3>2. [p \in Orders |-> Standing[accrual'[p]]] =
            [[p \in Orders |-> Standing[accrual[p]]] EXCEPT ![o] = "DUE"]
      BY <3>1, StandingValues, StandingMoves, Zenon
    <3>3. Account!FallDue(o)
      BY <2>1, <3>1, <3>2, StandingValues DEF Account!FallDue
    <3> QED
      BY <3>3 DEF Account!Next
  <2>2. CASE accrual[o] # "PENDING"
    BY <1>2, <2>2 DEF FulfilSale, Account!accountVars, TypeOK
  <2> QED
    BY <2>1, <2>2
<1>3. ASSUME NEW o \in Orders, RefundSale(o) PROVE [Account!Next]_(Account!accountVars)
  <2>1. UNCHANGED ledger["SETTLEMENT_PAID"]
    BY <1>3 DEF RefundSale, Post, TypeOK, EntryType
  <2>2. CASE accrual[o] \in {"PENDING", "ELIGIBLE", "LOCKED"}
    <3>1. accrual' = [accrual EXCEPT ![o] = "REVERSED"]
      BY <1>3, <2>2 DEF RefundSale, TypeOK
    <3>2. [p \in Orders |-> Standing[accrual'[p]]] =
            [[p \in Orders |-> Standing[accrual[p]]] EXCEPT ![o] = "DROPPED"]
      BY <3>1, StandingValues, StandingMoves, Zenon
    <3>3. Standing[accrual[o]] \in {"EARNED", "DUE"}
      BY <2>2, StandingValues
    <3>4. Account!Drop(o)
      BY <2>1, <3>2, <3>3 DEF Account!Drop
    <3> QED
      BY <3>4 DEF Account!Next
  <2>3. CASE accrual[o] \notin {"PENDING", "ELIGIBLE", "LOCKED"}
    <3>1. accrual' = accrual
      BY <1>3, <2>3 DEF RefundSale, TypeOK
    <3> QED
      BY <2>1, <3>1 DEF Account!accountVars
  <2> QED
    BY <2>2, <2>3
<1>4. ASSUME NEW b \in Batches, CommitApprove(b) PROVE UNCHANGED Account!accountVars
  <2>1. \A o \in Orders : Standing[accrual'[o]] = Standing[accrual[o]]
    BY <1>4 DEF CommitApprove, LockAccruals, Eligible, With, Standing
  <2> QED
    BY <1>4, <2>1 DEF CommitApprove, Account!accountVars
<1>5. ASSUME NEW b \in Batches, CommitPay(b) PROVE Account!Next
  <2>1. PICK S \in SUBSET Orders : S = LockedIn(b)
    BY DEF LockedIn, With
  <2>2. ledger'["SETTLEMENT_PAID"] = ledger["SETTLEMENT_PAID"] + total[b]
    BY <1>5 DEF CommitPay, Settle, Post, TypeOK, EntryType
  <2>3. Account!Owed(S) = total[b]
    BY <1>5, <2>1, OwedAgrees DEF CommitPay, PayoutInv, SumMatches
  <2>4. \A o \in S : Standing[accrual[o]] = "DUE"
    BY <2>1 DEF LockedIn, With, Standing
  <2>5. \A o \in Orders : Standing[accrual'[o]] = IF o \in S THEN "PAID" ELSE Standing[accrual[o]]
    BY <1>5, <2>1 DEF CommitPay, Settle, Standing
  <2>6. Account!PayOut(S)
    BY <2>2, <2>3, <2>4, <2>5 DEF Account!PayOut
  <2> QED
    BY <2>6 DEF Account!Next
<1>6. ASSUME UNCHANGED <<accrual, ledger>> PROVE UNCHANGED Account!accountVars
  BY <1>6 DEF Account!accountVars
<1> QED
  BY <1>1, <1>2, <1>3, <1>4, <1>5, <1>6
     DEF Next, BeginApprove, AbortApprove, BeginPay, AbortPay, RefusePay, vars

\* With serialised transactions settlement implements the creator's account:
\* every royalty is paid at most once, in full, only after the order was
\* handed over, and money leaves for nothing else.
THEOREM SettlementImplementsAccount == Dialect = "sqlite" => (Spec => ImplementsAccount)
<1> SUFFICES ASSUME Dialect = "sqlite" PROVE Spec => Account!Spec
  BY DEF ImplementsAccount
<1>1. Init => Account!Init
  BY DEF Init, Account!Init, Standing, EntryType
<1>2. TypeOK /\ BooksInv /\ PayoutInv /\ [Next]_vars => [Account!Next]_(Account!accountVars)
  BY AccountStep
<1>3. TypeOK /\ BooksInv /\ PayoutInv /\ [Next]_vars => PayoutInv'
  BY PayoutInvNext
<1> QED
  BY <1>1, <1>2, <1>3, PayoutInvInit, BooksInvInit, BooksInvNext, TypeCorrect,
     PTL DEF Spec, Account!Spec

-----------------------------------------------------------------------------
(* The ledger as evidence: what its rows, its anchors and a verification in *)
(* progress are like until, and after, a change behind the program's back.  *)

Hash == Seq(Entry)
LedgerRow == [seq : Nat, entry : Entry, prev : Hash, hash : Hash]
LedgerHead == [seq : Nat, hash : Hash]
Reasons == {"NONE", "VALID", "BROKEN_ROW", "HEAD_HASH_DIVERGED"}

-----------------------------------------------------------------------------
(* The invariant.                                                           *)

ChainTypeOK ==
    /\ rows \in Seq(LedgerRow)
    /\ head \in LedgerHead
    /\ anchors \in SUBSET LedgerHead /\ anchoring \in SUBSET LedgerHead
    /\ reading \in SUBSET Seq(LedgerRow)
    /\ report.reason \in Reasons /\ report.count \in Nat
    /\ edit \in [kind : {"NONE", "ALTERED", "DELETED", "REWRITTEN"}, seq : Nat, anchored : BOOLEAN]
    /\ edit.kind = "NONE" => edit = NoEdit

\* The first k rows of rs follow each other.
FollowsUpTo(rs, k) == \A i \in 1..k : Follows(rs, i)

\* hash is that of the first k rows.
HashOf(hash, k) == Len(hash) = k /\ \A j \in 1..k : hash[j] = rows[j].entry

Pristine ==
    /\ FollowsUpTo(rows, Len(rows))
    /\ \A i \in 1..Len(rows) : HashOf(rows[i].hash, i)
    /\ head.seq = Len(rows)
    /\ head.hash = HashBefore(rows, Len(rows) + 1)

PrefixesRead ==
    \A rs \in reading : Len(rs) <= Len(rows) /\ \A i \in 1..Len(rs) : rs[i] = rows[i]

AnchorsArePrefixes ==
    \A a \in anchors \cup anchoring : a.seq <= Len(rows) /\ HashOf(a.hash, a.seq)

Untouched ==
    edit.kind = "NONE" =>
        Pristine /\ PrefixesRead /\ AnchorsArePrefixes /\ FalseAlarmsExplained

\* An altered row no longer has its hash; the rows before it follow.
AlteredAt(k) ==
    /\ k \in 1..Len(rows)
    /\ FollowsUpTo(rows, k - 1)
    /\ ~Follows(rows, k)
    /\ rows[k].seq = k

\* Where a row was deleted the next one is, or will be, one too far.
DeletedAt(k) ==
    /\ k >= 1 /\ k - 1 <= Len(rows)
    /\ FollowsUpTo(rows, k - 1)
    /\ Len(HashBefore(rows, k)) = k - 1
    /\ k <= Len(rows) => rows[k].seq = k + 1
    /\ k > Len(rows) => head.seq = k /\ Len(head.hash) = k

\* The anchor a does not find what it hashed at row k.
Misses(a, k) ==
    \/ k > Len(rows)
    \/ rows[k].seq # k
    \/ rows[k].entry # a.hash[k]

Pinned ==
    edit.anchored =>
        /\ edit.seq >= 1
        /\ edit.kind # "DELETED" => edit.seq <= Len(rows)
        /\ \E a \in anchors \cup anchoring : a.seq >= edit.seq /\ Misses(a, edit.seq)

ChainInv ==
    /\ ChainTypeOK
    /\ Untouched
    /\ edit.kind = "ALTERED" => AlteredAt(edit.seq)
    /\ edit.kind = "DELETED" => DeletedAt(edit.seq)
    /\ Pinned

-----------------------------------------------------------------------------
(* The answer of a verification.                                            *)

LEMMA AllFollow ==
    ASSUME NEW rs \in Seq(LedgerRow), NEW h, FollowsUpTo(rs, Len(rs))
    PROVE  /\ Verdict(rs, h).count = Len(rs)
           /\ h = HashBefore(rs, Len(rs) + 1) => Verdict(rs, h).reason = "VALID"
           /\ h # HashBefore(rs, Len(rs) + 1) => Verdict(rs, h).reason = "HEAD_HASH_DIVERGED"
<1>1. DOMAIN rs = 1..Len(rs)
  OBVIOUS
<1>2. Broken(rs) = {}
  BY <1>1 DEF Broken, FollowsUpTo
<1> QED
  BY <1>2 DEF Verdict

LEMMA FirstBroken ==
    ASSUME NEW rs \in Seq(LedgerRow), NEW h, NEW k \in 1..Len(rs),
           FollowsUpTo(rs, k - 1), ~Follows(rs, k)
    PROVE  Verdict(rs, h) = [reason |-> "BROKEN_ROW", at |-> rs[k].seq, count |-> Len(rs)]
<1>1. DOMAIN rs = 1..Len(rs)
  OBVIOUS
<1>2. k \in Broken(rs)
  BY <1>1 DEF Broken
<1>3. \A i \in Broken(rs) : i \in 1..Len(rs) /\ k <= i
  <2> SUFFICES ASSUME NEW i \in Broken(rs) PROVE i \in 1..Len(rs) /\ k <= i
    OBVIOUS
  <2>1. i \in 1..Len(rs) /\ ~Follows(rs, i)
    BY <1>1 DEF Broken
  <2> QED
    BY <2>1 DEF FollowsUpTo
<1>4. (CHOOSE i \in Broken(rs) : \A j \in Broken(rs) : i <= j) = k
  <2> DEFINE c == CHOOSE i \in Broken(rs) : \A j \in Broken(rs) : i <= j
  <2>1. c \in Broken(rs) /\ \A j \in Broken(rs) : c <= j
    BY <1>2, <1>3
  <2>2. c <= k /\ k <= c /\ c \in 1..Len(rs)
    BY <2>1, <1>2, <1>3
  <2> QED
    BY <2>2
<1> QED
  BY <1>2, <1>4 DEF Verdict

-----------------------------------------------------------------------------
(* The steps.                                                               *)

LEMMA PostKeepsPrefix ==
    ASSUME ChainTypeOK, NEW e \in Entry, PostEntry(e)
    PROVE  /\ rows' \in Seq(LedgerRow) /\ head' \in LedgerHead
           /\ Len(rows') = Len(rows) + 1
           /\ rows'[Len(rows) + 1] = NextRow(e)
           /\ \A i \in 1..Len(rows) : rows'[i] = rows[i]
           /\ \A i \in 1..(Len(rows) + 1) : HashBefore(rows', i) = HashBefore(rows, i)
           /\ \A i \in 1..Len(rows) : Follows(rows', i) <=> Follows(rows, i)
<1>1. NextRow(e) \in LedgerRow
  BY DEF NextRow, LedgerRow, ChainTypeOK, LedgerHead, Hash, Link
<1>2. rows \in Seq(LedgerRow) /\ rows' = Append(rows, NextRow(e))
  BY DEF ChainTypeOK, PostEntry
<1>3. rows' \in Seq(LedgerRow) /\ Len(rows') = Len(rows) + 1 /\ rows'[Len(rows) + 1] = NextRow(e)
  BY <1>1, <1>2
<1>4. \A i \in 1..Len(rows) : rows'[i] = rows[i]
  BY <1>1, <1>2
<1>5. head' = [seq |-> NextRow(e).seq, hash |-> NextRow(e).hash]
  BY DEF PostEntry
<1>6. head' \in LedgerHead
  BY <1>1, <1>5 DEF LedgerRow, LedgerHead
<1>7. \A i \in 1..(Len(rows) + 1) : HashBefore(rows', i) = HashBefore(rows, i)
  <2> SUFFICES ASSUME NEW i \in 1..(Len(rows) + 1) PROVE HashBefore(rows', i) = HashBefore(rows, i)
    OBVIOUS
  <2>1. i # 1 => i - 1 \in 1..Len(rows)
    BY <1>2
  <2> QED
    BY <2>1, <1>4 DEF HashBefore
<1>8. \A i \in 1..Len(rows) : Follows(rows', i) <=> Follows(rows, i)
  BY <1>2, <1>4, <1>7 DEF Follows
<1> QED
  BY <1>3, <1>4, <1>6, <1>7, <1>8

LEMMA ChainInvInit == ChainInit => ChainInv
<1> SUFFICES ASSUME ChainInit PROVE ChainInv
  OBVIOUS
<1> USE DEF ChainInit
<1>1. ChainTypeOK
  BY DEF ChainTypeOK, LedgerHead, Hash, Genesis, NoReport, NoEdit, Reasons
<1>2. Pristine
  BY DEF Pristine, FollowsUpTo, HashOf, HashBefore, Genesis
<1>3. Untouched
  BY <1>2 DEF Untouched, PrefixesRead, AnchorsArePrefixes, FalseAlarmsExplained, NoReport
<1> QED
  BY <1>1, <1>3 DEF ChainInv, Pinned, NoEdit

-----------------------------------------------------------------------------
(* Posting.                                                                 *)

LEMMA PostKeepsInv ==
    ASSUME ChainInv, NEW e \in Entry, PostEntry(e)
    PROVE  ChainInv'
<1>0. ChainTypeOK /\ UNCHANGED <<anchors, anchoring, reading, report, edit>>
  BY DEF ChainInv, PostEntry
<1>1. /\ rows' \in Seq(LedgerRow) /\ head' \in LedgerHead
      /\ Len(rows') = Len(rows) + 1
      /\ rows'[Len(rows) + 1] = NextRow(e)
      /\ \A i \in 1..Len(rows) : rows'[i] = rows[i]
      /\ \A i \in 1..(Len(rows) + 1) : HashBefore(rows', i) = HashBefore(rows, i)
      /\ \A i \in 1..Len(rows) : Follows(rows', i) <=> Follows(rows, i)
  BY <1>0, PostKeepsPrefix
<1>2. head' = [seq |-> NextRow(e).seq, hash |-> NextRow(e).hash]
  BY DEF PostEntry
<1>n. Len(rows) \in Nat /\ head.seq \in Nat /\ head.hash \in Seq(Entry) /\ rows \in Seq(LedgerRow)
  BY <1>0 DEF ChainTypeOK, LedgerHead, Hash
<1>3. ChainTypeOK'
  BY <1>0, <1>1 DEF ChainTypeOK
<1>4. Untouched'
  <2> SUFFICES ASSUME edit.kind = "NONE"
               PROVE  (Pristine /\ PrefixesRead /\ AnchorsArePrefixes /\ FalseAlarmsExplained)'
    BY <1>0 DEF Untouched
  <2>1. Pristine /\ PrefixesRead /\ AnchorsArePrefixes /\ FalseAlarmsExplained
    BY DEF ChainInv, Untouched
  <2>h. Len(head.hash) = Len(rows) /\ \A j \in 1..Len(rows) : head.hash[j] = rows[j].entry
    <3>1. CASE Len(rows) = 0
      BY <3>1, <2>1 DEF Pristine, HashBefore, Genesis
    <3>2. CASE Len(rows) # 0
      <4>1. Len(rows) \in 1..Len(rows) /\ head.hash = rows[Len(rows)].hash
        BY <3>2, <1>n, <2>1 DEF Pristine, HashBefore
      <4> QED
        BY <4>1, <2>1 DEF Pristine, HashOf
    <3> QED
      BY <3>1, <3>2
  <2>l. /\ NextRow(e).seq = Len(rows) + 1
        /\ NextRow(e).prev = head.hash
        /\ NextRow(e).entry = e
        /\ NextRow(e).hash = Append(head.hash, e)
    BY <2>1 DEF NextRow, Pristine, Link
  <2>2. Pristine'
    <3>1. Follows(rows', Len(rows) + 1)
      BY <1>1, <1>n, <2>l, <2>1 DEF Follows, Pristine, Link
    <3>2. FollowsUpTo(rows', Len(rows'))
      BY <3>1, <1>1, <1>n, <2>1 DEF FollowsUpTo, Pristine
    <3>3. ASSUME NEW i \in 1..Len(rows') PROVE HashOf(rows[i].hash, i)'
      <4>1. CASE i \in 1..Len(rows)
        <5>1. HashOf(rows[i].hash, i)
          BY <4>1, <2>1 DEF Pristine
        <5>2. rows'[i] = rows[i] /\ \A j \in 1..i : rows'[j] = rows[j]
          BY <4>1, <1>1, <1>n
        <5> QED
          BY <5>1, <5>2 DEF HashOf
      <4>2. CASE i = Len(rows) + 1
        <5>1. rows'[i].hash = Append(head.hash, e) /\ rows'[i].entry = e
          BY <4>2, <1>1, <2>l
        <5>2. Len(Append(head.hash, e)) = i /\ Append(head.hash, e)[i] = e
          BY <4>2, <1>n, <2>h
        <5>3. \A j \in 1..Len(rows) : Append(head.hash, e)[j] = rows'[j].entry
          BY <1>n, <2>h, <1>1
        <5> QED
          BY <4>2, <5>1, <5>2, <5>3, <1>n DEF HashOf
      <4> QED
        BY <4>1, <4>2, <1>1, <1>n
    <3>4. head'.seq = Len(rows') /\ head'.hash = HashBefore(rows', Len(rows') + 1)
      BY <1>1, <1>2, <1>n, <2>l DEF HashBefore
    <3> QED
      BY <3>2, <3>3, <3>4 DEF Pristine
  <2>3. PrefixesRead'
    <3> SUFFICES ASSUME NEW rs \in reading
                 PROVE  Len(rs) <= Len(rows') /\ \A i \in 1..Len(rs) : rs[i] = rows'[i]
      BY <1>0 DEF PrefixesRead
    <3>1. Len(rs) \in Nat /\ Len(rs) <= Len(rows) /\ \A i \in 1..Len(rs) : rs[i] = rows[i]
      BY <1>0, <2>1 DEF PrefixesRead, ChainTypeOK
    <3> QED
      BY <3>1, <1>1, <1>n
  <2>4. AnchorsArePrefixes'
    <3> SUFFICES ASSUME NEW a \in anchors \cup anchoring
                 PROVE  a.seq <= Len(rows') /\ HashOf(a.hash, a.seq)'
      BY <1>0 DEF AnchorsArePrefixes
    <3>1. a.seq \in Nat /\ a.seq <= Len(rows) /\ HashOf(a.hash, a.seq)
      BY <1>0, <2>1 DEF AnchorsArePrefixes, ChainTypeOK, LedgerHead
    <3> QED
      BY <3>1, <1>1, <1>n DEF HashOf
  <2>5. FalseAlarmsExplained'
    <3>1. report.count \in Nat /\ report' = report /\ edit' = edit /\ edit = NoEdit
      BY <1>0 DEF ChainTypeOK
    <3> QED
      BY <3>1, <2>1, <1>1, <1>n DEF FalseAlarmsExplained
  <2> QED
    BY <2>2, <2>3, <2>4, <2>5
<1>5. ASSUME edit'.kind = "ALTERED" PROVE AlteredAt(edit.seq)'
  <2>1. AlteredAt(edit.seq) /\ edit' = edit /\ edit.seq \in Nat
    BY <1>0, <1>5 DEF ChainInv, ChainTypeOK
  <2> QED
    BY <2>1, <1>1, <1>n DEF AlteredAt, FollowsUpTo
<1>6. ASSUME edit'.kind = "DELETED" PROVE DeletedAt(edit.seq)'
  <2>1. DeletedAt(edit.seq) /\ edit' = edit /\ edit.seq \in Nat
    BY <1>0, <1>6 DEF ChainInv, ChainTypeOK
  <2> DEFINE k == edit.seq
  <2>2. k >= 1 /\ k - 1 <= Len(rows') /\ k <= Len(rows')
    BY <2>1, <1>1, <1>n DEF DeletedAt
  <2>3. FollowsUpTo(rows', k - 1)
    BY <2>1, <1>1, <1>n DEF DeletedAt, FollowsUpTo
  <2>4. Len(HashBefore(rows', k)) = k - 1
    <3>1. k \in 1..(Len(rows) + 1)
      BY <2>1, <1>n DEF DeletedAt
    <3> QED
      BY <3>1, <2>1, <1>1 DEF DeletedAt
  <2>5. rows'[k].seq = k + 1
    <3>1. CASE k <= Len(rows)
      BY <3>1, <2>1, <1>1, <1>n DEF DeletedAt
    <3>2. CASE k = Len(rows) + 1
      BY <3>2, <2>1, <1>1, <1>n DEF DeletedAt, NextRow
    <3> QED
      BY <3>1, <3>2, <2>2, <1>1, <1>n, <2>1
  <2> QED
    BY <2>1, <2>2, <2>3, <2>4, <2>5, <1>1, <1>n DEF DeletedAt
<1>7. Pinned'
  <2> SUFFICES ASSUME edit.anchored
               PROVE  /\ edit.seq >= 1
                      /\ edit.kind # "DELETED" => edit.seq <= Len(rows')
                      /\ \E a \in anchors \cup anchoring :
                            a.seq >= edit.seq /\ Misses(a, edit.seq)'
    BY <1>0 DEF Pinned
  <2>1. /\ edit.seq \in Nat /\ edit.seq >= 1
        /\ edit.kind # "DELETED" => edit.seq <= Len(rows)
    BY <1>0 DEF ChainInv, Pinned, ChainTypeOK
  <2>2. PICK a \in anchors \cup anchoring : a.seq >= edit.seq /\ Misses(a, edit.seq)
    BY DEF ChainInv, Pinned
  <2>3. Misses(a, edit.seq)'
    <3>1. CASE edit.seq <= Len(rows)
      <4>1. rows'[edit.seq] = rows[edit.seq]
        BY <3>1, <2>1, <1>1, <1>n
      <4> QED
        BY <4>1, <3>1, <2>1, <2>2, <1>n, <1>0 DEF Misses
    <3>2. CASE edit.seq > Len(rows)
      <4>1. edit.kind = "DELETED"
        BY <3>2, <2>1, <1>n
      <4>2. rows'[edit.seq].seq = edit.seq + 1
        BY <4>1, <1>6, <1>0, <1>1, <1>n, <2>1, <3>2 DEF DeletedAt, ChainInv
      <4> QED
        BY <4>2, <2>1, <1>0 DEF Misses
    <3> QED
      BY <3>1, <3>2, <2>1, <1>n
  <2> QED
    BY <2>1, <2>2, <2>3, <1>1, <1>n
<1> QED
  BY <1>3, <1>4, <1>5, <1>6, <1>7 DEF ChainInv

-----------------------------------------------------------------------------
(* Verifying and anchoring.                                                 *)

LEMMA VerdictShape ==
    ASSUME NEW rs \in Seq(LedgerRow), NEW h
    PROVE  Verdict(rs, h).reason \in Reasons /\ Verdict(rs, h).count \in Nat
BY DEF Verdict, Reasons

LEMMA EndVerifyKeepsInv ==
    ASSUME ChainInv, EndVerify
    PROVE  ChainInv'
<1>1. PICK rs \in reading : report' = Verdict(rs, head.hash)
  BY DEF EndVerify
<1>2. reading' = {} /\ UNCHANGED <<rows, head, anchors, anchoring, edit>>
  BY DEF EndVerify
<1>3. ChainTypeOK /\ rs \in Seq(LedgerRow) /\ rows \in Seq(LedgerRow)
  BY DEF ChainInv, ChainTypeOK
<1>4. ChainTypeOK'
  BY <1>1, <1>2, <1>3, VerdictShape DEF ChainTypeOK
<1>5. Untouched'
  <2> SUFFICES ASSUME edit.kind = "NONE"
               PROVE  (Pristine /\ PrefixesRead /\ AnchorsArePrefixes /\ FalseAlarmsExplained)'
    BY <1>2 DEF Untouched
  <2>1. Pristine /\ PrefixesRead /\ AnchorsArePrefixes
    BY DEF ChainInv, Untouched
  <2>2. (Pristine /\ PrefixesRead /\ AnchorsArePrefixes)'
    BY <2>1, <1>2 DEF Pristine, PrefixesRead, AnchorsArePrefixes, FollowsUpTo, HashOf
  <2>3. Len(rs) <= Len(rows) /\ \A i \in 1..Len(rs) : rs[i] = rows[i]
    BY <2>1 DEF PrefixesRead
  <2>4. \A i \in 1..(Len(rs) + 1) : HashBefore(rs, i) = HashBefore(rows, i)
    <3> SUFFICES ASSUME NEW i \in 1..(Len(rs) + 1) PROVE HashBefore(rs, i) = HashBefore(rows, i)
      OBVIOUS
    <3>1. i # 1 => i - 1 \in 1..Len(rs)
      BY <1>3
    <3> QED
      BY <3>1, <2>3 DEF HashBefore
  <2>5. FollowsUpTo(rs, Len(rs))
    BY <2>1, <2>3, <2>4, <1>3 DEF FollowsUpTo, Pristine, Follows
  <2>6. FalseAlarmsExplained'
    <3>1. CASE head.hash = HashBefore(rs, Len(rs) + 1)
      BY <3>1, <1>1, <1>3, <2>5, AllFollow DEF FalseAlarmsExplained
    <3>2. CASE head.hash # HashBefore(rs, Len(rs) + 1)
      <4>1. report'.reason = "HEAD_HASH_DIVERGED" /\ report'.count = Len(rs)
        BY <3>2, <1>1, <1>3, <2>5, AllFollow
      <4>2. Len(rs) + 1 \in 1..(Len(rs) + 1)
        BY <1>3
      <4>3. Len(rs) # Len(rows)
        BY <3>2, <2>1, <2>4, <4>2 DEF Pristine
      <4> QED
        BY <4>1, <4>3, <2>3, <1>2, <1>3 DEF FalseAlarmsExplained
    <3> QED
      BY <3>1, <3>2
  <2> QED
    BY <2>2, <2>6
<1> QED
  BY <1>2, <1>4, <1>5
     DEF ChainInv, AlteredAt, DeletedAt, Pinned, Misses, FollowsUpTo

LEMMA AuditKeepsInv ==
    ASSUME ChainInv, BeginVerify \/ BeginAnchor \/ EndAnchor
    PROVE  ChainInv'
<1>1. ChainTypeOK /\ UNCHANGED <<rows, head, report, edit>>
  BY DEF ChainInv, BeginVerify, BeginAnchor, EndAnchor
<1>2. ChainTypeOK'
  BY <1>1 DEF ChainTypeOK, BeginVerify, BeginAnchor, EndAnchor
<1>3. anchors \cup anchoring \subseteq anchors' \cup anchoring'
  BY DEF BeginVerify, BeginAnchor, EndAnchor
<1>4. Untouched'
  <2> SUFFICES ASSUME edit.kind = "NONE"
               PROVE  (Pristine /\ PrefixesRead /\ AnchorsArePrefixes /\ FalseAlarmsExplained)'
    BY <1>1 DEF Untouched
  <2>1. Pristine /\ PrefixesRead /\ AnchorsArePrefixes /\ FalseAlarmsExplained
    BY DEF ChainInv, Untouched
  <2>2. Pristine' /\ FalseAlarmsExplained'
    BY <1>1, <2>1 DEF Pristine, FalseAlarmsExplained, FollowsUpTo, HashOf
  <2>3. PrefixesRead'
    <3>1. \A rs \in reading' : rs \in reading \/ rs = rows
      BY DEF BeginVerify, BeginAnchor, EndAnchor
    <3>2. Len(rows) <= Len(rows)
      BY <1>1 DEF ChainTypeOK
    <3> QED
      BY <1>1, <2>1, <3>1, <3>2 DEF PrefixesRead
  <2>4. AnchorsArePrefixes'
    <3>1. \A a \in (anchors \cup anchoring)' : a \in anchors \cup anchoring \/ a = head
      BY DEF BeginVerify, BeginAnchor, EndAnchor
    <3>2. head.seq <= Len(rows) /\ HashOf(head.hash, head.seq)
      <4>1. head.seq = Len(rows) /\ Len(rows) \in Nat
        BY <1>1, <2>1 DEF Pristine, ChainTypeOK
      <4>2. CASE Len(rows) = 0
        BY <4>1, <4>2, <2>1 DEF Pristine, HashBefore, Genesis, HashOf
      <4>3. CASE Len(rows) # 0
        BY <4>1, <4>3, <2>1 DEF Pristine, HashBefore, HashOf
      <4> QED
        BY <4>1, <4>2, <4>3
    <3> QED
      BY <1>1, <2>1, <3>1, <3>2 DEF AnchorsArePrefixes, HashOf
  <2> QED
    BY <2>2, <2>3, <2>4
<1>5. Pinned'
  BY <1>1, <1>3 DEF ChainInv, Pinned, Misses
<1> QED
  BY <1>1, <1>2, <1>4, <1>5 DEF ChainInv, AlteredAt, DeletedAt, FollowsUpTo

-----------------------------------------------------------------------------
(* The change behind the program's back: it hits a pristine ledger.         *)

LEMMA BeforeTheEdit ==
    ASSUME ChainInv, edit = NoEdit
    PROVE  /\ Pristine /\ AnchorsArePrefixes
           /\ rows \in Seq(LedgerRow) /\ Len(rows) \in Nat /\ DOMAIN rows = 1..Len(rows)
BY DEF ChainInv, ChainTypeOK, Untouched, NoEdit

\* An anchor from row k on knows what row k said.
LEMMA AnchorKnows ==
    ASSUME ChainInv, edit = NoEdit, NEW k \in DOMAIN rows, AnchoredFrom(k)
    PROVE  \E a \in anchors \cup anchoring : a.seq >= k /\ a.hash[k] = rows[k].entry
<1>1. AnchorsArePrefixes /\ k \in 1..Len(rows) /\ Len(rows) \in Nat /\ ChainTypeOK
  BY BeforeTheEdit DEF ChainInv
<1>2. PICK a \in anchors \cup anchoring : a.seq >= k
  BY DEF AnchoredFrom
<1>3. a.seq \in Nat /\ HashOf(a.hash, a.seq)
  BY <1>1 DEF AnchorsArePrefixes, ChainTypeOK, LedgerHead
<1>4. k \in 1..a.seq
  BY <1>1, <1>2, <1>3
<1> QED
  BY <1>2, <1>3, <1>4 DEF HashOf

LEMMA AlterKeepsInv ==
    ASSUME ChainInv, NEW k \in DOMAIN rows, Alter(k)
    PROVE  ChainInv'
<1>1. /\ edit = NoEdit /\ edit' = EditAt("ALTERED", k)
      /\ UNCHANGED <<head, anchors, anchoring, reading, report>>
  BY DEF Alter
<1>2. PICK e \in Forgery \ {rows[k].entry} : rows' = [rows EXCEPT ![k].entry = e]
  BY DEF Alter
<1>3. /\ Pristine /\ rows \in Seq(LedgerRow) /\ Len(rows) \in Nat /\ k \in 1..Len(rows)
      /\ DOMAIN rows = 1..Len(rows) /\ e \in Entry
  BY <1>1, BeforeTheEdit, ForgeryAssumption
<1>r. rows[k] \in LedgerRow
  BY <1>3
<1>4. rows[k] \in LedgerRow /\ [rows[k] EXCEPT !.entry = e] \in LedgerRow
  BY <1>r, <1>3 DEF LedgerRow
<1>5. /\ rows' \in Seq(LedgerRow) /\ Len(rows') = Len(rows)
      /\ rows'[k] = [rows[k] EXCEPT !.entry = e]
      /\ \A i \in 1..Len(rows) : i # k => rows'[i] = rows[i]
  BY <1>2, <1>3, <1>4
<1>6. ChainTypeOK'
  BY <1>1, <1>3, <1>5 DEF ChainInv, ChainTypeOK, EditAt, AnchoredFrom
<1>7. AlteredAt(k)'
  <2>1. FollowsUpTo(rows', k - 1)
    <3> SUFFICES ASSUME NEW i \in 1..(k - 1) PROVE Follows(rows', i)
      BY DEF FollowsUpTo
    <3>1. rows'[i] = rows[i] /\ (i # 1 => rows'[i - 1] = rows[i - 1]) /\ Follows(rows, i)
      BY <1>3, <1>5 DEF Pristine, FollowsUpTo
    <3> QED
      BY <3>1 DEF Follows, HashBefore
  <2>2. Follows(rows, k)
    BY <1>3 DEF Pristine, FollowsUpTo
  <2>3. rows'[k].seq = k
    BY <2>2, <1>4, <1>5 DEF Follows, LedgerRow
  <2>4. ~Follows(rows', k)
    <3>1. rows[k].hash = Append(rows[k].prev, rows[k].entry) /\ rows[k].prev \in Seq(Entry)
      BY <2>2, <1>4 DEF Follows, Link, LedgerRow, Hash
    <3>2. /\ rows'[k].hash = rows[k].hash /\ rows'[k].prev = rows[k].prev
          /\ rows'[k].entry = e
      BY <1>4, <1>5 DEF LedgerRow
    <3>3. Append(rows[k].prev, rows[k].entry) # Append(rows[k].prev, e)
      <4>1. Append(rows[k].prev, rows[k].entry)[Len(rows[k].prev) + 1] = rows[k].entry
        BY <3>1
      <4>2. Append(rows[k].prev, e)[Len(rows[k].prev) + 1] = e
        BY <3>1
      <4> QED
        BY <4>1, <4>2, <1>2
    <3> QED
      BY <3>1, <3>2, <3>3 DEF Follows, Link
  <2> QED
    BY <2>1, <2>3, <2>4, <1>3, <1>5 DEF AlteredAt
<1>8. Pinned'
  <2> SUFFICES ASSUME AnchoredFrom(k)
               PROVE  \E a \in anchors \cup anchoring : a.seq >= k /\ Misses(a, k)'
    BY <1>1, <1>3, <1>5 DEF Pinned, EditAt
  <2>1. PICK a \in anchors \cup anchoring : a.seq >= k /\ a.hash[k] = rows[k].entry
    BY <1>1, AnchorKnows
  <2>2. rows'[k].entry # a.hash[k]
    BY <2>1, <1>2, <1>4, <1>5 DEF LedgerRow
  <2> QED
    BY <2>1, <2>2 DEF Misses
<1> QED
  BY <1>1, <1>6, <1>7, <1>8 DEF ChainInv, Untouched, EditAt

LEMMA DeleteKeepsInv ==
    ASSUME ChainInv, NEW k \in DOMAIN rows, Delete(k)
    PROVE  ChainInv'
<1>1. /\ edit = NoEdit /\ edit' = EditAt("DELETED", k)
      /\ UNCHANGED <<head, anchors, anchoring, reading, report>>
  BY DEF Delete
<1>3. /\ Pristine /\ rows \in Seq(LedgerRow) /\ Len(rows) \in Nat /\ k \in 1..Len(rows)
  BY <1>1, BeforeTheEdit
<1>4. rows' = [j \in 1..(Len(rows) - 1) |-> IF j < k THEN rows[j] ELSE rows[j + 1]]
  BY DEF Delete
<1>5. /\ rows' \in Seq(LedgerRow) /\ Len(rows') = Len(rows) - 1
      /\ \A i \in 1..(k - 1) : rows'[i] = rows[i]
      /\ k <= Len(rows) - 1 => rows'[k] = rows[k + 1]
  <2>1. Len(rows) - 1 \in Nat
    BY <1>3
  <2>2. rows' \in [1..(Len(rows) - 1) -> LedgerRow]
    BY <1>3, <1>4
  <2>3. rows' \in Seq(LedgerRow)
    BY <2>1, <2>2, SeqDef
  <2>4. Len(rows') = Len(rows) - 1
    BY <2>1, <2>2, <2>3
  <2> QED
    BY <1>3, <1>4, <2>3, <2>4
<1>6. ChainTypeOK'
  BY <1>1, <1>3, <1>5 DEF ChainInv, ChainTypeOK, EditAt, AnchoredFrom
<1>7. DeletedAt(k)'
  <2>1. FollowsUpTo(rows', k - 1)
    <3> SUFFICES ASSUME NEW i \in 1..(k - 1) PROVE Follows(rows', i)
      BY DEF FollowsUpTo
    <3>0. i \in 1..Len(rows) /\ (i # 1 => i - 1 \in 1..(k - 1))
      BY <1>3
    <3>1. rows'[i] = rows[i] /\ (i # 1 => rows'[i - 1] = rows[i - 1]) /\ Follows(rows, i)
      BY <1>3, <1>5, <3>0 DEF Pristine, FollowsUpTo
    <3> QED
      BY <3>1 DEF Follows, HashBefore
  <2>2. Len(HashBefore(rows', k)) = k - 1
    <3>1. CASE k = 1
      BY <3>1 DEF HashBefore, Genesis
    <3>2. CASE k # 1
      <4>1. k - 1 \in 1..(k - 1) /\ k - 1 \in 1..Len(rows)
        BY <3>2, <1>3
      <4> QED
        BY <4>1, <3>2, <1>3, <1>5 DEF HashBefore, Pristine, HashOf
    <3> QED
      BY <3>1, <3>2
  <2>3. k <= Len(rows') => rows'[k].seq = k + 1
    BY <1>3, <1>5 DEF Pristine, FollowsUpTo, Follows
  <2>4. k > Len(rows') => head'.seq = k /\ Len(head'.hash) = k
    <3> SUFFICES ASSUME k > Len(rows') PROVE head.seq = k /\ Len(head.hash) = k
      BY <1>1
    <3>1. k = Len(rows)
      BY <1>3, <1>5
    <3> QED
      BY <3>1, <1>3 DEF Pristine, HashBefore, HashOf
  <2> QED
    BY <2>1, <2>2, <2>3, <2>4, <1>3, <1>5 DEF DeletedAt
<1>8. Pinned'
  <2> SUFFICES ASSUME AnchoredFrom(k)
               PROVE  \E a \in anchors \cup anchoring : a.seq >= k /\ Misses(a, k)'
    BY <1>1, <1>3 DEF Pinned, EditAt
  <2>1. \A a : Misses(a, k)'
    BY <1>7, <1>3, <1>5 DEF Misses, DeletedAt
  <2> QED
    BY <2>1 DEF AnchoredFrom
<1> QED
  BY <1>1, <1>6, <1>7, <1>8 DEF ChainInv, Untouched, EditAt

LEMMA RewriteKeepsInv ==
    ASSUME ChainInv, NEW k \in DOMAIN rows, Rewrite(k)
    PROVE  ChainInv'
<1>1. /\ edit = NoEdit /\ edit' = EditAt("REWRITTEN", k)
      /\ UNCHANGED <<anchors, anchoring, reading, report>>
  BY DEF Rewrite
<1>2. /\ Pristine /\ rows \in Seq(LedgerRow) /\ Len(rows) \in Nat /\ k \in 1..Len(rows)
      /\ DOMAIN rows = 1..Len(rows)
  BY <1>1, BeforeTheEdit
<1>3. PICK e \in Forgery \ {rows[k].entry} :
         LET said == [j \in DOMAIN rows |-> IF j = k THEN e ELSE rows[j].entry]
         IN  /\ rows' = [j \in DOMAIN rows |->
                            [rows[j] EXCEPT !.entry = said[j],
                                            !.prev  = SubSeq(said, 1, j - 1),
                                            !.hash  = SubSeq(said, 1, j)]]
             /\ head' = [head EXCEPT !.hash = said]
  BY DEF Rewrite
<1> DEFINE said == [j \in DOMAIN rows |-> IF j = k THEN e ELSE rows[j].entry]
           forged == [j \in DOMAIN rows |->
                        [rows[j] EXCEPT !.entry = said[j],
                                        !.prev  = SubSeq(said, 1, j - 1),
                                        !.hash  = SubSeq(said, 1, j)]]
<1>4. rows' = forged /\ head' = [head EXCEPT !.hash = said]
  BY <1>3
<1>5. said \in Seq(Entry) /\ Len(said) = Len(rows) /\ said[k] = e
  <2>0. \A j \in 1..Len(rows) : rows[j] \in LedgerRow
    BY <1>2
  <2>1. \A j \in 1..Len(rows) : rows[j].entry \in Entry
    BY <2>0 DEF LedgerRow
  <2>2. said \in [1..Len(rows) -> Entry]
    BY <1>2, <2>1, ForgeryAssumption
  <2>3. said \in Seq(Entry)
    BY <2>2, <1>2, SeqDef
  <2> QED
    BY <2>2, <2>3, <1>2
<1> HIDE DEF said
<1>6. rows' \in Seq(LedgerRow) /\ Len(rows') = Len(rows)
  <2>1. ASSUME NEW j \in 1..Len(rows)
        PROVE  [rows[j] EXCEPT !.entry = said[j],
                               !.prev  = SubSeq(said, 1, j - 1),
                               !.hash  = SubSeq(said, 1, j)] \in LedgerRow
    <3>1. said[j] \in Entry /\ SubSeq(said, 1, j - 1) \in Seq(Entry) /\ SubSeq(said, 1, j) \in Seq(Entry)
      BY <1>2, <1>5, SubSeqProperties
    <3>2. rows[j] \in LedgerRow
      BY <1>2
    <3> QED
      BY <3>1, <3>2 DEF LedgerRow, Hash
  <2>2. forged \in [1..Len(rows) -> LedgerRow]
    BY <1>2, <2>1
  <2> HIDE DEF forged
  <2>3. rows' \in [1..Len(rows) -> LedgerRow] /\ rows' \in Seq(LedgerRow)
    BY <2>2, <1>4, <1>2, SeqDef
  <2> QED
    BY <2>3, <1>2
<1>7. rows'[k].entry = e
  <2>1. rows[k] \in LedgerRow
    BY <1>2
  <2> QED
    BY <2>1, <1>2, <1>4, <1>5 DEF LedgerRow
<1>8. ChainTypeOK'
  <2>1. head' \in LedgerHead
    BY <1>4, <1>5 DEF ChainInv, ChainTypeOK, LedgerHead, Hash
  <2> QED
    BY <2>1, <1>1, <1>2, <1>6 DEF ChainInv, ChainTypeOK, EditAt, AnchoredFrom
<1>9. Pinned'
  <2> SUFFICES ASSUME AnchoredFrom(k)
               PROVE  \E a \in anchors \cup anchoring : a.seq >= k /\ Misses(a, k)'
    BY <1>1, <1>2, <1>6 DEF Pinned, EditAt
  <2>1. PICK a \in anchors \cup anchoring : a.seq >= k /\ a.hash[k] = rows[k].entry
    BY <1>1, AnchorKnows
  <2> QED
    BY <2>1, <1>3, <1>7 DEF Misses
<1> QED
  BY <1>1, <1>8, <1>9 DEF ChainInv, Untouched, EditAt

-----------------------------------------------------------------------------
(* The theorems.                                                            *)

THEOREM ChainInvariant == ChainSpec => []ChainInv
<1>1. ChainInv /\ [ChainNext]_chainVars => ChainInv'
  <2> SUFFICES ASSUME ChainInv, [ChainNext]_chainVars PROVE ChainInv'
    OBVIOUS
  <2>1. ASSUME NEW e \in Entry, PostEntry(e) PROVE ChainInv'
    BY <2>1, PostKeepsInv
  <2>2. CASE AuditNext
    BY <2>2, AuditKeepsInv, EndVerifyKeepsInv DEF AuditNext
  <2>3. CASE Tamper
    BY <2>3, AlterKeepsInv, DeleteKeepsInv, RewriteKeepsInv DEF Tamper
  <2>4. CASE UNCHANGED chainVars
    BY <2>4 DEF chainVars, ChainInv, ChainTypeOK, Untouched, Pristine, PrefixesRead,
                AnchorsArePrefixes, FalseAlarmsExplained, AlteredAt, DeletedAt, Pinned,
                Misses, FollowsUpTo, HashOf
  <2> QED
    BY <2>1, <2>2, <2>3, <2>4 DEF ChainNext
<1> QED
  BY <1>1, ChainInvInit, PTL DEF ChainSpec

\* The rows and the head of an untouched ledger are in order and every anchor
\* is the hash of a prefix of it, for any number of postings and anchors.
THEOREM LedgerStaysIntact == ChainSpec => []Intact
<1>1. ChainInv => Intact
  <2> SUFFICES ASSUME ChainInv, edit = NoEdit
               PROVE  /\ Verdict(rows, head.hash).reason = "VALID"
                      /\ head.seq = Len(rows)
                      /\ \A a \in anchors \cup anchoring : AnchorHolds(a)
    BY DEF Intact
  <2>1. Pristine /\ AnchorsArePrefixes /\ rows \in Seq(LedgerRow) /\ DOMAIN rows = 1..Len(rows)
    BY BeforeTheEdit
  <2>2. Verdict(rows, head.hash).reason = "VALID" /\ head.seq = Len(rows)
    BY <2>1, AllFollow DEF Pristine
  <2>3. ASSUME NEW a \in anchors \cup anchoring PROVE AnchorHolds(a)
    <3> SUFFICES ASSUME NEW i \in 1..a.seq
                 PROVE  i \in DOMAIN rows /\ rows[i].seq = i /\ rows[i].entry = a.hash[i]
      BY DEF AnchorHolds
    <3>1. a.seq \in Nat /\ a.seq <= Len(rows) /\ HashOf(a.hash, a.seq) /\ Len(rows) \in Nat
      BY <2>1 DEF ChainInv, ChainTypeOK, AnchorsArePrefixes, LedgerHead
    <3>2. i \in 1..Len(rows)
      BY <3>1
    <3> QED
      BY <3>1, <3>2, <2>1 DEF HashOf, Pristine, FollowsUpTo, Follows
  <2> QED
    BY <2>2, <2>3
<1> QED
  BY <1>1, ChainInvariant, PTL

\* A verification of an untouched ledger names no row, and a diverged head
\* only when it was overtaken by a posting.
THEOREM FalseAlarmsAreExplained == ChainSpec => []FalseAlarmsExplained
<1>1. ChainInv => FalseAlarmsExplained
  BY DEF ChainInv, Untouched, FalseAlarmsExplained, NoEdit
<1> QED
  BY <1>1, ChainInvariant, PTL

\* An altered or a deleted row is found, whatever is posted after it.
THEOREM TamperingIsFound == ChainSpec => []TamperingFound
<1>1. ChainInv => TamperingFound
  <2> SUFFICES ASSUME ChainInv PROVE TamperingFound
    OBVIOUS
  <2> DEFINE k == edit.seq
             v == Verdict(rows, head.hash)
  <2>1. rows \in Seq(LedgerRow) /\ Len(rows) \in Nat /\ k \in Nat
    BY DEF ChainInv, ChainTypeOK
  <2>2. ASSUME edit.kind = "ALTERED" PROVE v.reason = "BROKEN_ROW" /\ v.at = k
    <3>1. AlteredAt(k)
      BY <2>2 DEF ChainInv
    <3> QED
      BY <3>1, <2>1, FirstBroken DEF AlteredAt
  <2>3. ASSUME edit.kind = "DELETED", Len(rows) < k PROVE v.reason = "HEAD_HASH_DIVERGED"
    <3>1. DeletedAt(k)
      BY <2>3 DEF ChainInv
    <3>2. Len(rows) = k - 1
      BY <3>1, <2>1, <2>3 DEF DeletedAt
    <3>3. FollowsUpTo(rows, Len(rows)) /\ head.hash # HashBefore(rows, Len(rows) + 1)
      BY <3>1, <3>2, <2>1, <2>3 DEF DeletedAt
    <3> QED
      BY <3>3, <2>1, AllFollow
  <2>4. ASSUME edit.kind = "DELETED", Len(rows) >= k
        PROVE  v.reason = "BROKEN_ROW" /\ v.at = k + 1
    <3>1. DeletedAt(k)
      BY <2>4 DEF ChainInv
    <3>2. k \in 1..Len(rows) /\ rows[k].seq = k + 1 /\ FollowsUpTo(rows, k - 1)
      BY <3>1, <2>1, <2>4 DEF DeletedAt
    <3>3. ~Follows(rows, k)
      BY <3>2, <2>1 DEF Follows
    <3> QED
      BY <3>2, <3>3, <2>1, FirstBroken
  <2> QED
    BY <2>1, <2>2, <2>3, <2>4 DEF TamperingFound
<1> QED
  BY <1>1, ChainInvariant, PTL

\* Whatever is changed at or before an anchored row fails the anchors.
THEOREM AnchorsPin == ChainSpec => []AnchorsPinThePast
<1>1. ChainInv => AnchorsPinThePast
  <2> SUFFICES ASSUME ChainInv, edit.anchored, anchoring = {} PROVE ~AnchorsValid
    BY DEF AnchorsPinThePast
  <2>1. PICK a \in anchors : a.seq >= edit.seq /\ Misses(a, edit.seq)
    BY DEF ChainInv, Pinned
  <2>2. edit.seq \in 1..a.seq /\ DOMAIN rows = 1..Len(rows) /\ Len(rows) \in Nat
    BY <2>1 DEF ChainInv, ChainTypeOK, Pinned, LedgerHead
  <2>3. ~AnchorHolds(a)
    BY <2>1, <2>2 DEF AnchorHolds, Misses
  <2> QED
    BY <2>3 DEF AnchorsValid
<1> QED
  BY <1>1, ChainInvariant, PTL
-----------------------------------------------------------------------------
(* The books: what settlement and the ledger promise, they promise together. *)

\* Every batch is worth the royalties of some set of orders.
TotalsAreSums == \A b \in Batches : \E S \in SUBSET Orders : total[b] = Owed(S)

LEMMA SettlementStep == [BooksNext]_bookVars => [Next]_vars
<1> SUFFICES ASSUME [BooksNext]_bookVars PROVE [Next]_vars
  OBVIOUS
<1>1. CASE \E o \in Orders : Sale(o)
  BY <1>1 DEF Sale, Next
<1>2. ASSUME NEW b \in Batches, Approving(b) \/ NothingToApprove(b) \/ Paying(b) \/ PaidAlready(b)
      PROVE  [Next]_vars
  BY <1>2 DEF Approving, NothingToApprove, Paying, PaidAlready, Next
<1>3. CASE \E r \in Request : Pass(r)
  BY <1>3 DEF Pass
<1>4. CASE EngageSwitch \/ ReleaseSwitch
  BY <1>4 DEF EngageSwitch, ReleaseSwitch
<1>5. CASE Audit
  BY <1>5 DEF Audit, ReadLiabilities, ReadSum, StoreAttestation
<1>6. CASE Tampering
  BY <1>6 DEF Tampering
<1>7. CASE UNCHANGED bookVars
  BY <1>7 DEF bookVars
<1> QED
  BY <1>1, <1>2, <1>3, <1>4, <1>5, <1>6, <1>7 DEF BooksNext

\* The switch and the audits add no step to the settlements.
THEOREM BooksSettle == BooksSpec => Spec
<1>1. BooksInit => Init
  BY DEF BooksInit
<1> QED
  BY <1>1, SettlementStep, PTL DEF BooksSpec, Spec

LEMMA TotalsInit == BooksInit => TotalsAreSums
<1> SUFFICES ASSUME BooksInit, NEW b \in Batches
             PROVE  \E S \in SUBSET Orders : total[b] = Owed(S)
  BY DEF TotalsAreSums
<1>1. total[b] = 0 /\ Owed({}) = 0
  BY EmptySum DEF BooksInit, Init, Owed
<1> QED
  BY <1>1

LEMMA TotalsNext == TypeOK /\ TotalsAreSums /\ [Next]_vars => TotalsAreSums'
<1> SUFFICES ASSUME TypeOK, TotalsAreSums, [Next]_vars PROVE TotalsAreSums'
  OBVIOUS
<1>0. \A S : Owed(S)' = Owed(S)
  BY DEF Owed, Sum, Tokens
<1>1. ASSUME NEW b \in Batches, CommitApprove(b) PROVE TotalsAreSums'
  <2>1. selected[b] \in SUBSET Orders /\ total' = [total EXCEPT ![b] = Owed(selected[b])]
    BY <1>1 DEF TypeOK, CommitApprove, LockAccruals
  <2>2. ASSUME NEW c \in Batches PROVE \E S \in SUBSET Orders : total'[c] = Owed(S)
    <3>1. CASE c = b
      BY <2>1, <3>1 DEF TypeOK
    <3>2. CASE c # b
      BY <2>1, <3>2 DEF TypeOK, TotalsAreSums
    <3> QED
      BY <3>1, <3>2
  <2> QED
    BY <1>0, <2>2 DEF TotalsAreSums
<1>2. CASE UNCHANGED total
  BY <1>0, <1>2 DEF TotalsAreSums
<1>3. (\E b \in Batches : CommitApprove(b)) \/ UNCHANGED total
  BY DEF Next, CaptureSale, FulfilSale, RefundSale, BeginApprove, AbortApprove, BeginPay, CommitPay,
         AbortPay, RefusePay, Settle, batchVars, vars
<1> QED
  BY <1>1, <1>2, <1>3

LEMMA ChainStep == TotalsAreSums /\ [BooksNext]_bookVars => [ChainNext]_chainVars
<1> SUFFICES ASSUME TotalsAreSums, [BooksNext]_bookVars PROVE [ChainNext]_chainVars
  OBVIOUS
<1>0. ASSUME NEW type, NEW fils, Row(type, fils) \in Entry, Posting(type, fils)
      PROVE  [ChainNext]_chainVars
  BY <1>0 DEF Posting, ChainNext
<1>1. ASSUME NEW o \in Orders, Sale(o) PROVE [ChainNext]_chainVars
  BY <1>0, <1>1, EntryAssumption DEF Sale, Accruing
<1>2. ASSUME NEW b \in Batches, Approving(b) \/ NothingToApprove(b) \/ PaidAlready(b)
      PROVE  [ChainNext]_chainVars
  BY <1>2 DEF Approving, NothingToApprove, PaidAlready, Accruing, Aside
<1>3. ASSUME NEW b \in Batches, Paying(b) PROVE [ChainNext]_chainVars
  <2>1. Row("SETTLEMENT_PAID", total[b]) \in Entry
    BY EntryAssumption DEF TotalsAreSums
  <2> QED
    BY <1>0, <1>3, <2>1 DEF Paying, Aside
<1>4. CASE \E r \in Request : Pass(r)
  BY <1>4 DEF Pass, Aside
<1>5. CASE EngageSwitch \/ ReleaseSwitch
  BY <1>5 DEF EngageSwitch, ReleaseSwitch, Aside
<1>6. CASE Audit
  BY <1>6 DEF Audit, ReadLiabilities, ReadSum, StoreAttestation, ChainNext, AuditNext
<1>7. CASE Tampering
  BY <1>7 DEF Tampering, ChainNext
<1>8. CASE UNCHANGED bookVars
  BY <1>8 DEF bookVars
<1> QED
  BY <1>1, <1>2, <1>3, <1>4, <1>5, <1>6, <1>7, <1>8 DEF BooksNext

\* Whatever settlement posts, the ledger sees as postings of its own: rows of
\* an amount it admits, one by one, each with the hash of the one before.
THEOREM BooksKeepTheLedger == BooksSpec => ChainSpec
<1>1. BooksInit => ChainInit
  BY DEF BooksInit
<1>2. BooksSpec => []TypeOK
  BY BooksSettle, TypeCorrect, PTL
<1> QED
  BY <1>1, <1>2, ChainStep, SettlementStep, TotalsInit, TotalsNext, PTL DEF BooksSpec, ChainSpec

-----------------------------------------------------------------------------
(* The amounts in the rows of the ledger.                                   *)

\* The sum of the rows rs that have a type.
OfType(rs, type)  == {i \in DOMAIN rs : rs[i].entry.type = type}
AmountIn(rs)      == [i \in DOMAIN rs |-> rs[i].entry.fils]
SumIn(rs, type)   == Sum(OfType(rs, type), AmountIn(rs))

LEMMA SumOfIsSumIn ==
    ASSUME NEW type
    PROVE  SumOf(type) = SumIn(rows, type) /\ SumOf(type)' = SumIn(rows', type)
<1>1. /\ UNION {{i} \X (1..rows[i].entry.fils) : i \in RowsOf(type)}
            = Tokens(OfType(rows, type), AmountIn(rows))
      /\ (UNION {{i} \X (1..rows[i].entry.fils) : i \in RowsOf(type)})'
            = Tokens(OfType(rows', type), AmountIn(rows'))
  BY DEF Tokens, OfType, AmountIn, RowsOf
<1> QED
  BY <1>1 DEF SumOf, SumIn, Sum

LEMMA RowAmounts ==
    ASSUME NEW rs \in Seq(LedgerRow)
    PROVE  /\ IsFiniteSet(DOMAIN rs) /\ DOMAIN rs = 1..Len(rs) /\ Len(rs) \in Nat
           /\ AmountIn(rs) \in [DOMAIN rs -> Nat]
           /\ \A type : OfType(rs, type) \in SUBSET DOMAIN rs /\ SumIn(rs, type) \in Nat
<1>1. DOMAIN rs = 1..Len(rs) /\ Len(rs) \in Nat
  OBVIOUS
<1>2. IsFiniteSet(1..Len(rs))
  BY <1>1, FS_Interval
<1>3. ASSUME NEW i \in DOMAIN rs PROVE rs[i].entry.fils \in Nat
  <2>1. rs[i] \in LedgerRow
    BY <1>1
  <2>2. rs[i].entry \in [type : EntryType, fils : Nat]
    BY <2>1, EntryAssumption DEF LedgerRow
  <2> QED
    BY <2>2
<1>4. AmountIn(rs) \in [DOMAIN rs -> Nat]
  BY <1>3 DEF AmountIn
<1>5. ASSUME NEW type PROVE OfType(rs, type) \in SUBSET DOMAIN rs /\ SumIn(rs, type) \in Nat
  <2>1. OfType(rs, type) \in SUBSET DOMAIN rs
    BY DEF OfType
  <2> QED
    BY <1>1, <1>2, <1>4, <2>1, AmountsFinite DEF SumIn
<1> QED
  BY <1>1, <1>2, <1>4, <1>5

\* A row more adds its amount to the sum of its type.
LEMMA OneMoreRow ==
    ASSUME NEW rs \in Seq(LedgerRow), NEW row \in LedgerRow, NEW type
    PROVE  SumIn(Append(rs, row), type) =
              SumIn(rs, type) + (IF row.entry.type = type THEN row.entry.fils ELSE 0)
<1> DEFINE more == Append(rs, row)
           k    == Len(rs) + 1
<1>1. /\ more \in Seq(LedgerRow) /\ Len(more) = k /\ more[k] = row
      /\ \A i \in 1..Len(rs) : more[i] = rs[i]
      /\ Len(rs) \in Nat
  OBVIOUS
<1> HIDE DEF more
<1>2. /\ IsFiniteSet(DOMAIN rs) /\ DOMAIN rs = 1..Len(rs)
      /\ OfType(rs, type) \in SUBSET DOMAIN rs /\ SumIn(rs, type) \in Nat
  BY RowAmounts
<1>3. /\ IsFiniteSet(DOMAIN more) /\ DOMAIN more = 1..k
      /\ AmountIn(more) \in [DOMAIN more -> Nat]
  BY <1>1, RowAmounts
<1>4. \A i \in OfType(rs, type) : AmountIn(rs)[i] = AmountIn(more)[i]
  BY <1>1, <1>2, <1>3 DEF OfType, AmountIn
<1>5. SumIn(rs, type) = Sum(OfType(rs, type), AmountIn(more))
  BY <1>4, SameAmounts DEF SumIn
<1>6. CASE row.entry.type = type
  <2>1. OfType(more, type) = OfType(rs, type) \cup {k} /\ k \notin OfType(rs, type)
    BY <1>1, <1>2, <1>3, <1>6 DEF OfType
  <2>2. AmountIn(more)[k] = row.entry.fils
    BY <1>1, <1>3 DEF AmountIn
  <2>3. OfType(rs, type) \in SUBSET DOMAIN more /\ k \in DOMAIN more
    BY <1>1, <1>2, <1>3
  <2>4. SumIn(more, type) = Sum(OfType(rs, type), AmountIn(more)) + AmountIn(more)[k]
    BY <1>3, <2>1, <2>3, OneMoreAmount DEF SumIn
  <2> QED
    BY <1>5, <1>6, <2>2, <2>4 DEF more
<1>7. CASE row.entry.type # type
  <2>1. OfType(more, type) = OfType(rs, type)
    BY <1>1, <1>2, <1>3, <1>7 DEF OfType
  <2> QED
    BY <1>2, <1>5, <1>7, <2>1 DEF more, SumIn
<1> QED
  BY <1>6, <1>7

-----------------------------------------------------------------------------
(* The attestation.                                                         *)

\* Until a row is changed behind its back, the ledger's rows of a type come
\* to what settlement posted under it.
LedgerAgrees == edit = NoEdit => \A type \in EntryType : SumOf(type) = ledger[type]

\* What an attestation has read still holds if nothing crossed it.
ReadStillTrue ==
    /\ attesting \in Seq(Nat) /\ Len(attesting) <= 4
    /\ quiet => /\ Len(attesting) >= 1 => attesting[1] = Liabilities
                /\ \A i \in 1..3 : Len(attesting) > i => attesting[i + 1] = SumOf(ReadOrder[i])

AttestInv == TypeOK /\ ChainTypeOK /\ TotalsAreSums /\ LedgerAgrees /\ ReadStillTrue

LEMMA LedgerAgreesInit == BooksInit => LedgerAgrees
<1> SUFFICES ASSUME BooksInit, NEW type \in EntryType PROVE SumOf(type) = 0 /\ ledger[type] = 0
  BY DEF LedgerAgrees
<1>1. rows = <<>>
  BY DEF BooksInit, ChainInit
<1>2. OfType(rows, type) = {}
  BY <1>1 DEF OfType
<1> QED
  BY <1>2, SumOfIsSumIn, EmptySum DEF SumIn, BooksInit, Init

LEMMA LiabilitiesStay ==
    ASSUME UNCHANGED accrual
    PROVE  Liabilities' = Liabilities
BY DEF Liabilities, Owed, Sum, Tokens, With

LEMMA LiabilitiesType == Liabilities \in Nat
BY OwedType DEF Liabilities, With

\* A posting enters the ledger's rows and settlement's account of it alike.
LEMMA PostingAgrees ==
    ASSUME AttestInv, NEW type \in EntryType, NEW fils \in Nat, Row(type, fils) \in Entry,
           Post(type, fils), PostEntry(Row(type, fils))
    PROVE  LedgerAgrees'
<1> SUFFICES ASSUME edit = NoEdit, NEW t \in EntryType PROVE SumOf(t)' = ledger'[t]
  BY DEF LedgerAgrees, PostEntry
<1>1. /\ rows \in Seq(LedgerRow) /\ head \in LedgerHead
      /\ SumOf(t) = ledger[t] /\ ledger \in [EntryType -> Nat]
  BY DEF AttestInv, ChainTypeOK, TypeOK, LedgerAgrees
<1>2. NextRow(Row(type, fils)) \in LedgerRow
  BY <1>1 DEF NextRow, LedgerRow, LedgerHead, Hash, Link
<1>3. rows' = Append(rows, NextRow(Row(type, fils)))
  BY DEF PostEntry
<1>4. NextRow(Row(type, fils)).entry.type = type /\ NextRow(Row(type, fils)).entry.fils = fils
  BY DEF NextRow, Row
<1>5. SumIn(rows', t) = SumIn(rows, t) + (IF type = t THEN fils ELSE 0)
  BY <1>1, <1>2, <1>3, <1>4, OneMoreRow
<1>6. ledger'[t] = ledger[t] + (IF type = t THEN fils ELSE 0)
  BY <1>1 DEF Post
<1> QED
  BY <1>1, <1>5, <1>6, SumOfIsSumIn

\* The kinds of steps, as an attestation sees them.
Crossing == quiet' = FALSE /\ UNCHANGED <<attesting, attested>>

APosting ==
    \E type \in EntryType, fils \in Nat :
        /\ Row(type, fils) \in Entry /\ Post(type, fils) /\ PostEntry(Row(type, fils))
        /\ Crossing

AMove   == UNCHANGED <<ledger, rows, edit>> /\ Crossing
AChange == edit' # NoEdit /\ Crossing
ASide   == UNCHANGED <<accrual, ledger, rows, edit, attesting, attested, quiet>>

LEMMA StepKinds ==
    ASSUME AttestInv, [BooksNext]_bookVars
    PROVE  APosting \/ AMove \/ AChange \/ ASide \/ ReadLiabilities \/ ReadSum \/ StoreAttestation
<1> USE DEF Crossing, Aside, attestVars, switchVars
<1>1. ASSUME NEW o \in Orders, Sale(o)
      PROVE  APosting \/ AMove
  <2>1. CASE CaptureSale(o) /\ Posting("PAYMENT_CAPTURED", Price[o])
    <3>1. /\ Row("PAYMENT_CAPTURED", Price[o]) \in Entry /\ Price[o] \in Nat
          /\ "PAYMENT_CAPTURED" \in EntryType
      BY EntryAssumption, AmountsAssumption DEF EntryType
    <3> QED
      BY <1>1, <2>1, <3>1 DEF Sale, CaptureSale, Posting, APosting
  <2>2. CASE FulfilSale(o) /\ Accruing
    BY <1>1, <2>2 DEF Sale, FulfilSale, Accruing, chainVars, AMove
  <2>3. CASE RefundSale(o) /\ Posting("PAYMENT_REFUNDED", Price[o])
    <3>1. /\ Row("PAYMENT_REFUNDED", Price[o]) \in Entry /\ Price[o] \in Nat
          /\ "PAYMENT_REFUNDED" \in EntryType
      BY EntryAssumption, AmountsAssumption DEF EntryType
    <3> QED
      BY <1>1, <2>3, <3>1 DEF Sale, RefundSale, Posting, APosting
  <2> QED
    BY <1>1, <2>1, <2>2, <2>3 DEF Sale
<1>2. ASSUME NEW b \in Batches, Approving(b) PROVE AMove \/ ASide
  BY <1>2 DEF Approving, BeginApprove, CommitApprove, AbortApprove, Accruing, chainVars,
              saleVars, AMove, ASide
<1>3. ASSUME NEW b \in Batches, NothingToApprove(b) \/ PaidAlready(b) PROVE ASide
  BY <1>3 DEF NothingToApprove, PaidAlready, vars, chainVars, ASide
<1>4. ASSUME NEW b \in Batches, Paying(b) PROVE APosting \/ ASide
  <2>1. CASE CommitPay(b) /\ Posting("SETTLEMENT_PAID", total[b])
    <3>1. /\ Row("SETTLEMENT_PAID", total[b]) \in Entry /\ total[b] \in Nat
          /\ "SETTLEMENT_PAID" \in EntryType
      BY EntryAssumption DEF EntryType, AttestInv, TotalsAreSums, TypeOK
    <3>2. UNCHANGED <<attesting, attested>>
      BY <1>4, <2>1 DEF Paying, Posting
    <3> QED
      BY <2>1, <3>1, <3>2 DEF CommitPay, Settle, Posting, APosting
  <2>2. CASE BeginPay(b) /\ Aside
    BY <2>2 DEF BeginPay, saleVars, chainVars, ASide
  <2>3. CASE AbortPay(b) /\ Aside
    BY <2>3 DEF AbortPay, saleVars, chainVars, ASide
  <2>4. CASE RefusePay(b) /\ Aside
    BY <2>4 DEF RefusePay, saleVars, chainVars, ASide
  <2> QED
    BY <1>4, <2>1, <2>2, <2>3, <2>4 DEF Paying
<1>5. ASSUME NEW r \in Request, Pass(r) PROVE ASide
  BY <1>5 DEF Pass, vars, chainVars, ASide
<1>6. CASE EngageSwitch \/ ReleaseSwitch
  BY <1>6 DEF EngageSwitch, ReleaseSwitch, vars, chainVars, ASide
<1>7. CASE Audit
  BY <1>7 DEF Audit, BeginVerify, EndVerify, BeginAnchor, EndAnchor, vars, ASide
<1>8. CASE Tampering
  <2>1. PICK i : \E kind \in {"ALTERED", "DELETED", "REWRITTEN"} : edit' = EditAt(kind, i)
    <3>1. PICK i \in DOMAIN rows : Alter(i) \/ Delete(i) \/ Rewrite(i)
      BY <1>8 DEF Tampering, Tamper
    <3>2. Alter(i) => edit' = EditAt("ALTERED", i)
      BY DEF Alter
    <3>3. Delete(i) => edit' = EditAt("DELETED", i)
      BY DEF Delete
    <3>4. Rewrite(i) => edit' = EditAt("REWRITTEN", i)
      BY DEF Rewrite
    <3> QED
      BY <3>1, <3>2, <3>3, <3>4
  <2>2. edit' # NoEdit
    <3>1. PICK kind \in {"ALTERED", "DELETED", "REWRITTEN"} : edit' = EditAt(kind, i)
      BY <2>1
    <3>2. EditAt(kind, i).kind # NoEdit.kind
      BY DEF EditAt, NoEdit
    <3> QED
      BY <3>1, <3>2
  <2> QED
    BY <1>8, <2>2 DEF Tampering, AChange
<1>9. CASE UNCHANGED bookVars
  BY <1>9 DEF bookVars, vars, chainVars, ASide
<1> QED
  BY <1>1, <1>2, <1>3, <1>4, <1>5, <1>6, <1>7, <1>8, <1>9 DEF BooksNext

LEMMA AttestationKeeps ==
    ASSUME AttestInv, [BooksNext]_bookVars
    PROVE  LedgerAgrees' /\ ReadStillTrue'
<1>0. /\ LedgerAgrees /\ ReadStillTrue
      /\ attesting \in Seq(Nat) /\ Len(attesting) <= 4 /\ rows \in Seq(LedgerRow)
  BY DEF AttestInv, ReadStillTrue, ChainTypeOK
<1>1. ASSUME Crossing PROVE ReadStillTrue'
  BY <1>0, <1>1 DEF Crossing, ReadStillTrue
<1>2. ASSUME UNCHANGED rows PROVE \A type : SumOf(type)' = SumOf(type)
  BY <1>2 DEF SumOf, RowsOf
<1>3. ASSUME UNCHANGED <<ledger, rows, edit>> PROVE LedgerAgrees'
  BY <1>0, <1>2, <1>3 DEF LedgerAgrees
<1>4. CASE APosting
  BY <1>1, <1>4, PostingAgrees DEF APosting
<1>5. CASE AMove
  BY <1>1, <1>3, <1>5 DEF AMove
<1>6. CASE AChange
  BY <1>1, <1>6 DEF AChange, LedgerAgrees
<1>7. CASE ASide
  <2>1. ReadStillTrue'
    BY <1>0, <1>2, <1>7, LiabilitiesStay DEF ASide, ReadStillTrue
  <2> QED
    BY <1>3, <1>7, <2>1 DEF ASide
<1>8. CASE ReadLiabilities
  <2>1. /\ attesting' = <<Liabilities>> /\ UNCHANGED <<accrual, ledger, rows, edit>>
    BY <1>8 DEF ReadLiabilities, vars, chainVars
  <2>2. Liabilities' = Liabilities /\ Liabilities \in Nat
    BY <2>1, LiabilitiesStay, LiabilitiesType
  <2>3. attesting' \in Seq(Nat) /\ Len(attesting') = 1 /\ attesting'[1] = Liabilities
    BY <2>1, <2>2
  <2>4. ReadStillTrue'
    BY <2>2, <2>3 DEF ReadStillTrue
  <2> QED
    BY <1>3, <2>1, <2>4
<1>9. CASE ReadSum
  <2> DEFINE n == Len(attesting)
             fils == SumOf(ReadOrder[n])
  <2>1. /\ n \in 1..3 /\ attesting' = Append(attesting, fils)
        /\ UNCHANGED <<accrual, ledger, rows, edit, quiet>>
    BY <1>9 DEF ReadSum, vars, chainVars
  <2>2. fils \in Nat
    BY <1>0, SumOfIsSumIn, RowAmounts
  <2> HIDE DEF fils
  <2>3. /\ attesting' \in Seq(Nat) /\ Len(attesting') = n + 1 /\ attesting'[n + 1] = fils
        /\ \A i \in 1..n : attesting'[i] = attesting[i]
    BY <1>0, <2>1, <2>2
  <2>4. /\ Liabilities' = Liabilities
        /\ \A type : SumOf(type)' = SumOf(type)
    BY <1>2, <2>1, LiabilitiesStay
  <2>5. ASSUME quiet
        PROVE  /\ attesting'[1] = Liabilities
               /\ \A i \in 1..3 : n + 1 > i => attesting'[i + 1] = SumOf(ReadOrder[i])
    <3>1. attesting'[1] = Liabilities
      BY <1>0, <2>1, <2>3, <2>5 DEF ReadStillTrue
    <3>2. ASSUME NEW i \in 1..3, n + 1 > i PROVE attesting'[i + 1] = SumOf(ReadOrder[i])
      <4>1. CASE i = n
        BY <2>3, <4>1 DEF fils
      <4>2. CASE i # n
        <5>1. n > i /\ i + 1 \in 1..n
          BY <2>1, <3>2, <4>2
        <5> QED
          BY <1>0, <2>3, <2>5, <5>1 DEF ReadStillTrue
      <4> QED
        BY <4>1, <4>2
    <3> QED
      BY <3>1, <3>2
  <2>6. ReadStillTrue'
    BY <2>1, <2>3, <2>4, <2>5 DEF ReadStillTrue, ReadOrder
  <2> QED
    BY <1>3, <2>1, <2>6
<1>10. CASE StoreAttestation
  <2>1. attesting' = <<>> /\ UNCHANGED <<ledger, rows, edit>>
    BY <1>10 DEF StoreAttestation, vars, chainVars
  <2>2. ReadStillTrue'
    BY <2>1 DEF ReadStillTrue
  <2> QED
    BY <1>3, <2>1, <2>2
<1> QED
  BY <1>4, <1>5, <1>6, <1>7, <1>8, <1>9, <1>10, StepKinds

LEMMA AttestationTrue ==
    ASSUME AttestInv, [BooksNext]_bookVars, attested' # attested, quiet, edit = NoEdit
    PROVE  /\ attested'.liabilities = Liabilities
           /\ attested'.reserve     = Reserve
           /\ attested'.solvent     = (Liabilities <= Reserve)
           /\ attested'.head        = head.hash
<1>1. StoreAttestation
  BY StepKinds DEF APosting, AMove, AChange, ASide, Crossing, ReadLiabilities, ReadSum
<1>2. Len(attesting) = 4 /\ ReadStillTrue /\ LedgerAgrees /\ ledger \in [EntryType -> Nat]
  BY <1>1 DEF StoreAttestation, AttestInv, TypeOK
<1>3. attesting[1] = Liabilities /\ Liabilities \in Nat
  BY <1>2, LiabilitiesType DEF ReadStillTrue
<1>4. \A i \in 1..3 : attesting[i + 1] = SumOf(ReadOrder[i])
  BY <1>2 DEF ReadStillTrue
<1>5. /\ attesting[2] = SumOf("PAYMENT_CAPTURED")
      /\ attesting[3] = SumOf("SETTLEMENT_PAID")
      /\ attesting[4] = SumOf("PAYMENT_REFUNDED")
  BY <1>4 DEF ReadOrder
<1>6. /\ attesting[2] = ledger["PAYMENT_CAPTURED"]
      /\ attesting[3] = ledger["SETTLEMENT_PAID"]
      /\ attesting[4] = ledger["PAYMENT_REFUNDED"]
  BY <1>2, <1>5 DEF LedgerAgrees, EntryType
<1>7. ReserveOf(attesting) = Reserve /\ Reserve \in Int
  BY <1>2, <1>6 DEF ReserveOf, Reserve, EntryType
<1>8. attested' = [liabilities |-> attesting[1],
                   reserve     |-> ReserveOf(attesting),
                   solvent     |-> ReserveOf(attesting) >= attesting[1],
                   head        |-> head.hash]
  BY <1>1 DEF StoreAttestation
<1>9. (Reserve >= Liabilities) = (Liabilities <= Reserve)
  BY <1>3, <1>7
<1> QED
  BY <1>3, <1>7, <1>8, <1>9

\* A reserve attestation that no posting, accrual or tampering crossed is the
\* truth about the books: the three sums it adds up from the ledger's rows,
\* read one by one with requests in between, are what settlement posted, and
\* the liabilities those it owes, on either database.
THEOREM AttestationsAreTrue == BooksSpec => AttestsTheBooks
<1>1. BooksSpec => []TypeOK /\ []ChainTypeOK
  <2>1. ChainInv => ChainTypeOK
    BY DEF ChainInv
  <2> QED
    BY <2>1, BooksSettle, BooksKeepTheLedger, TypeCorrect, ChainInvariant, PTL
<1>2. BooksInit => ReadStillTrue
  BY DEF BooksInit, ReadStillTrue
<1>3. TypeOK /\ ChainTypeOK /\ TotalsAreSums /\ LedgerAgrees /\ ReadStillTrue /\ [BooksNext]_bookVars
        => LedgerAgrees' /\ ReadStillTrue'
  BY AttestationKeeps DEF AttestInv
<1>4. TypeOK /\ ChainTypeOK /\ TotalsAreSums /\ LedgerAgrees /\ ReadStillTrue /\ [BooksNext]_bookVars
        => [attested' # attested /\ quiet /\ edit = NoEdit =>
               /\ attested'.liabilities = Liabilities
               /\ attested'.reserve     = Reserve
               /\ attested'.solvent     = (Liabilities <= Reserve)
               /\ attested'.head        = head.hash]_bookVars
  BY AttestationTrue DEF AttestInv
<1> QED
  BY <1>1, <1>2, <1>3, <1>4, TotalsInit, TotalsNext, LedgerAgreesInit, SettlementStep,
     PTL DEF BooksSpec, AttestsTheBooks

-----------------------------------------------------------------------------
(* What the parts promise holds of the whole.                               *)

\* While requests pass the switch and audits run, the ledger of the books
\* stays intact, cries no false alarm and shows every change made behind the
\* program's back; with serialised transactions the payouts are the royalties
\* paid, the reserve covers what is owed and royalties behave as promised.
THEOREM BooksKeepTheirPromises ==
    BooksSpec => /\ [](Intact /\ FalseAlarmsExplained /\ TamperingFound /\ AnchorsPinThePast)
                 /\ Dialect = "sqlite" =>
                       [](PayoutsMatchRoyalties /\ Solvent) /\ ImplementsAccount
<1>1. BooksSpec => [](Intact /\ FalseAlarmsExplained /\ TamperingFound /\ AnchorsPinThePast)
  BY BooksKeepTheLedger, LedgerStaysIntact, FalseAlarmsAreExplained, TamperingIsFound, AnchorsPin, PTL
<1>2. ASSUME Dialect = "sqlite"
      PROVE  BooksSpec => [](PayoutsMatchRoyalties /\ Solvent) /\ ImplementsAccount
  <2>1. /\ Spec => []PayoutsMatchRoyalties
        /\ Spec => []Solvent
        /\ Spec => ImplementsAccount
    BY <1>2, PayoutsNeverDiverge, BooksStaySolvent, SettlementImplementsAccount
  <2> QED
    BY <2>1, BooksSettle, PTL
<1> QED
  BY <1>1, <1>2
=============================================================================
