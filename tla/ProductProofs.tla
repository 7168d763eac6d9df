---------------------------- MODULE ProductProofs ----------------------------
(***************************************************************************)
(* Theorems about the two ways a recipe is shown and about the memory      *)
(* capsule, for any number of requests in progress and any parameters of   *)
(* a grant.  That the budget holds needs nothing of its decay; that it     *)
(* stays closed needs that strength never comes back.                      *)
(***************************************************************************)
EXTENDS ExposureBudget, SecretEscrow, MemoryCapsule, WellFoundedInduction, TLAPS

-----------------------------------------------------------------------------
(* Exposure grants.                                                         *)

Reads(l) == look[l].step = "READING"

\* Whoever read the row holds it, so that what it read is still so.
ReadIsCurrent ==
    /\ \A l \in Looks : Reads(l) =>
          look[l].seen = grant.uses /\ (look[l].revoked <=> grant.status = "REVOKED")
    /\ \A l, m \in Looks : Reads(l) /\ Reads(m) => l = m

ExposureInv == ExposureTypeOK /\ ReadIsCurrent /\ BudgetHolds

LEMMA ExposureInitInv == ExposureInit => ExposureInv
BY TimeAssumption
DEF ExposureInit, ExposureInv, ExposureTypeOK, ReadIsCurrent, BudgetHolds, Reads, NoLook,
    GrantStatus, LookStep

\* A request that only moves itself.
LEMMA LookMoves ==
    ASSUME ExposureInv, NEW l \in Looks,
           UNCHANGED <<grant, hour, reveals, spent, shutAt>>,
           look' \in [Looks -> [step : LookStep, at : Nat, seen : Nat, revoked : BOOLEAN]],
           \A m \in Looks : m # l => look'[m] = look[m],
           look'[l].step = "READING" =>
              /\ look'[l].seen = grant.uses
              /\ look'[l].revoked <=> grant.status = "REVOKED"
              /\ GrantFree
    PROVE  ExposureInv'
<1>1. ExposureTypeOK'
  BY DEF ExposureInv, ExposureTypeOK
<1>2. BudgetHolds'
  BY DEF ExposureInv, BudgetHolds
<1>3. ReadIsCurrent'
  <2>1. ASSUME NEW m \in Looks, Reads(m)'
        PROVE  look'[m].seen = grant.uses /\ (look'[m].revoked <=> grant.status = "REVOKED")
    BY <2>1 DEF ExposureInv, ReadIsCurrent, Reads
  <2>2. ASSUME NEW m \in Looks, NEW n \in Looks, Reads(m)', Reads(n)' PROVE m = n
    BY <2>2 DEF ExposureInv, ReadIsCurrent, Reads, GrantFree
  <2> QED
    BY <2>1, <2>2 DEF ReadIsCurrent, Reads
<1> QED
  BY <1>1, <1>2, <1>3 DEF ExposureInv

\* The grant changes while nobody reads it, or as its only reader leaves.
LEMMA GrantMoves ==
    ASSUME ExposureInv,
           grant' \in [status : GrantStatus, uses : Nat],
           grant'.uses = grant.uses,
           grant'.status = "ACTIVE" => grant.status = "ACTIVE",
           look' \in [Looks -> [step : LookStep, at : Nat, seen : Nat, revoked : BOOLEAN]],
           \A l \in Looks : look'[l].step # "READING",
           shutAt' \in Nat,
           UNCHANGED <<hour, reveals, spent>>
    PROVE  ExposureInv'
<1>1. ExposureTypeOK'
  BY DEF ExposureInv, ExposureTypeOK
<1>2. BudgetHolds'
  BY DEF ExposureInv, BudgetHolds
<1>3. ReadIsCurrent'
  BY DEF ReadIsCurrent, Reads
<1> QED
  BY <1>1, <1>2, <1>3 DEF ExposureInv

LEMMA RefuseKeeps ==
    ASSUME ExposureInv, NEW l \in Looks, Reads(l), NEW status \in GrantStatus,
           status = "ACTIVE" => grant.status = "ACTIVE", Refuse(l, status)
    PROVE  ExposureInv'
<1>1. /\ grant \in [status : GrantStatus, uses : Nat] /\ shutAt \in Nat
      /\ look \in [Looks -> [step : LookStep, at : Nat, seen : Nat, revoked : BOOLEAN]]
  BY DEF ExposureInv, ExposureTypeOK
<1>2. /\ grant' \in [status : GrantStatus, uses : Nat] /\ grant'.uses = grant.uses
      /\ grant'.status = "ACTIVE" => grant.status = "ACTIVE"
  BY <1>1 DEF Refuse
<1>3. look' = [look EXCEPT ![l] = NoLook] /\ shutAt' \in Nat
  BY <1>1 DEF Refuse
<1>4. look' \in [Looks -> [step : LookStep, at : Nat, seen : Nat, revoked : BOOLEAN]]
  BY <1>1, <1>3 DEF NoLook, LookStep
<1>5. \A m \in Looks : look'[m].step # "READING"
  BY <1>1, <1>3 DEF ExposureInv, ReadIsCurrent, Reads, NoLook
<1> QED
  BY <1>2, <1>3, <1>4, <1>5, GrantMoves DEF Refuse

LEMMA AllowKeeps ==
    ASSUME ExposureInv, NEW l \in Looks, Allow(l) PROVE ExposureInv'
<1> DEFINE t == look[l].at
           n == grant.uses + 1
<1>1. /\ grant \in [status : GrantStatus, uses : Nat] /\ shutAt \in Nat /\ spent \in Seq(Nat)
      /\ look \in [Looks -> [step : LookStep, at : Nat, seen : Nat, revoked : BOOLEAN]]
  BY DEF ExposureInv, ExposureTypeOK
<1>2. look[l].seen = grant.uses /\ t \in Nat /\ n \in Nat
  BY <1>1 DEF ExposureInv, ReadIsCurrent, Reads, Allow
<1>3. /\ grant' = [status |-> IF Strength(t, n) >= FloorBp THEN "ACTIVE" ELSE "EXHAUSTED",
                   uses   |-> n]
      /\ shutAt' = (IF Strength(t, n) >= FloorBp THEN shutAt ELSE t)
      /\ t < HardExpiry /\ Strength(t, grant.uses) >= FloorBp
      /\ spent' = Append(spent, t) /\ look' = [look EXCEPT ![l] = NoLook]
      /\ UNCHANGED <<hour, reveals>>
  BY <1>2 DEF Allow
<1> HIDE DEF t
<1>4. ExposureTypeOK'
  <2>1. look' \in [Looks -> [step : LookStep, at : Nat, seen : Nat, revoked : BOOLEAN]]
    BY <1>1, <1>3 DEF NoLook, LookStep
  <2>2. grant' \in [status : GrantStatus, uses : Nat] /\ shutAt' \in Nat /\ spent' \in Seq(Nat)
    BY <1>1, <1>2, <1>3 DEF GrantStatus
  <2> QED
    BY <2>1, <2>2, <1>3 DEF ExposureInv, ExposureTypeOK
<1>5. ReadIsCurrent'
  BY <1>1, <1>3 DEF ExposureInv, ReadIsCurrent, Reads, NoLook, Allow
<1>6. BudgetHolds'
  <2>1. /\ Len(spent) = grant.uses /\ Len(spent) \in Nat
        /\ \A i \in 1..Len(spent) : spent[i] < HardExpiry /\ Strength(spent[i], i - 1) >= FloorBp
    BY <1>1 DEF ExposureInv, BudgetHolds
  <2>2. Len(spent') = n /\ spent'[n] = t /\ \A i \in 1..Len(spent) : spent'[i] = spent[i]
    BY <1>1, <1>2, <1>3, <2>1
  <2>3. n - 1 = grant.uses
    BY <1>1
  <2>4. ASSUME NEW i \in 1..Len(spent')
        PROVE  spent'[i] < HardExpiry /\ Strength(spent'[i], i - 1) >= FloorBp
    <3>1. CASE i = n
      BY <3>1, <2>2, <2>3, <1>3
    <3>2. CASE i # n
      <4>1. i \in 1..Len(spent)
        BY <3>2, <2>1, <2>2
      <4> QED
        BY <4>1, <2>1, <2>2
    <3> QED
      BY <3>1, <3>2
  <2>5. grant'.uses = n /\ (grant'.status = "ACTIVE" => Strength(t, n) >= FloorBp)
    BY <1>3
  <2>6. Len(spent') = grant'.uses
    BY <2>2, <2>5
  <2>7. grant'.status = "ACTIVE" => Strength(spent'[Len(spent')], Len(spent')) >= FloorBp
    BY <2>2, <2>5
  <2> QED
    BY <2>4, <2>6, <2>7 DEF BudgetHolds, Strength
<1> QED
  BY <1>4, <1>5, <1>6 DEF ExposureInv

LEMMA ExposureNextInv == ExposureInv /\ [ExposureNext]_exposureVars => ExposureInv'
<1> SUFFICES ASSUME ExposureInv, [ExposureNext]_exposureVars PROVE ExposureInv'
  OBVIOUS
<1>t. /\ grant \in [status : GrantStatus, uses : Nat] /\ shutAt \in Nat /\ hour \in Nat
      /\ look \in [Looks -> [step : LookStep, at : Nat, seen : Nat, revoked : BOOLEAN]]
  BY DEF ExposureInv, ExposureTypeOK
<1>1. ASSUME NEW l \in Looks, AskLook(l) PROVE ExposureInv'
  BY <1>1, <1>t, LookMoves DEF AskLook, LookStep
<1>2. ASSUME NEW l \in Looks, QueueLook(l) PROVE ExposureInv'
  <2> DEFINE k == [look[l] EXCEPT !.step = "QUEUED"]
  <2>1. k \in [step : LookStep, at : Nat, seen : Nat, revoked : BOOLEAN] /\ k.step = "QUEUED"
    BY <1>t DEF LookStep
  <2>2. look' = [look EXCEPT ![l] = [k EXCEPT !.at = hour]]
    BY <1>2, <1>t DEF QueueLook
  <2> HIDE DEF k
  <2>3. look' \in [Looks -> [step : LookStep, at : Nat, seen : Nat, revoked : BOOLEAN]]
    BY <2>1, <2>2, <1>t
  <2>4. look'[l].step = "QUEUED" /\ \A m \in Looks : m # l => look'[m] = look[m]
    BY <2>1, <2>2, <1>t
  <2> QED
    BY <1>2, <2>3, <2>4, LookMoves DEF QueueLook
<1>3. ASSUME NEW l \in Looks, ReadGrant(l) PROVE ExposureInv'
  <2> DEFINE k == [step |-> "READING", at |-> look[l].at, seen |-> grant.uses,
                   revoked |-> (grant.status = "REVOKED")]
  <2>1. k \in [step : LookStep, at : Nat, seen : Nat, revoked : BOOLEAN]
    BY <1>t DEF LookStep
  <2>2. look' = [look EXCEPT ![l] = k]
    BY <1>3, <1>t DEF ReadGrant
  <2>3. k.seen = grant.uses /\ (k.revoked <=> grant.status = "REVOKED")
    OBVIOUS
  <2> HIDE DEF k
  <2>4. look' \in [Looks -> [step : LookStep, at : Nat, seen : Nat, revoked : BOOLEAN]]
    BY <2>1, <2>2, <1>t
  <2>5. look'[l] = k /\ \A m \in Looks : m # l => look'[m] = look[m]
    BY <2>2, <1>t
  <2> QED
    BY <1>3, <2>3, <2>4, <2>5, LookMoves DEF ReadGrant
<1>4. ASSUME NEW l \in Looks, DropLook(l) PROVE ExposureInv'
  BY <1>4, <1>t, LookMoves DEF DropLook, NoLook, LookStep
<1>5. ASSUME NEW l \in Looks, RefuseRevoked(l) PROVE ExposureInv'
  <2>1. grant.status \in GrantStatus
    BY <1>t
  <2> QED
    BY <1>5, <2>1, RefuseKeeps DEF RefuseRevoked, Reads
<1>6. ASSUME NEW l \in Looks, RefuseExpired(l) PROVE ExposureInv'
  BY <1>6, RefuseKeeps DEF RefuseExpired, Reads, GrantStatus
<1>7. ASSUME NEW l \in Looks, RefuseWeak(l) PROVE ExposureInv'
  BY <1>7, RefuseKeeps DEF RefuseWeak, Reads, GrantStatus
<1>8. ASSUME NEW l \in Looks, Allow(l) PROVE ExposureInv'
  BY <1>8, AllowKeeps
<1>9. ASSUME RevokeGrant \/ ContainGrants PROVE ExposureInv'
  BY <1>9, <1>t, GrantMoves DEF RevokeGrant, ContainGrants, GrantFree, GrantStatus
<1>10. ASSUME NEW s \in {"CLEAR", "ENGAGED"}, SwitchReveals(s) PROVE ExposureInv'
  BY <1>10 DEF SwitchReveals, ExposureInv, ExposureTypeOK, ReadIsCurrent, Reads, BudgetHolds
<1>11. CASE Elapse
  BY <1>11, <1>t DEF Elapse, ExposureInv, ExposureTypeOK, ReadIsCurrent, Reads, BudgetHolds
<1>12. CASE UNCHANGED exposureVars
  BY <1>12 DEF exposureVars, ExposureInv, ExposureTypeOK, ReadIsCurrent, Reads, BudgetHolds
<1> QED
  BY <1>1, <1>2, <1>3, <1>4, <1>5, <1>6, <1>7, <1>8, <1>9, <1>10, <1>11, <1>12 DEF ExposureNext

\* However many kitchens' requests look at the same time, and whatever the
\* decay is, each look allowed was counted and had budget left
\* (recordExposureAccess).
THEOREM BudgetNeverOverdrawn == ExposureSpec => []BudgetHolds
<1>1. ExposureInv => BudgetHolds
  BY DEF ExposureInv
<1> QED
  BY <1>1, ExposureInitInv, ExposureNextInv, PTL DEF ExposureSpec

-----------------------------------------------------------------------------
(* What time leaves of a grant: Faded is what its definition says, and never *)
(* grows.  Each fact about all hours follows from the absence of a first     *)
(* hour that refutes it.                                                     *)

LEMMA FirstOf ==
    ASSUME NEW T \in SUBSET Nat, T # {}
    PROVE  \E m \in T : \A k \in T : m <= k
<1>1. IsWellFoundedOn(OpToRel(<, Nat), Nat)
  BY NatLessThanWellFounded
<1>2. PICK m \in T : \A k \in T : ~ (<<k, m>> \in OpToRel(<, Nat))
  BY <1>1, WFMin
<1>3. ASSUME NEW k \in T PROVE m <= k
  <2>1. ~ (k < m)
    BY <1>2 DEF OpToRel
  <2> QED
    BY <2>1
<1> QED
  BY <1>3

\* g halves the initial strength hour by hour, up to hour n.
HalvesTo(n, g) ==
    /\ g \in [0..n -> Nat]
    /\ \A i \in 0..n : g[i] = IF i = 0 THEN InitialBp ELSE g[i - 1] \div 2

LEMMA HalvesOn ==
    ASSUME NEW n \in Nat, NEW g, HalvesTo(n, g)
    PROVE  \E h : HalvesTo(n + 1, h)
<1> DEFINE h == [i \in 0..(n + 1) |-> IF i = n + 1 THEN g[n] \div 2 ELSE g[i]]
<1>1. g \in [0..n -> Nat] /\ \A i \in 0..n : g[i] = IF i = 0 THEN InitialBp ELSE g[i - 1] \div 2
  BY DEF HalvesTo
<1>2. g[n] \div 2 \in Nat
  BY <1>1
<1>3. h \in [0..(n + 1) -> Nat]
  BY <1>1, <1>2
<1>4. ASSUME NEW i \in 0..(n + 1)
      PROVE  h[i] = IF i = 0 THEN InitialBp ELSE h[i - 1] \div 2
  BY <1>1
<1> HIDE DEF h
<1>5. HalvesTo(n + 1, h)
  BY <1>3, <1>4 DEF HalvesTo
<1> QED
  BY <1>5

LEMMA HalvesAlways ==
    \A n \in Nat : \E g : HalvesTo(n, g)
<1> DEFINE T == {n \in Nat : ~ \E g : HalvesTo(n, g)}
<1> SUFFICES ASSUME T # {} PROVE FALSE
  OBVIOUS
<1>1. PICK m \in T : \A k \in T : m <= k
  BY FirstOf
<1>2. CASE m = 0
  <2> DEFINE g == [i \in 0..0 |-> InitialBp]
  <2>1. HalvesTo(0, g)
    BY StrengthAssumption DEF HalvesTo
  <2> QED
    BY <1>1, <1>2, <2>1
<1>3. CASE m # 0
  <2>1. m - 1 \in Nat /\ m - 1 \notin T /\ (m - 1) + 1 = m
    BY <1>1, <1>3
  <2>2. PICK g : HalvesTo(m - 1, g)
    BY <2>1
  <2>3. \E h : HalvesTo(m, h)
    BY <2>1, <2>2, HalvesOn
  <2> QED
    BY <1>1, <2>3
<1> QED
  BY <1>2, <1>3

LEMMA HalvesOneWay ==
    ASSUME NEW m \in Nat, NEW n \in Nat, NEW g, NEW h, HalvesTo(m, g), HalvesTo(n, h)
    PROVE  \A i \in (0..m) \cap (0..n) : g[i] = h[i]
<1> DEFINE T == {i \in (0..m) \cap (0..n) : g[i] # h[i]}
<1> SUFFICES ASSUME T # {} PROVE FALSE
  OBVIOUS
<1>1. PICK i \in T : \A k \in T : i <= k
  <2>1. T \in SUBSET Nat
    OBVIOUS
  <2> HIDE DEF T
  <2> QED
    BY <2>1, FirstOf
<1>2. i # 0
  BY <1>1, StrengthAssumption DEF HalvesTo
<1>3. i - 1 \in (0..m) \cap (0..n) /\ i - 1 \notin T
  BY <1>1, <1>2
<1> QED
  BY <1>1, <1>2, <1>3 DEF HalvesTo

LEMMA FadedHalves ==
    Faded = [t \in Nat |-> IF t = 0 THEN InitialBp ELSE Faded[t - 1] \div 2]
<1> DEFINE To == [n \in Nat |-> CHOOSE g : HalvesTo(n, g)]
           F  == [t \in Nat |-> To[t][t]]
<1>1. \A n \in Nat : HalvesTo(n, To[n])
  BY HalvesAlways
<1> HIDE DEF To
<1>2. ASSUME NEW t \in Nat PROVE F[t] = IF t = 0 THEN InitialBp ELSE F[t - 1] \div 2
  <2>1. CASE t = 0
    <3>1. HalvesTo(0, To[0]) /\ 0 \in 0..0
      BY <1>1
    <3>2. To[0][0] = InitialBp
      BY <3>1 DEF HalvesTo
    <3> QED
      BY <2>1, <3>2
  <2>2. CASE t # 0
    <3>1. t - 1 \in Nat /\ HalvesTo(t, To[t]) /\ HalvesTo(t - 1, To[t - 1])
      BY <1>1, <2>2
    <3>2. To[t][t - 1] = To[t - 1][t - 1]
      BY <3>1, HalvesOneWay
    <3>3. To[t][t] = To[t][t - 1] \div 2
      BY <2>2, <3>1 DEF HalvesTo
    <3> QED
      BY <2>2, <3>1, <3>2, <3>3
  <2> QED
    BY <2>1, <2>2
<1>3. F = [t \in Nat |-> IF t = 0 THEN InitialBp ELSE F[t - 1] \div 2]
  BY <1>2
<1> HIDE DEF F
<1> QED
  BY <1>3 DEF Faded

LEMMA FadedShrinks ==
    /\ \A t \in Nat : Faded[t] \in Nat
    /\ \A s, t \in Nat : s <= t => Faded[t] <= Faded[s]
<1>0. \A t \in Nat : Faded[t] = IF t = 0 THEN InitialBp ELSE Faded[t - 1] \div 2
  BY FadedHalves
<1>1. ASSUME NEW t \in Nat, Faded[t] \notin Nat PROVE FALSE
  <2> DEFINE T == {k \in Nat : Faded[k] \notin Nat}
  <2>1. PICK m \in T : \A k \in T : m <= k
    BY <1>1, FirstOf
  <2>2. m # 0
    BY <1>0, <2>1, StrengthAssumption
  <2>3. m - 1 \in Nat /\ m - 1 \notin T
    BY <2>1, <2>2
  <2> QED
    BY <1>0, <2>1, <2>2, <2>3
<1>2. ASSUME NEW s \in Nat, NEW t \in Nat, s <= t, ~(Faded[t] <= Faded[s]) PROVE FALSE
  <2> DEFINE T == {k \in Nat : s <= k /\ ~(Faded[k] <= Faded[s])}
  <2>1. PICK m \in T : \A k \in T : m <= k
    BY <1>2, FirstOf
  <2>2. m # s /\ m # 0
    BY <1>1, <2>1
  <2>3. m - 1 \in Nat /\ m - 1 \notin T /\ s <= m - 1
    BY <2>1, <2>2
  <2>4. Faded[m] = Faded[m - 1] \div 2 /\ Faded[m - 1] \in Nat /\ Faded[m - 1] <= Faded[s]
    BY <1>0, <1>1, <2>1, <2>2, <2>3
  <2>5. Faded[m - 1] \div 2 <= Faded[m - 1] /\ Faded[m - 1] \div 2 \in Nat /\ Faded[s] \in Nat
    BY <1>1, <2>4
  <2> QED
    BY <2>1, <2>4, <2>5
<1> QED
  BY <1>1, <1>2

\* Strength does not come back with time.
LEMMA StrengthFades ==
    ASSUME NEW s \in Nat, NEW t \in Nat, s <= t, NEW uses \in Nat
    PROVE  Strength(t, uses) <= Strength(s, uses)
<1>1. Faded[s] \in Nat /\ Faded[t] \in Nat /\ Faded[t] <= Faded[s]
  BY FadedShrinks
<1>2. uses * AccessDecay \in Nat
  BY StrengthAssumption
<1> QED
  BY <1>1, <1>2 DEF Strength

\* A grant that closed by itself had nothing left, by the time it closed.
ShutForCause ==
    /\ grant.status = "EXHAUSTED" => Strength(shutAt, grant.uses) < FloorBp
    /\ grant.status = "EXPIRED"   => shutAt >= HardExpiry

LEMMA ShutForCauseNext ==
    ASSUME ExposureInv, ShutForCause, [ExposureNext]_exposureVars
    PROVE  ShutForCause'
<1>t. /\ grant \in [status : GrantStatus, uses : Nat] /\ shutAt \in Nat
      /\ look \in [Looks -> [step : LookStep, at : Nat, seen : Nat, revoked : BOOLEAN]]
  BY DEF ExposureInv, ExposureTypeOK
<1>r. ASSUME NEW l \in Looks, look[l].step = "READING" PROVE look[l].seen = grant.uses
  BY <1>r DEF ExposureInv, ReadIsCurrent, Reads
<1>0. ASSUME UNCHANGED <<grant, shutAt>> PROVE ShutForCause'
  BY <1>0 DEF ShutForCause, Strength
<1>1. ASSUME NEW l \in Looks, NEW status \in {"EXHAUSTED", "EXPIRED"}, Refuse(l, status),
             status = "EXPIRED" => look[l].at >= HardExpiry,
             status = "EXHAUSTED" => Strength(look[l].at, grant.uses) < FloorBp
      PROVE  ShutForCause'
  <2>1. CASE grant.status = "ACTIVE"
    <3>1. grant'.status = status /\ grant'.uses = grant.uses /\ shutAt' = look[l].at
      BY <1>1, <1>t, <2>1 DEF Refuse
    <3> QED
      BY <1>1, <3>1 DEF ShutForCause, Strength
  <2>2. CASE grant.status # "ACTIVE"
    BY <1>0, <1>1, <2>2 DEF Refuse
  <2> QED
    BY <2>1, <2>2
<1>2. ASSUME NEW l \in Looks, RefuseRevoked(l) PROVE ShutForCause'
  <2>1. UNCHANGED <<grant, shutAt>>
    BY <1>2, <1>t DEF RefuseRevoked, Refuse
  <2> QED
    BY <1>0, <2>1
<1>3. ASSUME NEW l \in Looks, RefuseExpired(l) PROVE ShutForCause'
  BY <1>1, <1>3 DEF RefuseExpired
<1>4. ASSUME NEW l \in Looks, RefuseWeak(l) PROVE ShutForCause'
  <2>1. Strength(look[l].at, grant.uses) < FloorBp /\ Refuse(l, "EXHAUSTED")
    BY <1>4, <1>r DEF RefuseWeak
  <2> QED
    BY <1>1, <2>1
<1>5. ASSUME NEW l \in Looks, Allow(l) PROVE ShutForCause'
  <2> DEFINE t == look[l].at
             n == grant.uses + 1
  <2>1. /\ grant' = [status |-> IF Strength(t, n) >= FloorBp THEN "ACTIVE" ELSE "EXHAUSTED",
                     uses   |-> n]
        /\ shutAt' = IF Strength(t, n) >= FloorBp THEN shutAt ELSE t
    BY <1>5, <1>r DEF Allow
  <2>2. Strength(t, n) \in Nat /\ FloorBp \in Nat
    BY <1>t, FadedShrinks, StrengthAssumption, FloorAssumption DEF Strength
  <2>3. grant'.status = "EXHAUSTED" => shutAt' = t /\ grant'.uses = n /\ Strength(t, n) < FloorBp
    BY <2>1, <2>2
  <2>4. grant'.status # "EXPIRED"
    BY <2>1
  <2> QED
    BY <2>3, <2>4 DEF ShutForCause, Strength
<1>6. CASE RevokeGrant \/ ContainGrants
  <2>1. grant'.status = "REVOKED"
    BY <1>6, <1>t DEF RevokeGrant, ContainGrants
  <2> QED
    BY <2>1 DEF ShutForCause
<1>7. CASE UNCHANGED <<grant, shutAt>>
  BY <1>0, <1>7
<1> QED
  BY <1>2, <1>3, <1>4, <1>5, <1>6, <1>7
     DEF ExposureNext, AskLook, QueueLook, ReadGrant, DropLook, SwitchReveals, Elapse, exposureVars

LEMMA ClosedByCause ==
    ASSUME ExposureInv, ShutForCause, [ExposureNext]_exposureVars
    PROVE  /\ grant.status = "REVOKED" => grant' = grant
           /\ grant.status \in {"EXHAUSTED", "EXPIRED"} /\ grant'.status = "ACTIVE" =>
                 \E l \in Looks : look[l].step = "READING" /\ look[l].at < shutAt
<1>t. /\ grant \in [status : GrantStatus, uses : Nat] /\ shutAt \in Nat
      /\ look \in [Looks -> [step : LookStep, at : Nat, seen : Nat, revoked : BOOLEAN]]
  BY DEF ExposureInv, ExposureTypeOK
<1>r. ASSUME NEW l \in Looks, look[l].step = "READING"
      PROVE  look[l].seen = grant.uses /\ (look[l].revoked <=> grant.status = "REVOKED")
  BY <1>r DEF ExposureInv, ReadIsCurrent, Reads
<1>1. CASE grant' = grant
  BY <1>1
<1>2. ASSUME NEW l \in Looks, NEW status, Refuse(l, status), look[l].step = "READING"
      PROVE  grant' = grant \/ grant.status = "ACTIVE"
  BY <1>2 DEF Refuse
<1>3. ASSUME NEW l \in Looks, Allow(l)
      PROVE  /\ grant.status # "REVOKED"
             /\ grant.status \in {"EXHAUSTED", "EXPIRED"} => look[l].at < shutAt
  <2>1. /\ look[l].step = "READING" /\ grant.status # "REVOKED"
        /\ look[l].at < HardExpiry /\ Strength(look[l].at, grant.uses) >= FloorBp
    BY <1>3, <1>r DEF Allow
  <2>2. look[l].at \in Nat /\ grant.uses \in Nat
    BY <1>t
  <2>3. CASE grant.status = "EXHAUSTED"
    <3>1. Strength(shutAt, grant.uses) < FloorBp
      BY <2>3 DEF ShutForCause
    <3>2. shutAt <= look[l].at => Strength(look[l].at, grant.uses) <= Strength(shutAt, grant.uses)
      BY <1>t, <2>2, StrengthFades
    <3>3. /\ Strength(look[l].at, grant.uses) \in Nat /\ Strength(shutAt, grant.uses) \in Nat
          /\ FloorBp \in Nat
      BY <1>t, <2>2, FadedShrinks, StrengthAssumption, FloorAssumption DEF Strength
    <3> HIDE DEF Strength
    <3> QED
      BY <1>t, <2>1, <2>2, <3>1, <3>2, <3>3
  <2>4. CASE grant.status = "EXPIRED"
    BY <1>t, <2>1, <2>2, <2>4, TimeAssumption DEF ShutForCause
  <2> QED
    BY <2>1, <2>3, <2>4
<1>4. CASE RevokeGrant \/ ContainGrants
  <2>1. grant'.status = "REVOKED" /\ grant.status # "REVOKED"
    BY <1>4, <1>t DEF RevokeGrant, ContainGrants
  <2> QED
    BY <2>1
<1>5. ASSUME NEW l \in Looks, RefuseRevoked(l) \/ RefuseExpired(l) \/ RefuseWeak(l)
      PROVE  grant' = grant \/ grant.status = "ACTIVE"
  BY <1>2, <1>5 DEF RefuseRevoked, RefuseExpired, RefuseWeak
<1>6. ASSUME NEW l \in Looks, Allow(l) PROVE look[l].step = "READING"
  BY <1>6 DEF Allow
<1> QED
  BY <1>1, <1>3, <1>4, <1>5, <1>6
     DEF ExposureNext, AskLook, QueueLook, ReadGrant, DropLook, SwitchReveals, Elapse, exposureVars

\* A revoked grant never changes again, and one that closed by itself is
\* opened again only by a look asked for before the look that closed it:
\* later ones find as little strength, or the same deadline passed
\* (recordExposureAccess).
THEOREM ClosedForGood == ExposureSpec => ClosedStaysClosed
<1>1. ExposureInit => ShutForCause
  BY DEF ExposureInit, ShutForCause
<1>2. ExposureInv /\ ShutForCause /\ [ExposureNext]_exposureVars => ShutForCause'
  BY ShutForCauseNext
<1>3. ExposureInv /\ ShutForCause /\ [ExposureNext]_exposureVars =>
         [/\ grant.status = "REVOKED" => grant' = grant
          /\ grant.status \in {"EXHAUSTED", "EXPIRED"} /\ grant'.status = "ACTIVE" =>
                \E l \in Looks : look[l].step = "READING" /\ look[l].at < shutAt]_exposureVars
  BY ClosedByCause
<1> QED
  BY <1>1, <1>2, <1>3, ExposureInitInv, ExposureNextInv, PTL DEF ExposureSpec, ClosedStaysClosed

-----------------------------------------------------------------------------
(* Escrows.                                                                 *)

\* An advance in progress is about the next stage, or one passed since.
AdvancesInOrder ==
    \A r \in Clerks : clerk[r].op = "ADVANCE" => clerk[r].stage \in 1..(escrow.stage + 1)

EscrowInv == EscrowTypeOK /\ AdvancesInOrder /\ ShownAsDisclosed

LEMMA EscrowInitInv == EscrowInit => EscrowInv
<1> SUFFICES ASSUME EscrowInit PROVE EscrowInv
  OBVIOUS
<1>1. EscrowTypeOK /\ AdvancesInOrder
  <2>1. escrow \in [status : EscrowStatus, stage : 0..3]
    BY DEF EscrowInit, EscrowStatus
  <2>2. clerk = [r \in Clerks |-> AtRest] /\ AtRest \in [op : {"NONE", "ADVANCE", "READ"}, stage : 0..3]
    BY DEF EscrowInit, AtRest
  <2>3. \A r \in Clerks : clerk[r].op = "NONE"
    BY <2>2 DEF AtRest
  <2>4. /\ lapsed = FALSE /\ revokedOnce = FALSE /\ revived = FALSE
        /\ revealing = "CLEAR" /\ disclosed = {} /\ late = {}
    BY DEF EscrowInit
  <2> HIDE DEF AtRest
  <2> QED
    BY <2>1, <2>2, <2>3, <2>4 DEF EscrowTypeOK, AdvancesInOrder
<1>2. disclosed = 1..escrow.stage
  <2>1. escrow.stage = 0 /\ disclosed = {}
    BY DEF EscrowInit
  <2> QED
    BY <2>1
<1>3. late = {} /\ ~revokedOnce
  BY DEF EscrowInit
<1> QED
  BY <1>1, <1>2, <1>3 DEF EscrowInv, ShownAsDisclosed

LEMMA CommitAdvanceKeeps ==
    ASSUME EscrowInv, NEW r \in Clerks, CommitAdvance(r) PROVE EscrowInv'
<1> DEFINE s == clerk[r].stage
           live == IF s = 3 THEN "COMPLETED" ELSE "ACTIVE"
<1>1. /\ escrow \in [status : EscrowStatus, stage : 0..3] /\ disclosed \subseteq Stages
      /\ clerk \in [Clerks -> [op : {"NONE", "ADVANCE", "READ"}, stage : 0..3]]
      /\ disclosed = 1..escrow.stage
  BY DEF EscrowInv, EscrowTypeOK, ShownAsDisclosed
<1>2. s \in 1..(escrow.stage + 1) /\ s \notin disclosed /\ s \in 0..3
  BY <1>1 DEF EscrowInv, AdvancesInOrder, CommitAdvance
<1>3. s = escrow.stage + 1 /\ s \in 1..3
  BY <1>1, <1>2
<1>4. /\ disclosed' = disclosed \cup {s}
      /\ escrow' = [status |-> live, stage |-> s]
      /\ revived' = (revived \/ escrow.status = "REVOKED")
      /\ clerk' = [clerk EXCEPT ![r] = AtRest]
      /\ UNCHANGED <<lapsed, revealing, revokedOnce, late>>
  BY DEF CommitAdvance
<1>5. live \in EscrowStatus
  BY DEF EscrowStatus
<1> HIDE DEF s, live
<1>6. escrow' \in [status : EscrowStatus, stage : 0..3] /\ escrow'.stage = s
  BY <1>3, <1>4, <1>5
<1>7. clerk' \in [Clerks -> [op : {"NONE", "ADVANCE", "READ"}, stage : 0..3]]
  BY <1>1, <1>4 DEF AtRest
<1>8. EscrowTypeOK'
  <2>1. disclosed' \subseteq Stages
    BY <1>1, <1>3, <1>4 DEF Stages
  <2>2. revived' \in BOOLEAN
    BY <1>4
  <2>3. /\ lapsed' \in BOOLEAN /\ revokedOnce' \in BOOLEAN
        /\ revealing' \in {"CLEAR", "ENGAGED"} /\ late' \subseteq Stages
    BY <1>4 DEF EscrowInv, EscrowTypeOK
  <2> QED
    BY <1>6, <1>7, <2>1, <2>2, <2>3 DEF EscrowTypeOK
<1>9. AdvancesInOrder'
  <2> SUFFICES ASSUME NEW q \in Clerks, clerk'[q].op = "ADVANCE"
               PROVE  clerk'[q].stage \in 1..(escrow'.stage + 1)
    BY DEF AdvancesInOrder
  <2>1. clerk'[q] = clerk[q]
    BY <1>1, <1>4 DEF AtRest
  <2>2. clerk[q].stage \in 1..(escrow.stage + 1)
    BY <2>1 DEF EscrowInv, AdvancesInOrder
  <2> QED
    BY <1>1, <1>3, <1>6, <2>1, <2>2
<1>10. ShownAsDisclosed'
  <2>1. disclosed' = 1..escrow'.stage
    BY <1>1, <1>3, <1>4, <1>6
  <2>2. (late # {} => revived) /\ (revokedOnce /\ ~revived => escrow.status = "REVOKED")
    BY DEF EscrowInv, ShownAsDisclosed
  <2>3. (late' # {} => revived') /\ (revokedOnce' /\ ~revived' => FALSE)
    BY <1>4, <2>2, Zenon
  <2> QED
    BY <2>1, <2>3 DEF ShownAsDisclosed
<1> QED
  BY <1>8, <1>9, <1>10 DEF EscrowInv

LEMMA EscrowNextInv == EscrowInv /\ [EscrowNext]_escrowVars => EscrowInv'
<1> SUFFICES ASSUME EscrowInv, [EscrowNext]_escrowVars PROVE EscrowInv'
  OBVIOUS
<1> USE DEF EscrowInv, EscrowTypeOK, AdvancesInOrder, ShownAsDisclosed, AtRest, EscrowStatus, Stages
<1>1. ASSUME NEW r \in Clerks, BeginAdvance(r) PROVE EscrowInv'
  BY <1>1 DEF BeginAdvance
<1>2. ASSUME NEW r \in Clerks, CommitAdvance(r) PROVE EscrowInv'
  BY <1>2, CommitAdvanceKeeps
<1>3. ASSUME NEW r \in Clerks, AskFragment(r) PROVE EscrowInv'
  BY <1>3 DEF AskFragment
<1>4. ASSUME NEW r \in Clerks, NEW s \in Stages, ShowFragment(r, s) PROVE EscrowInv'
  BY <1>4 DEF ShowFragment
<1>5. ASSUME NEW r \in Clerks, DropRequest(r) PROVE EscrowInv'
  BY <1>5 DEF DropRequest
<1>6. CASE RevokeEscrow
  BY <1>6 DEF RevokeEscrow
<1>7. CASE Lapse
  BY <1>7 DEF Lapse
<1>8. ASSUME NEW state \in {"CLEAR", "ENGAGED"}, SwitchRevealing(state) PROVE EscrowInv'
  BY <1>8 DEF SwitchRevealing
<1>9. CASE UNCHANGED escrowVars
  BY <1>9 DEF escrowVars
<1> QED
  BY <1>1, <1>2, <1>3, <1>4, <1>5, <1>6, <1>7, <1>8, <1>9 DEF EscrowNext

\* However many advances and reads overlap, stages are disclosed once and in
\* order, and nothing is shown after a revocation no advance undid
\* (POST .../advance, GET .../disclosures/:stage).
THEOREM StagesShownAsDisclosed == EscrowSpec => []ShownAsDisclosed
<1>1. EscrowInv => ShownAsDisclosed
  BY DEF EscrowInv
<1> QED
  BY <1>1, EscrowInitInv, EscrowNextInv, PTL DEF EscrowSpec

-----------------------------------------------------------------------------
(* The memory capsule.                                                      *)

Step(c) == call[c].step

\* Keys are drawn in order; what a request read was drawn before.
KeysDrawn ==
    /\ capsule.key \in 0..drawn
    /\ stored \subseteq 1..drawn
    /\ \A c \in Calls : call[c].old \in 0..drawn /\ call[c].new \in 0..drawn

\* The object of a PUT that has not written is stored, sealed for the id
\* the request goes by, and known to nobody else.
FreshPuts ==
    \A c \in Calls : Step(c) = "PUT" =>
        /\ call[c].new \in stored /\ call[c].new # capsule.key /\ call[c].new \in Keys
        /\ sealed[call[c].new] = call[c].id /\ call[c].id # NoKey
        /\ \A d \in Calls : call[d].old # call[c].new
        /\ \A d \in Calls : Step(d) = "PUT" /\ call[d].new = call[c].new => c = d

\* The row keeps its id; a request goes by it, or by one of its own.
OneId ==
    \A c \in Calls :
        /\ Step(c) = "PUTTING" => call[c].id \in {NoKey, capsule.id}
        /\ Step(c) = "PUT" => call[c].id \in {call[c].new, capsule.id}

\* What a request still deletes is not what the row points to, and what it
\* has deleted is gone.
Deletions ==
    \A c \in Calls :
        /\ Step(c) = "WRITTEN" => call[c].old # capsule.key \/ call[c].old = NoKey
        /\ Step(c) = "DELETED" => call[c].old \notin stored /\ call[c].old \in Keys

Pointed == capsule.status = "ACTIVE" => capsule.key \in Keys

CapsuleInv ==
    CapsuleTypeOK /\ KeysDrawn /\ FreshPuts /\ OneId /\ Deletions /\ Pointed /\ StoredIsAccounted

LEMMA CapsuleInitInv == CapsuleInit => CapsuleInv
<1> SUFFICES ASSUME CapsuleInit PROVE CapsuleInv
  OBVIOUS
<1>1. CapsuleTypeOK
  BY MaxObjectsAssumption DEF CapsuleInit, CapsuleTypeOK, NoCall, NoKey, Keys, CallStep
<1>2. KeysDrawn /\ FreshPuts /\ OneId /\ Deletions /\ Pointed /\ StoredIsAccounted
  BY DEF CapsuleInit, KeysDrawn, FreshPuts, OneId, Deletions, Pointed, StoredIsAccounted, NoCall,
         NoKey, Step
<1> QED
  BY <1>1, <1>2 DEF CapsuleInv

CallRecord == [step : CallStep, id : Keys \cup {NoKey}, old : Keys \cup {NoKey},
               new : Keys \cup {NoKey}]

LEMMA CapsuleTypes ==
    ASSUME CapsuleInv
    PROVE  /\ capsule \in [status : {"NONE", "ACTIVE", "REVOKED"}, id : Keys \cup {NoKey},
                           key : Keys \cup {NoKey}]
           /\ call \in [Calls -> CallRecord] /\ drawn \in Nat /\ Keys = 1..MaxObjects
           /\ sealed \in [Keys -> Keys \cup {NoKey}] /\ MaxObjects \in Nat /\ NoKey = 0
BY MaxObjectsAssumption DEF CapsuleInv, CapsuleTypeOK, CallRecord, Keys, NoKey

\* A request that reads the row, or is refused before it did anything.
LEMMA CallBegins ==
    ASSUME CapsuleInv, NEW c \in Calls, NEW k \in CallRecord,
           call' = [call EXCEPT ![c] = k],
           call[c].step \notin {"PUT", "WRITTEN", "DELETED"},
           k.step \notin {"PUT", "WRITTEN", "DELETED"},
           k.old \in {capsule.key, NoKey}, k.new = NoKey,
           k.step = "PUTTING" => k.id = capsule.id,
           UNCHANGED <<capsule, stored, sealed, drawn, strays, emptied, doubled>>
    PROVE  CapsuleInv'
<1>1. /\ call' \in [Calls -> CallRecord] /\ call'[c] = k
      /\ \A d \in Calls : d # c => call'[d] = call[d]
  BY CapsuleTypes
<1>2. CapsuleTypeOK'
  BY <1>1 DEF CapsuleInv, CapsuleTypeOK, CallRecord
<1>3. KeysDrawn' /\ Pointed'
  BY <1>1, CapsuleTypes DEF CapsuleInv, KeysDrawn, Pointed
<1>4. FreshPuts'
  <2> SUFFICES ASSUME NEW d \in Calls, call'[d].step = "PUT"
               PROVE  /\ call'[d].new \in stored /\ call'[d].new # capsule.key /\ call'[d].new \in Keys
                      /\ sealed[call'[d].new] = call'[d].id /\ call'[d].id # NoKey
                      /\ \A e \in Calls : call'[e].old # call'[d].new
                      /\ \A e \in Calls : call'[e].step = "PUT" /\ call'[e].new = call'[d].new => d = e
    BY DEF FreshPuts, Step
  <2>1. call'[d] = call[d]
    BY <1>1
  <2>2. /\ call[d].new \in stored /\ call[d].new # capsule.key /\ call[d].new \in Keys
        /\ sealed[call[d].new] = call[d].id /\ call[d].id # NoKey
        /\ \A e \in Calls : call[e].old # call[d].new
        /\ \A e \in Calls : call[e].step = "PUT" /\ call[e].new = call[d].new => d = e
    BY <2>1 DEF CapsuleInv, FreshPuts, Step
  <2>3. k.old # call[d].new
    BY <2>2, CapsuleTypes
  <2> QED
    BY <1>1, <2>1, <2>2, <2>3
<1>5. OneId' /\ Deletions'
  BY <1>1 DEF CapsuleInv, OneId, Deletions, Step
<1>6. StoredIsAccounted'
  BY <1>1 DEF CapsuleInv, StoredIsAccounted, InHand
<1> QED
  BY <1>2, <1>3, <1>4, <1>5, <1>6 DEF CapsuleInv

LEMMA PutObjectKeeps ==
    ASSUME CapsuleInv, NEW c \in Calls, PutObject(c) PROVE CapsuleInv'
<1> DEFINE new == drawn + 1
           id  == IF call[c].id = NoKey THEN new ELSE call[c].id
           k   == [step |-> "PUT", id |-> id, old |-> call[c].old, new |-> new]
<1>t. /\ call \in [Calls -> CallRecord] /\ drawn \in Nat /\ Keys = 1..MaxObjects
      /\ sealed \in [Keys -> Keys \cup {NoKey}] /\ MaxObjects \in Nat /\ NoKey = 0
  BY CapsuleTypes
<1>1. new \in Keys /\ new \notin 0..drawn /\ new # NoKey /\ id \in Keys
  BY <1>t DEF PutObject, CallRecord
<1>2. /\ call' = [call EXCEPT ![c] = k] /\ call[c].step = "PUTTING"
      /\ drawn' = new /\ stored' = stored \cup {new} /\ sealed' = [sealed EXCEPT ![new] = id]
      /\ UNCHANGED <<capsule, strays, emptied, doubled>>
  BY <1>t DEF PutObject, CallRecord
<1>3. k \in CallRecord /\ k.step = "PUT" /\ k.id = id /\ k.old = call[c].old /\ k.new = new
  BY <1>t, <1>1 DEF CallRecord, CallStep
<1>n. 0..drawn \subseteq 0..drawn' /\ 1..drawn \subseteq 1..drawn' /\ new \in 1..drawn' /\ new \in 0..drawn'
  BY <1>t, <1>2
<1>i. id \in {new, capsule.id}
  BY <1>2 DEF CapsuleInv, OneId, Step
<1>d. drawn' \in 0..MaxObjects
  BY <1>t, <1>1, <1>2
<1> HIDE DEF new, id, k
<1>4. /\ call' \in [Calls -> CallRecord] /\ call'[c] = k
      /\ \A d \in Calls : d # c => call'[d] = call[d]
  BY <1>2, <1>3, <1>t
<1>5. /\ sealed' \in [Keys -> Keys \cup {NoKey}] /\ sealed'[new] = id
      /\ \A j \in Keys : j # new => sealed'[j] = sealed[j]
  BY <1>1, <1>2, <1>t
<1>6. CapsuleTypeOK'
  BY <1>1, <1>2, <1>4, <1>5, <1>d DEF CapsuleInv, CapsuleTypeOK, CallRecord
<1>7. KeysDrawn' /\ Pointed'
  BY <1>1, <1>2, <1>3, <1>4, <1>n DEF CapsuleInv, KeysDrawn, Pointed
<1>8. capsule.key # new /\ new \notin stored /\ \A d \in Calls : call[d].old # new /\ call[d].new # new
  BY <1>1, <1>t DEF CapsuleInv, KeysDrawn
<1>9. FreshPuts'
  <2> SUFFICES ASSUME NEW d \in Calls, call'[d].step = "PUT"
               PROVE  /\ call'[d].new \in stored' /\ call'[d].new # capsule.key /\ call'[d].new \in Keys
                      /\ sealed'[call'[d].new] = call'[d].id /\ call'[d].id # NoKey
                      /\ \A e \in Calls : call'[e].old # call'[d].new
                      /\ \A e \in Calls : call'[e].step = "PUT" /\ call'[e].new = call'[d].new => d = e
    BY <1>2 DEF FreshPuts, Step
  <2>1. CASE d = c
    BY <2>1, <1>1, <1>2, <1>3, <1>4, <1>5, <1>8, <1>t
  <2>2. CASE d # c
    <3>1. call'[d] = call[d] /\ call[d].new # new
      BY <2>2, <1>4, <1>8
    <3>2. /\ call[d].new \in stored /\ call[d].new # capsule.key /\ call[d].new \in Keys
          /\ sealed[call[d].new] = call[d].id /\ call[d].id # NoKey
          /\ \A e \in Calls : call[e].old # call[d].new
          /\ \A e \in Calls : call[e].step = "PUT" /\ call[e].new = call[d].new => d = e
      BY <3>1 DEF CapsuleInv, FreshPuts, Step
    <3> QED
      BY <3>1, <3>2, <1>2, <1>3, <1>4, <1>5
  <2> QED
    BY <2>1, <2>2
<1>10. OneId'
  BY <1>2, <1>3, <1>4, <1>i DEF CapsuleInv, OneId, Step
<1>11. Deletions'
  BY <1>2, <1>3, <1>4, <1>8 DEF CapsuleInv, Deletions, Step
<1>12. StoredIsAccounted'
  <2>1. \A j \in stored' : j = capsule'.key \/ j \in strays' \/ \E d \in Calls : j \in InHand(d)'
    BY <1>2, <1>3, <1>4 DEF CapsuleInv, StoredIsAccounted, InHand
  <2>2. capsule.status = "ACTIVE" => sealed'[capsule.key] = sealed[capsule.key]
    BY <1>5, <1>8 DEF CapsuleInv, Pointed
  <2>3. capsule'.status = "ACTIVE" =>
           /\ \/ capsule'.key \in stored' \cup emptied'
              \/ \E d \in Calls : call'[d].step = "DELETED" /\ call'[d].old = capsule'.key
           /\ sealed'[capsule'.key] = capsule'.id \/ capsule'.key \in doubled'
    BY <2>2, <1>2, <1>4 DEF CapsuleInv, StoredIsAccounted
  <2> QED
    BY <2>1, <2>3 DEF StoredIsAccounted
<1> QED
  BY <1>6, <1>7, <1>9, <1>10, <1>11, <1>12 DEF CapsuleInv

LEMMA WritePutKeeps ==
    ASSUME CapsuleInv, NEW c \in Calls, WritePut(c) PROVE CapsuleInv'
<1> DEFINE new == call[c].new
           old == call[c].old
           id  == IF capsule.id = NoKey THEN call[c].id ELSE capsule.id
           k   == [call[c] EXCEPT !.step = "WRITTEN"]
<1>t. /\ call \in [Calls -> CallRecord] /\ drawn \in Nat /\ Keys = 1..MaxObjects
      /\ capsule \in [status : {"NONE", "ACTIVE", "REVOKED"}, id : Keys \cup {NoKey},
                      key : Keys \cup {NoKey}]
      /\ MaxObjects \in Nat /\ NoKey = 0
  BY CapsuleTypes
<1>1. /\ call' = [call EXCEPT ![c] = k] /\ call[c].step = "PUT"
      /\ capsule' = [status |-> "ACTIVE", id |-> id, key |-> new]
      /\ doubled' = (IF call[c].id = new /\ capsule.id # NoKey THEN doubled \cup {new} ELSE doubled)
      /\ strays' = (IF capsule.key \in {NoKey, old} THEN strays ELSE strays \cup {capsule.key})
      /\ UNCHANGED <<stored, sealed, drawn, emptied>>
  BY <1>t DEF WritePut
<1>2. /\ new \in stored /\ new # capsule.key /\ new \in Keys /\ new # NoKey
      /\ sealed[new] = call[c].id /\ call[c].id # NoKey
      /\ \A d \in Calls : call[d].old # new
      /\ \A d \in Calls : call[d].step = "PUT" /\ call[d].new = new => c = d
  BY <1>1, <1>t DEF CapsuleInv, FreshPuts, Step
<1>3. k \in CallRecord /\ k.step = "WRITTEN" /\ k.new = new /\ k.old = old
  BY <1>t DEF CallRecord, CallStep
<1>i. id \in Keys /\ (capsule.id # NoKey => id = capsule.id)
  BY <1>2, <1>t DEF CallRecord
<1>s. sealed[new] = id \/ (call[c].id = new /\ capsule.id # NoKey)
  BY <1>1, <1>2 DEF CapsuleInv, OneId, Step
<1>n. new \in 0..drawn /\ old # new
  BY <1>2 DEF CapsuleInv, KeysDrawn
<1> HIDE DEF new, old, id, k
<1>4. /\ call' \in [Calls -> CallRecord] /\ call'[c] = k
      /\ \A d \in Calls : d # c => call'[d] = call[d]
  BY <1>1, <1>3, <1>t
<1>5. capsule'.key = new /\ capsule'.id = id /\ capsule'.status = "ACTIVE"
  BY <1>1
<1>6. CapsuleTypeOK'
  <2>1. strays' \subseteq Keys /\ doubled' \subseteq Keys
    BY <1>1, <1>2, <1>t DEF CapsuleInv, CapsuleTypeOK
  <2>2. capsule' \in [status : {"NONE", "ACTIVE", "REVOKED"}, id : Keys \cup {NoKey},
                      key : Keys \cup {NoKey}]
    BY <1>1, <1>2, <1>i
  <2> QED
    BY <1>1, <1>4, <2>1, <2>2 DEF CapsuleInv, CapsuleTypeOK, CallRecord
<1>7. KeysDrawn' /\ Pointed'
  BY <1>1, <1>2, <1>3, <1>4, <1>5, <1>n DEF CapsuleInv, KeysDrawn, Pointed, new, old
<1>8. FreshPuts'
  <2> SUFFICES ASSUME NEW d \in Calls, call'[d].step = "PUT"
               PROVE  /\ call'[d].new \in stored /\ call'[d].new # new /\ call'[d].new \in Keys
                      /\ sealed[call'[d].new] = call'[d].id /\ call'[d].id # NoKey
                      /\ \A e \in Calls : call'[e].old # call'[d].new
                      /\ \A e \in Calls : call'[e].step = "PUT" /\ call'[e].new = call'[d].new => d = e
    BY <1>1, <1>5 DEF FreshPuts, Step
  <2>1. d # c /\ call'[d] = call[d] /\ call[d].new # new
    BY <1>2, <1>3, <1>4
  <2>2. /\ call[d].new \in stored /\ call[d].new \in Keys
        /\ sealed[call[d].new] = call[d].id /\ call[d].id # NoKey
        /\ \A e \in Calls : call[e].old # call[d].new
        /\ \A e \in Calls : call[e].step = "PUT" /\ call[e].new = call[d].new => d = e
    BY <2>1 DEF CapsuleInv, FreshPuts, Step
  <2>3. \A e \in Calls : call'[e].old = call[e].old
    BY <1>3, <1>4 DEF old
  <2> QED
    BY <2>1, <2>2, <2>3, <1>3, <1>4
<1>9. OneId'
  <2>1. ASSUME NEW d \in Calls, d # c
        PROVE  /\ call[d].step = "PUTTING" => call[d].id \in {NoKey, id}
               /\ call[d].step = "PUT" => call[d].id \in {call[d].new, id}
    <3>1. CASE capsule.id # NoKey
      BY <3>1, <1>i DEF CapsuleInv, OneId, Step
    <3>2. CASE capsule.id = NoKey
      BY <3>2 DEF CapsuleInv, OneId, FreshPuts, Step
    <3> QED
      BY <3>1, <3>2
  <2> QED
    BY <2>1, <1>3, <1>4, <1>5 DEF OneId, Step
<1>10. Deletions'
  <2>1. \A d \in Calls : call'[d].old = call[d].old /\ call'[d].old # new
    BY <1>2, <1>3, <1>4 DEF old
  <2> QED
    BY <2>1, <1>1, <1>3, <1>4, <1>5 DEF CapsuleInv, Deletions, Step
<1>11. StoredIsAccounted'
  <2>1. ASSUME NEW j \in stored
        PROVE  j = new \/ j \in strays' \/ \E d \in Calls : j \in InHand(d)'
    <3>1. j \in Keys /\ j # NoKey
      BY <1>t DEF CapsuleInv, CapsuleTypeOK
    <3>2. CASE j = capsule.key
      <4>1. CASE j = old
        BY <4>1, <1>3, <1>4 DEF InHand
      <4>2. CASE j # old
        BY <3>1, <3>2, <4>2, <1>1
      <4> QED
        BY <4>1, <4>2
    <3>3. CASE j \in strays
      BY <3>3, <1>1
    <3>4. ASSUME NEW d \in Calls, j \in InHand(d)
          PROVE  j = new \/ \E e \in Calls : j \in InHand(e)'
      <4>1. CASE d = c
        BY <4>1, <3>4, <1>1 DEF InHand, new
      <4>2. CASE d # c
        BY <4>2, <3>4, <1>4 DEF InHand
      <4> QED
        BY <4>1, <4>2
    <3> QED
      BY <3>2, <3>3, <3>4 DEF CapsuleInv, StoredIsAccounted
  <2>2. sealed'[new] = id \/ new \in doubled'
    BY <1>1, <1>s
  <2> QED
    BY <2>1, <2>2, <1>1, <1>2, <1>5 DEF StoredIsAccounted
<1> QED
  BY <1>6, <1>7, <1>8, <1>9, <1>10, <1>11 DEF CapsuleInv

LEMMA DeleteOldKeeps ==
    ASSUME CapsuleInv, NEW c \in Calls, DeleteOld(c) PROVE CapsuleInv'
<1> DEFINE old == call[c].old
<1>1. /\ call' = [call EXCEPT ![c] = NoCall] /\ call[c].step = "WRITTEN"
      /\ stored' = stored \ {old}
      /\ UNCHANGED <<capsule, sealed, drawn, strays, emptied, doubled>>
  BY DEF DeleteOld
<1>2. NoCall \in CallRecord
  BY DEF NoCall, CallRecord, CallStep
<1>3. /\ call' \in [Calls -> CallRecord] /\ call'[c] = NoCall
      /\ \A d \in Calls : d # c => call'[d] = call[d]
  BY <1>1, <1>2, CapsuleTypes
<1>4. (old # capsule.key \/ old = NoKey) /\ NoKey \notin stored
  BY <1>1, CapsuleTypes DEF CapsuleInv, Deletions, Step, CapsuleTypeOK
<1>5. \A d \in Calls : call[d].step = "PUT" => call[d].new # old
  BY DEF CapsuleInv, FreshPuts, Step
<1>6. CapsuleTypeOK'
  BY <1>1, <1>3 DEF CapsuleInv, CapsuleTypeOK, CallRecord
<1>7. KeysDrawn' /\ Pointed' /\ OneId' /\ Deletions'
  <2>1. stored' \subseteq stored
    BY <1>1
  <2>2. KeysDrawn'
    <3>1. KeysDrawn /\ 0 \in 0..drawn
      BY CapsuleTypes DEF CapsuleInv
    <3>2. capsule'.key \in 0..drawn' /\ stored' \subseteq 1..drawn'
      BY <3>1, <1>1, <2>1 DEF KeysDrawn
    <3>3. \A d \in Calls : call'[d].old \in 0..drawn /\ call'[d].new \in 0..drawn
      BY <3>1, <1>3 DEF KeysDrawn, NoCall, NoKey
    <3> QED
      BY <3>2, <3>3, <1>1 DEF KeysDrawn
  <2> QED
    BY <1>1, <1>3, <2>1, <2>2 DEF CapsuleInv, Pointed, OneId, Deletions, Step, NoCall
<1>8. FreshPuts'
  BY <1>1, <1>3, <1>5, CapsuleTypes DEF CapsuleInv, FreshPuts, Step, NoCall
<1>9. StoredIsAccounted'
  <2>1. \A j \in stored' : j = capsule.key \/ j \in strays \/ \E d \in Calls : j \in InHand(d)'
    BY <1>1, <1>3 DEF CapsuleInv, StoredIsAccounted, InHand
  <2>2. capsule.status = "ACTIVE" /\ capsule.key \in stored => capsule.key \in stored'
    BY <1>1, <1>4
  <2>3. \A d \in Calls : call[d].step = "DELETED" => call'[d] = call[d]
    BY <1>1, <1>3
  <2> QED
    BY <2>1, <2>2, <2>3, <1>1 DEF CapsuleInv, StoredIsAccounted
<1> QED
  BY <1>6, <1>7, <1>8, <1>9 DEF CapsuleInv

LEMMA DeleteObjectKeeps ==
    ASSUME CapsuleInv, NEW c \in Calls, DeleteObject(c) PROVE CapsuleInv'
<1> DEFINE old == call[c].old
           k   == [call[c] EXCEPT !.step = "DELETED"]
<1>1. /\ call' = [call EXCEPT ![c] = k] /\ call[c].step = "DELETING" /\ old # NoKey
      /\ stored' = stored \ {old}
      /\ UNCHANGED <<capsule, sealed, drawn, strays, emptied, doubled>>
  BY CapsuleTypes DEF DeleteObject
<1>2. k \in CallRecord /\ k.step = "DELETED" /\ k.old = old /\ k.new = call[c].new /\ old \in Keys
  BY <1>1, CapsuleTypes DEF CallRecord, CallStep
<1> HIDE DEF k
<1>3. /\ call' \in [Calls -> CallRecord] /\ call'[c] = k
      /\ \A d \in Calls : d # c => call'[d] = call[d]
  BY <1>1, <1>2, CapsuleTypes
<1>4. \A d \in Calls : call'[d].old = call[d].old /\ call'[d].new = call[d].new
  BY <1>2, <1>3
<1>5. \A d \in Calls : call[d].step = "PUT" => call[d].new # old
  BY DEF CapsuleInv, FreshPuts, Step
<1>6. CapsuleTypeOK'
  BY <1>1, <1>3 DEF CapsuleInv, CapsuleTypeOK, CallRecord
<1>7. KeysDrawn' /\ Pointed'
  BY <1>1, <1>4 DEF CapsuleInv, KeysDrawn, Pointed
<1>8. OneId' /\ Deletions'
  BY <1>1, <1>2, <1>3, <1>4 DEF CapsuleInv, OneId, Deletions, Step
<1>9. FreshPuts'
  BY <1>1, <1>2, <1>3, <1>4, <1>5 DEF CapsuleInv, FreshPuts, Step
<1>10. StoredIsAccounted'
  <2>1. \A j \in stored' : j = capsule.key \/ j \in strays \/ \E d \in Calls : j \in InHand(d)'
    BY <1>1, <1>3 DEF CapsuleInv, StoredIsAccounted, InHand
  <2>2. capsule.status = "ACTIVE" =>
           \/ capsule.key \in stored' \cup emptied
           \/ \E d \in Calls : call'[d].step = "DELETED" /\ call'[d].old = capsule.key
    BY <1>1, <1>2, <1>3, <1>4 DEF CapsuleInv, StoredIsAccounted
  <2> QED
    BY <2>1, <2>2, <1>1 DEF CapsuleInv, StoredIsAccounted
<1> QED
  BY <1>6, <1>7, <1>8, <1>9, <1>10 DEF CapsuleInv

LEMMA WriteDeleteKeeps ==
    ASSUME CapsuleInv, NEW c \in Calls, WriteDelete(c) PROVE CapsuleInv'
<1> DEFINE old == call[c].old
<1>1. /\ call' = [call EXCEPT ![c] = NoCall] /\ call[c].step = "DELETED"
      /\ capsule' = [status |-> "REVOKED", id |-> capsule.id, key |-> NoKey]
      /\ strays' = (IF capsule.key \in {NoKey, old} THEN strays ELSE strays \cup {capsule.key})
      /\ UNCHANGED <<stored, sealed, drawn, emptied, doubled>>
  <2> DEFINE k == [capsule EXCEPT !.status = "REVOKED"]
  <2>1. k = [status |-> "REVOKED", id |-> capsule.id, key |-> capsule.key]
    BY CapsuleTypes
  <2>2. capsule' = [k EXCEPT !.key = NoKey]
    BY CapsuleTypes DEF WriteDelete
  <2> HIDE DEF k
  <2> QED
    BY <2>1, <2>2 DEF WriteDelete
<1>2. NoCall \in CallRecord
  BY DEF NoCall, CallRecord, CallStep
<1>3. /\ call' \in [Calls -> CallRecord] /\ call'[c] = NoCall
      /\ \A d \in Calls : d # c => call'[d] = call[d]
  BY <1>1, <1>2, CapsuleTypes
<1>4. old \notin stored /\ NoKey \notin stored /\ drawn \in Nat
  BY <1>1, CapsuleTypes DEF CapsuleInv, Deletions, Step, CapsuleTypeOK
<1>5. CapsuleTypeOK'
  BY <1>1, <1>3, CapsuleTypes DEF CapsuleInv, CapsuleTypeOK, CallRecord
<1>6. KeysDrawn' /\ Pointed' /\ OneId' /\ Deletions'
  BY <1>1, <1>3, <1>4 DEF CapsuleInv, KeysDrawn, Pointed, OneId, Deletions, Step, NoCall, NoKey
<1>7. FreshPuts'
  BY <1>1, <1>3, CapsuleTypes DEF CapsuleInv, FreshPuts, Step, NoCall
<1>8. StoredIsAccounted'
  <2>1. \A j \in stored : j \in strays' \/ \E d \in Calls : j \in InHand(d)'
    <3>1. \A d \in Calls : InHand(d) # {} => InHand(d)' = InHand(d)
      BY <1>1, <1>3 DEF InHand
    <3> QED
      BY <3>1, <1>1, <1>4 DEF CapsuleInv, StoredIsAccounted
  <2> QED
    BY <2>1, <1>1 DEF StoredIsAccounted
<1> QED
  BY <1>5, <1>6, <1>7, <1>8 DEF CapsuleInv

LEMMA StopCallKeeps ==
    ASSUME CapsuleInv, NEW c \in Calls, StopCall(c) PROVE CapsuleInv'
<1> DEFINE old == call[c].old
           new == call[c].new
<1>1. /\ call' = [call EXCEPT ![c] = NoCall]
      /\ strays' = CASE call[c].step = "PUT"     -> strays \cup {new}
                     [] call[c].step = "WRITTEN" -> (strays \cup {old}) \ {NoKey}
                     [] OTHER                    -> strays
      /\ emptied' = (IF call[c].step = "DELETED" THEN emptied \cup {old} ELSE emptied)
      /\ UNCHANGED <<capsule, stored, sealed, drawn, doubled>>
  BY DEF StopCall
<1>2. NoCall \in CallRecord
  BY DEF NoCall, CallRecord, CallStep
<1>3. /\ call' \in [Calls -> CallRecord] /\ call'[c] = NoCall
      /\ \A d \in Calls : d # c => call'[d] = call[d]
  BY <1>1, <1>2, CapsuleTypes
<1>4. CapsuleTypeOK'
  <2>1. call[c].step = "PUT" => new \in Keys
    BY DEF CapsuleInv, FreshPuts, Step
  <2>2. call[c].step = "DELETED" => old \in Keys
    BY DEF CapsuleInv, Deletions, Step
  <2>3. strays \subseteq Keys /\ NoKey \notin Keys /\ old \in Keys \cup {NoKey}
    BY CapsuleTypes DEF CapsuleInv, CapsuleTypeOK, CallRecord
  <2>4. strays' \subseteq Keys
    BY <1>1, <2>1, <2>3
  <2>5. emptied' \subseteq Keys
    BY <1>1, <2>2 DEF CapsuleInv, CapsuleTypeOK
  <2> QED
    BY <1>1, <1>3, <2>4, <2>5 DEF CapsuleInv, CapsuleTypeOK, CallRecord
<1>5. KeysDrawn' /\ Pointed' /\ OneId' /\ Deletions'
  BY <1>1, <1>3, CapsuleTypes DEF CapsuleInv, KeysDrawn, Pointed, OneId, Deletions, Step, NoCall
<1>6. FreshPuts'
  BY <1>1, <1>3, CapsuleTypes DEF CapsuleInv, FreshPuts, Step, NoCall
<1>7. StoredIsAccounted'
  <2>1. ASSUME NEW j \in stored
        PROVE  j = capsule.key \/ j \in strays' \/ \E d \in Calls : j \in InHand(d)'
    <3>1. j # NoKey
      BY CapsuleTypes DEF CapsuleInv, CapsuleTypeOK
    <3>2. j \in InHand(c) => j \in strays'
      BY <3>1, <1>1 DEF InHand
    <3>3. \A d \in Calls : d # c => InHand(d)' = InHand(d)
      BY <1>3 DEF InHand
    <3>4. j \in strays => j \in strays'
      BY <3>1, <1>1
    <3> QED
      BY <3>2, <3>3, <3>4 DEF CapsuleInv, StoredIsAccounted
  <2>2. capsule.status = "ACTIVE" =>
           \/ capsule.key \in stored \cup emptied'
           \/ \E d \in Calls : call'[d].step = "DELETED" /\ call'[d].old = capsule.key
    BY <1>1, <1>3 DEF CapsuleInv, StoredIsAccounted
  <2> QED
    BY <2>1, <2>2, <1>1 DEF CapsuleInv, StoredIsAccounted
<1> QED
  BY <1>4, <1>5, <1>6, <1>7 DEF CapsuleInv

LEMMA CapsuleNextInv == CapsuleInv /\ [CapsuleNext]_capsuleVars => CapsuleInv'
<1> SUFFICES ASSUME CapsuleInv, [CapsuleNext]_capsuleVars PROVE CapsuleInv'
  OBVIOUS
<1>1. ASSUME NEW c \in Calls, BeginPut(c) PROVE CapsuleInv'
  <2> DEFINE k == [step |-> "PUTTING", id |-> capsule.id, old |-> capsule.key, new |-> NoKey]
  <2>1. k \in CallRecord
    BY CapsuleTypes DEF CallRecord, CallStep
  <2>2. k.step = "PUTTING" /\ k.id = capsule.id /\ k.old = capsule.key /\ k.new = NoKey
    OBVIOUS
  <2>3. call[c].step = "NONE" /\ call' = [call EXCEPT ![c] = k]
    BY <1>1 DEF BeginPut, NoCall
  <2> HIDE DEF k
  <2> QED
    BY <1>1, <2>1, <2>2, <2>3, CallBegins DEF BeginPut
<1>2. ASSUME NEW c \in Calls, BeginDelete(c) PROVE CapsuleInv'
  <2> DEFINE k == [step |-> "DELETING", id |-> capsule.id, old |-> capsule.key, new |-> NoKey]
  <2>1. k \in CallRecord
    BY CapsuleTypes DEF CallRecord, CallStep
  <2>2. k.step = "DELETING" /\ k.id = capsule.id /\ k.old = capsule.key /\ k.new = NoKey
    OBVIOUS
  <2>3. call[c].step = "NONE" /\ call' = [call EXCEPT ![c] = k]
    BY <1>2 DEF BeginDelete, NoCall
  <2> HIDE DEF k
  <2> QED
    BY <1>2, <2>1, <2>2, <2>3, CallBegins DEF BeginDelete
<1>3. CASE UNCHANGED capsuleVars
  BY <1>3 DEF capsuleVars, CapsuleInv, CapsuleTypeOK, KeysDrawn, FreshPuts, OneId, Deletions, Pointed,
              StoredIsAccounted, InHand, Step
<1> QED
  BY <1>1, <1>2, <1>3, PutObjectKeeps, WritePutKeeps, DeleteOldKeeps, DeleteObjectKeeps,
     WriteDeleteKeeps, StopCallKeeps DEF CapsuleNext

\* However the requests of a customer overlap and wherever they stop, every
\* object in storage is pointed to, in hand, or one of the losses the
\* property names (PUT and DELETE /innovations/memory-capsule).
THEOREM StorageIsAccounted == CapsuleSpec => []StoredIsAccounted
<1>1. CapsuleInv => StoredIsAccounted
  BY DEF CapsuleInv
<1> QED
  BY <1>1, CapsuleInitInv, CapsuleNextInv, PTL DEF CapsuleSpec
=============================================================================
