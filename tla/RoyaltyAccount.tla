--------------------------- MODULE RoyaltyAccount ---------------------------
(***************************************************************************)
(* What a creator is promised about the royalties of a drop: each is       *)
(* earned by a sale, falls due when the order is handed over, and is then  *)
(* either paid, once and in full, or dropped with a refunded sale.  Money  *)
(* leaves the platform only for royalties that are due, and exactly what   *)
(* they come to.                                                           *)
(***************************************************************************)
EXTENDS Integers, FiniteSets

CONSTANTS
    Orders,     \* the orders of the creator's drops
    Royalty     \* the royalty on each, in fils

VARIABLES
    royalty,    \* where the royalty of each order stands
    paidOut     \* fils that left for the creator

accountVars == <<royalty, paidOut>>

RoyaltyStatus == {"NONE", "EARNED", "DUE", "PAID", "DROPPED"}

\* A sum of royalties: a token for each fils of each of them.
Fils(S) == UNION {{o} \X (1..Royalty[o]) : o \in S}
Owed(S) == Cardinality(Fils(S))

Init ==
    /\ royalty = [o \in Orders |-> "NONE"]
    /\ paidOut = 0

Earn(o) ==
    /\ royalty[o] = "NONE"
    /\ royalty' = [royalty EXCEPT ![o] = "EARNED"]
    /\ UNCHANGED paidOut

FallDue(o) ==
    /\ royalty[o] = "EARNED"
    /\ royalty' = [royalty EXCEPT ![o] = "DUE"]
    /\ UNCHANGED paidOut

Drop(o) ==
    /\ royalty[o] \in {"EARNED", "DUE"}
    /\ royalty' = [royalty EXCEPT ![o] = "DROPPED"]
    /\ UNCHANGED paidOut

PayOut(S) ==
    /\ \A o \in S : royalty[o] = "DUE"
    /\ royalty' = [o \in Orders |-> IF o \in S THEN "PAID" ELSE royalty[o]]
    /\ paidOut' = paidOut + Owed(S)

Next ==
    \/ \E o \in Orders : Earn(o) \/ FallDue(o) \/ Drop(o)
    \/ \E S \in SUBSET Orders : PayOut(S)

Spec == Init /\ [][Next]_accountVars
=============================================================================
