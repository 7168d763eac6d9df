------------------------------ MODULE DropSale ------------------------------
(***************************************************************************)
(* What the purchase cycle promises, with no payment intent, webhook,      *)
(* sweeper or stock counter in sight: the branch sells what fits its       *)
(* capacity and the cap of the launch, an order moves along one path, and  *)
(* an order that was cancelled or refunded is over.  OrderPayments is      *)
(* shown to implement it where it does.                                    *)
(***************************************************************************)
EXTENDS Integers, FiniteSets

CONSTANTS Orders, Units, Capacities, QuantityCap

VARIABLES
    status,   \* what the customer sees of the order
    limit     \* units the branch agreed to prepare

vars == <<status, limit>>

Status  == {"NONE", "PENDING_PAYMENT", "PAID", "FULFILLED", "CANCELLED", "REFUNDED"}
Holding == {"PENDING_PAYMENT", "PAID", "FULFILLED"}

Tokens(o) == {o} \X (1..Units[o])
Owed == Cardinality(UNION {Tokens(o) : o \in {p \in Orders : status[p] \in Holding}})

Init ==
    /\ status = [o \in Orders |-> "NONE"]
    /\ limit \in Capacities

Place(o) ==
    /\ status[o] = "NONE"
    /\ Owed + Units[o] <= limit
    /\ Owed + Units[o] <= QuantityCap
    /\ status' = [status EXCEPT ![o] = "PENDING_PAYMENT"]
    /\ UNCHANGED limit

Advance(o, from, to) ==
    /\ status[o] = from
    /\ status' = [status EXCEPT ![o] = to]
    /\ UNCHANGED limit

Resize(c) ==
    /\ Owed <= c
    /\ limit' = c
    /\ UNCHANGED status

Next ==
    \/ \E o \in Orders :
          \/ Place(o)
          \/ Advance(o, "PENDING_PAYMENT", "PAID")
          \/ Advance(o, "PENDING_PAYMENT", "CANCELLED")
          \/ Advance(o, "PAID", "FULFILLED")
          \/ Advance(o, "PAID", "REFUNDED")
          \/ Advance(o, "FULFILLED", "REFUNDED")
    \/ \E c \in Capacities : Resize(c)

Spec == Init /\ [][Next]_vars

\* The branch never owes more than it agreed to prepare, nor the launch more
\* than its quantity cap.
NeverOversold == Owed <= limit /\ Owed <= QuantityCap
=============================================================================
