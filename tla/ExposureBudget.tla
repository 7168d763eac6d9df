---------------------------- MODULE ExposureBudget ----------------------------
(***************************************************************************)
(* One exposure grant: a kitchen may look at a recipe while the strength   *)
(* of its grant, which halves every half-life and drops with each look,    *)
(* is at or above a floor.                                                 *)
(*                                                                         *)
(*   server/secret-halflife.ts  createExposureGrant, recordExposureAccess, *)
(*                              revokeExposureGrant                        *)
(*   server/advanced.ts         POST /exposure/:id/access                  *)
(*   server/kill-switch.ts      RECIPE_REVEALS and TEMP_GRANTS             *)
(*                                                                         *)
(* A look is judged by the time at which it was asked for, before it       *)
(* waited for the row (SELECT ... FOR UPDATE, on PostgreSQL), and the      *)
(* row's status is consulted for REVOKED alone.  Time is counted in        *)
(* half-lives.                                                             *)
(***************************************************************************)
EXTENDS Integers, Sequences

CONSTANTS
    Looks,         \* requests that may be in progress at once
    InitialBp,     \* initial_exposure_bp
    FloorBp,       \* floor_bp
    AccessDecay,   \* access_decay_bp
    HardExpiry,    \* hard_expires_at
    Horizon        \* bound: half-lives watched

ASSUME StrengthAssumption == InitialBp \in Nat \ {0} /\ AccessDecay \in Nat
ASSUME FloorAssumption    == FloorBp \in Nat /\ FloorBp < InitialBp
ASSUME TimeAssumption     == HardExpiry \in Nat \ {0} /\ Horizon \in Nat

VARIABLES
    grant,     \* secret_exposure_grants: status and access_count
    hour,      \* the time
    reveals,   \* security_kill_switches of RECIPE_REVEALS: is it engaged?
    look,      \* where each request stands
    spent,     \* ALLOWED rows of secret_exposure_access_events: their times
    shutAt     \* history: the time by which the grant was last closed

exposureVars == <<grant, hour, reveals, look, spent, shutAt>>

GrantStatus == {"ACTIVE", "EXHAUSTED", "EXPIRED", "REVOKED"}
LookStep    == {"NONE", "ASKED", "QUEUED", "READING"}
NoLook      == [step |-> "NONE", at |-> 0, seen |-> 0, revoked |-> FALSE]

\* computeExposureStrengthBp; the rounding of the quotient is left out.  Every
\* half-life halves what time leaves of a grant.
Faded[t \in Nat] == IF t = 0 THEN InitialBp ELSE Faded[t - 1] \div 2

Strength(t, uses) ==
    LET raw == Faded[t] - uses * AccessDecay
    IN  IF raw > 0 THEN raw ELSE 0

\* The row is locked while a transaction decides about it.
GrantFree == \A l \in Looks : look[l].step # "READING"

ExposureInit ==
    /\ grant   = [status |-> "ACTIVE", uses |-> 0]
    /\ hour    = 0
    /\ reveals = "CLEAR"
    /\ look    = [l \in Looks |-> NoLook]
    /\ spent   = <<>>
    /\ shutAt  = 0

-----------------------------------------------------------------------------
(* POST /exposure/:id/access.                                               *)

\* assertKillSwitchClear, and the snapshot the membership is checked on.
AskLook(l) ==
    /\ look[l].step = "NONE"
    /\ reveals = "CLEAR"
    /\ look' = [look EXCEPT ![l].step = "ASKED"]
    /\ UNCHANGED <<grant, hour, reveals, spent, shutAt>>

\* recordExposureAccess is called: atMs = Date.now().
QueueLook(l) ==
    /\ look[l].step = "ASKED"
    /\ look' = [look EXCEPT ![l].step = "QUEUED", ![l].at = hour]
    /\ UNCHANGED <<grant, hour, reveals, spent, shutAt>>

\* Faulty variant: the row is read without FOR UPDATE.
ReadUnlocked(l) ==
    /\ look[l].step = "QUEUED"
    /\ look' = [look EXCEPT ![l] = [step |-> "READING", at |-> @.at, seen |-> grant.uses,
                                    revoked |-> (grant.status = "REVOKED")]]
    /\ UNCHANGED <<grant, hour, reveals, spent, shutAt>>

\* SELECT ... FOR UPDATE, once the row is free.
ReadGrant(l) ==
    /\ look[l].step = "QUEUED"
    /\ GrantFree
    /\ look' = [look EXCEPT ![l] = [step |-> "READING", at |-> @.at, seen |-> grant.uses,
                                    revoked |-> (grant.status = "REVOKED")]]
    /\ UNCHANGED <<grant, hour, reveals, spent, shutAt>>

\* The request ends, with the grant left as it is or closed with `status`.
Refuse(l, status) ==
    /\ look'   = [look EXCEPT ![l] = NoLook]
    /\ grant'  = IF grant.status = "ACTIVE" THEN [grant EXCEPT !.status = status] ELSE grant
    /\ shutAt' = IF grant'.status # grant.status THEN look[l].at ELSE shutAt
    /\ UNCHANGED <<hour, reveals, spent>>

RefuseRevoked(l) ==
    /\ look[l].step = "READING" /\ look[l].revoked
    /\ Refuse(l, grant.status)

RefuseExpired(l) ==
    /\ look[l].step = "READING" /\ ~look[l].revoked
    /\ look[l].at >= HardExpiry
    /\ Refuse(l, "EXPIRED")

RefuseWeak(l) ==
    /\ look[l].step = "READING" /\ ~look[l].revoked
    /\ look[l].at < HardExpiry
    /\ Strength(look[l].at, look[l].seen) < FloorBp
    /\ Refuse(l, "EXHAUSTED")

\* One look is spent; the grant is written ACTIVE or EXHAUSTED by the
\* strength that is left, whatever its status was.
Allow(l) ==
    LET t == look[l].at
        n == look[l].seen + 1
    IN
    /\ look[l].step = "READING" /\ ~look[l].revoked
    /\ t < HardExpiry
    /\ Strength(t, look[l].seen) >= FloorBp
    /\ grant'  = [status |-> IF Strength(t, n) >= FloorBp THEN "ACTIVE" ELSE "EXHAUSTED",
                  uses   |-> n]
    /\ shutAt' = IF Strength(t, n) >= FloorBp THEN shutAt ELSE t
    /\ spent'  = Append(spent, t)
    /\ look'   = [look EXCEPT ![l] = NoLook]
    /\ UNCHANGED <<hour, reveals>>

-----------------------------------------------------------------------------
(* Revocation, containment and time.                                        *)

\* Faulty variant: the UPDATE slips in between a look's read and its write.
RevokeAtOnce ==
    /\ grant.status # "REVOKED"
    /\ grant' = [grant EXCEPT !.status = "REVOKED"]
    /\ UNCHANGED <<hour, reveals, look, spent, shutAt>>

\* revokeExposureGrant: the UPDATE waits for the row.
RevokeGrant ==
    /\ GrantFree
    /\ grant.status # "REVOKED"
    /\ grant' = [grant EXCEPT !.status = "REVOKED"]
    /\ UNCHANGED <<hour, reveals, look, spent, shutAt>>

\* TEMP_GRANTS is engaged: grants that are ACTIVE, and no others.
ContainGrants ==
    /\ GrantFree
    /\ grant.status = "ACTIVE"
    /\ grant' = [grant EXCEPT !.status = "REVOKED"]
    /\ UNCHANGED <<hour, reveals, look, spent, shutAt>>

SwitchReveals(state) ==
    /\ reveals' = state
    /\ UNCHANGED <<grant, hour, look, spent, shutAt>>

\* A request ends before it reached the row (not this kitchen's grant).
DropLook(l) ==
    /\ look[l].step = "ASKED"
    /\ look' = [look EXCEPT ![l] = NoLook]
    /\ UNCHANGED <<grant, hour, reveals, spent, shutAt>>

Elapse ==
    /\ hour < Horizon
    /\ hour' = hour + 1
    /\ UNCHANGED <<grant, reveals, look, spent, shutAt>>

ExposureNext ==
    \/ \E l \in Looks :
          \/ AskLook(l) \/ QueueLook(l) \/ ReadGrant(l) \/ DropLook(l)
          \/ RefuseRevoked(l) \/ RefuseExpired(l) \/ RefuseWeak(l) \/ Allow(l)
    \/ RevokeGrant
    \/ ContainGrants
    \/ \E s \in {"CLEAR", "ENGAGED"} : SwitchReveals(s)
    \/ Elapse

ExposureSpec == ExposureInit /\ [][ExposureNext]_exposureVars

-----------------------------------------------------------------------------
(* Properties.                                                              *)

ExposureTypeOK ==
    /\ grant \in [status : GrantStatus, uses : Nat]
    /\ hour \in Nat /\ shutAt \in Nat
    /\ reveals \in {"CLEAR", "ENGAGED"}
    /\ look \in [Looks -> [step : LookStep, at : Nat, seen : Nat, revoked : BOOLEAN]]
    /\ spent \in Seq(Nat)

\* Every look that was allowed was counted, and had been asked for while the
\* strength left by all the looks allowed before it reached the floor, so
\* concurrent readers never share the last of the budget; and the look that
\* leaves a grant open leaves enough for another at that time
\* (recordExposureAccess: "concurrent readers cannot both consume the last
\* remaining budget").
BudgetHolds ==
    /\ Len(spent) = grant.uses
    /\ \A i \in 1..Len(spent) :
          spent[i] < HardExpiry /\ Strength(spent[i], i - 1) >= FloorBp
    /\ grant.status = "ACTIVE" /\ spent # <<>> =>
          Strength(spent[Len(spent)], Len(spent)) >= FloorBp

\* A grant that closed by itself is opened again only by a look that was
\* asked for before the look that closed it, and a revoked grant by none:
\* whoever waited longest for the row may undo what was decided meanwhile.
ClosedStaysClosed ==
    [][/\ grant.status = "REVOKED" => grant' = grant
       /\ grant.status \in {"EXHAUSTED", "EXPIRED"} /\ grant'.status = "ACTIVE" =>
             \E l \in Looks : look[l].step = "READING" /\ look[l].at < shutAt]_exposureVars
=============================================================================
