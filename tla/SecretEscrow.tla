---------------------------- MODULE SecretEscrow ----------------------------
(***************************************************************************)
(* A recipe disclosed in three stages: its creator advances the escrow,    *)
(* and the kitchen reads the stages disclosed so far, until the escrow     *)
(* runs out or is revoked.                                                 *)
(*                                                                         *)
(*   server/domain.ts       /innovations/secret-escrows                    *)
(*   server/kill-switch.ts  RECIPE_REVEALS                                 *)
(*                                                                         *)
(* An advance reads the escrow, puts the fragment into encrypted storage,  *)
(* and then writes; its UPDATE of the escrow names no status.              *)
(***************************************************************************)
EXTENDS Integers

CONSTANT Clerks     \* requests that may be in progress at once

Stages == 1..3

VARIABLES
    escrow,      \* progressive_secret_escrows: status and current_stage
    lapsed,      \* expires_at has passed
    revealing,   \* security_kill_switches of RECIPE_REVEALS
    disclosed,   \* progressive_secret_disclosures: the stages that have one
    clerk,       \* what each request in progress has checked
    revokedOnce, \* history: the creator has revoked the escrow
    revived,     \* history: an advance then made the escrow live again
    late         \* history: stages shown on a check made after the revocation

escrowVars == <<escrow, lapsed, revealing, disclosed, clerk, revokedOnce, revived, late>>

EscrowStatus == {"ACTIVE", "COMPLETED", "REVOKED"}
AtRest       == [op |-> "NONE", stage |-> 0]

EscrowInit ==
    /\ escrow      = [status |-> "ACTIVE", stage |-> 0]
    /\ lapsed      = FALSE
    /\ revealing   = "CLEAR"
    /\ disclosed   = {}
    /\ clerk       = [r \in Clerks |-> AtRest]
    /\ revokedOnce = FALSE
    /\ revived     = FALSE
    /\ late        = {}

\* POST .../advance: the escrow is live and a stage is left; the fragment is
\* then uploaded.
BeginAdvance(r) ==
    /\ clerk[r] = AtRest
    /\ escrow.status = "ACTIVE" /\ ~lapsed
    /\ escrow.stage < 3
    /\ clerk' = [clerk EXCEPT ![r] = [op |-> "ADVANCE", stage |-> escrow.stage + 1]]
    /\ UNCHANGED <<escrow, lapsed, revealing, disclosed, revokedOnce, revived, late>>

\* Faulty variant: without UNIQUE(escrow_id, stage_number).
CommitAnyAdvance(r) ==
    LET s == clerk[r].stage IN
    /\ clerk[r].op = "ADVANCE"
    /\ disclosed' = disclosed \cup {s}
    /\ escrow'    = [status |-> IF s = 3 THEN "COMPLETED" ELSE "ACTIVE", stage |-> s]
    /\ revived'   = (revived \/ escrow.status = "REVOKED")
    /\ clerk'     = [clerk EXCEPT ![r] = AtRest]
    /\ UNCHANGED <<lapsed, revealing, revokedOnce, late>>

\* The transaction: a second disclosure of a stage is refused, the escrow is
\* set to the stage and to the status that goes with it.
CommitAdvance(r) ==
    LET s == clerk[r].stage IN
    /\ clerk[r].op = "ADVANCE"
    /\ s \notin disclosed
    /\ disclosed' = disclosed \cup {s}
    /\ escrow'    = [status |-> IF s = 3 THEN "COMPLETED" ELSE "ACTIVE", stage |-> s]
    /\ revived'   = (revived \/ escrow.status = "REVOKED")
    /\ clerk'     = [clerk EXCEPT ![r] = AtRest]
    /\ UNCHANGED <<lapsed, revealing, revokedOnce, late>>

\* POST .../revoke, whatever the status.
RevokeEscrow ==
    /\ escrow'      = [escrow EXCEPT !.status = "REVOKED"]
    /\ revokedOnce' = TRUE
    /\ UNCHANGED <<lapsed, revealing, disclosed, clerk, revived, late>>

\* GET .../disclosures/:stage: assertKillSwitchClear first ...
AskFragment(r) ==
    /\ clerk[r] = AtRest
    /\ revealing = "CLEAR"
    /\ clerk' = [clerk EXCEPT ![r] = [op |-> "READ", stage |-> 0]]
    /\ UNCHANGED <<escrow, lapsed, revealing, disclosed, revokedOnce, revived, late>>

\* ... then the escrow is checked, and a stage it has reached is shown:
\* disclosures and their objects are never changed.
ShowFragment(r, s) ==
    /\ clerk[r].op = "READ"
    /\ escrow.status # "REVOKED" /\ ~lapsed
    /\ s <= escrow.stage /\ s \in disclosed
    /\ late'  = IF revokedOnce THEN late \cup {s} ELSE late
    /\ clerk' = [clerk EXCEPT ![r] = AtRest]
    /\ UNCHANGED <<escrow, lapsed, revealing, disclosed, revokedOnce, revived>>

\* A request is refused, by a check or by the database, or the upload fails.
DropRequest(r) ==
    /\ clerk[r] # AtRest
    /\ clerk' = [clerk EXCEPT ![r] = AtRest]
    /\ UNCHANGED <<escrow, lapsed, revealing, disclosed, revokedOnce, revived, late>>

Lapse ==
    /\ ~lapsed
    /\ lapsed' = TRUE
    /\ UNCHANGED <<escrow, revealing, disclosed, clerk, revokedOnce, revived, late>>

SwitchRevealing(state) ==
    /\ revealing' = state
    /\ UNCHANGED <<escrow, lapsed, disclosed, clerk, revokedOnce, revived, late>>

EscrowNext ==
    \/ \E r \in Clerks :
          \/ BeginAdvance(r)
          \/ CommitAdvance(r)
          \/ AskFragment(r)
          \/ \E s \in Stages : ShowFragment(r, s)
          \/ DropRequest(r)
    \/ RevokeEscrow
    \/ Lapse
    \/ \E state \in {"CLEAR", "ENGAGED"} : SwitchRevealing(state)

EscrowSpec == EscrowInit /\ [][EscrowNext]_escrowVars

-----------------------------------------------------------------------------
(* Properties.                                                              *)

EscrowTypeOK ==
    /\ escrow \in [status : EscrowStatus, stage : 0..3]
    /\ lapsed \in BOOLEAN /\ revokedOnce \in BOOLEAN /\ revived \in BOOLEAN
    /\ revealing \in {"CLEAR", "ENGAGED"}
    /\ disclosed \subseteq Stages /\ late \subseteq Stages
    /\ clerk \in [Clerks -> [op : {"NONE", "ADVANCE", "READ"}, stage : 0..3]]

\* Advances that overlap disclose each stage once and in order, and none of
\* them takes the escrow back to a stage it has left; what is disclosed is
\* shown after the creator revoked the escrow only if an advance that had
\* read it before made it live again (the UPDATE in domain.ts:958 does not
\* ask for the status the handler checked).
ShownAsDisclosed ==
    /\ disclosed = 1..escrow.stage
    /\ late # {} => revived
    /\ revokedOnce /\ ~revived => escrow.status = "REVOKED"
=============================================================================
