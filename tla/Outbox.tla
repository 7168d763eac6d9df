------------------------------- MODULE Outbox -------------------------------
(***************************************************************************)
(* Notifications on their way out of the platform.  An action of the       *)
(* system puts a notification in a user's inbox and, if the user wants it, *)
(* a row in the outbox; the delivery worker of every server instance       *)
(* selects the rows that are due, claims each for a minute, hands it to    *)
(* the provider and records the outcome.                                   *)
(*                                                                         *)
(*   server/notifications.ts  inbox and outbox rows                        *)
(*   server/delivery.ts       worker, claims, retries                      *)
(*   server/idle-aware.ts     the loop a worker runs in                    *)
(*                                                                         *)
(* A worker remembers a row as it selected it.  Instances share nothing    *)
(* but the database, and one may stop at any point and be replaced.        *)
(***************************************************************************)
EXTENDS Integers

CONSTANTS
    Instances,      \* server instances, one worker each
    Notices,        \* notifications, by user and dedupe key, on one channel
    MaxAttempts,    \* attempts before a row is given up; 5 in the code
    MaxCrashes      \* bound: instances that stop and are replaced

ASSUME AttemptsAssumption == MaxAttempts \in Nat \ {0}
ASSUME CrashesAssumption  == MaxCrashes \in Nat

VARIABLES
    inbox,      \* notification_inbox.status
    row,        \* notification_outbox.status
    attempts,   \* notification_outbox.attempts
    due,        \* available_at has come
    claim,      \* notification_delivery_claims.owner_id, if there is a claim
    lease,      \* claimed_until is still ahead
    job,        \* what an instance is doing about a row it selected
    tries,      \* history: attempts that ended with an error
    overran,    \* history: a claim ran out while its owner was at work
    crashes

rowVars == <<inbox, row, attempts, due>>
history == <<tries, overran, crashes>>
vars == <<inbox, row, attempts, due, claim, lease, job, tries, overran, crashes>>

Nobody == "NOBODY"      \* no claim
Gone   == "GONE"        \* a worker that has been replaced: owner ids are fresh

ASSUME InstancesAssumption == Nobody \notin Instances /\ Gone \notin Instances

InboxStatus == {"ABSENT", "UNREAD", "READ"}
RowStatus   == {"NONE", "PENDING", "SENT", "FAILED"}

\* Selected with that many attempts, being sent, with an outcome to record,
\* and with a claim to give back.
Stage == {"SELECTED", "SENDING", "DELIVERED", "FAILED", "DONE"}
Idle  == [at |-> "IDLE", seen |-> 0]
Job   == {Idle} \cup [at : Stage, seen : 0..(MaxAttempts - 1)]

Init ==
    /\ inbox    = [n \in Notices |-> "ABSENT"]
    /\ row      = [n \in Notices |-> "NONE"]
    /\ attempts = [n \in Notices |-> 0]
    /\ due      = [n \in Notices |-> FALSE]
    /\ claim    = [n \in Notices |-> Nobody]
    /\ lease    = [n \in Notices |-> FALSE]
    /\ job      = [i \in Instances |-> [n \in Notices |-> Idle]]
    /\ tries    = [n \in Notices |-> 0]
    /\ overran  = [n \in Notices |-> FALSE]
    /\ crashes  = 0

At(i, n, at) == job[i][n].at = at
Move(i, n, at) == job' = [job EXCEPT ![i][n].at = at]
Working(i, n) == job[i][n].at \in {"SENDING", "DELIVERED", "FAILED", "DONE"}

-----------------------------------------------------------------------------
(* Inbox.                                                                   *)

\* A notification with a new dedupe key; preferences say whether it is also
\* sent, and quiet hours whether at once.
CreateNotification(n) ==
    /\ inbox[n] = "ABSENT"
    /\ inbox' = [inbox EXCEPT ![n] = "UNREAD"]
    /\ \/ UNCHANGED <<row, due>>
       \/ /\ row' = [row EXCEPT ![n] = "PENDING"]
          /\ \E quiet \in BOOLEAN : due' = [due EXCEPT ![n] = ~quiet]
    /\ UNCHANGED <<attempts, claim, lease, job, history>>

\* The same key again: the item is unread anew, the outbox is left alone.
Coalesce(n) ==
    /\ inbox[n] = "READ"
    /\ inbox' = [inbox EXCEPT ![n] = "UNREAD"]
    /\ UNCHANGED <<row, attempts, due, claim, lease, job, history>>

MarkRead(n) ==
    /\ inbox[n] = "UNREAD"
    /\ inbox' = [inbox EXCEPT ![n] = "READ"]
    /\ UNCHANGED <<row, attempts, due, claim, lease, job, history>>

-----------------------------------------------------------------------------
(* Worker.                                                                  *)

\* A tick starts when the one before has ended, and selects what is due.
Tick(i) ==
    /\ \A n \in Notices : At(i, n, "IDLE")
    /\ \E n \in Notices : row[n] = "PENDING" /\ due[n]
    /\ job' = [job EXCEPT ![i] =
                  [n \in Notices |-> IF row[n] = "PENDING" /\ due[n]
                                     THEN [at |-> "SELECTED", seen |-> attempts[n]]
                                     ELSE Idle]]
    /\ UNCHANGED <<rowVars, claim, lease, history>>

\* Faulty variants: a claim that ran out is not cleared, or any claim is.
ClaimIfAbsent(n) == claim[n] = Nobody
ClaimAnyway(n)   == TRUE

Claimable(n) == claim[n] = Nobody \/ ~lease[n]

\* One transaction: delete the claim if it ran out, insert one of our own.
ClaimRow(i, n) ==
    /\ At(i, n, "SELECTED")
    /\ Claimable(n)
    /\ claim' = [claim EXCEPT ![n] = i]
    /\ lease' = [lease EXCEPT ![n] = TRUE]
    /\ Move(i, n, "SENDING")
    /\ UNCHANGED <<rowVars, history>>

LeaveRow(i, n) ==
    /\ At(i, n, "SELECTED")
    /\ ~Claimable(n)
    /\ job' = [job EXCEPT ![i][n] = Idle]
    /\ UNCHANGED <<rowVars, claim, lease, history>>

\* The provider takes the message.
Deliver(i, n) ==
    /\ At(i, n, "SENDING")
    /\ Move(i, n, "DELIVERED")
    /\ UNCHANGED <<rowVars, claim, lease, history>>

\* The provider refuses it, does not answer in time, though it may have taken
\* it, or there is no device to send it to.
FailToDeliver(i, n) ==
    /\ At(i, n, "SENDING")
    /\ Move(i, n, "FAILED")
    /\ tries' = [tries EXCEPT ![n] = @ + 1]
    /\ UNCHANGED <<rowVars, claim, lease, overran, crashes>>

RecordSent(i, n) ==
    /\ At(i, n, "DELIVERED")
    /\ IF row[n] = "PENDING"
       THEN /\ row'      = [row EXCEPT ![n] = "SENT"]
            /\ attempts' = [attempts EXCEPT ![n] = @ + 1]
       ELSE UNCHANGED <<row, attempts>>
    /\ Move(i, n, "DONE")
    /\ UNCHANGED <<inbox, due, claim, lease, history>>

\* Faulty variant: a row is given up one attempt early.
GiveUpEarly(failed) == failed >= MaxAttempts - 1

GivenUp(failed) == failed >= MaxAttempts

\* Counts from the attempts the row had when it was selected, and writes
\* whatever became of it since.
RecordFailure(i, n) ==
    /\ At(i, n, "FAILED")
    /\ LET failed == job[i][n].seen + 1 IN
          /\ attempts' = [attempts EXCEPT ![n] = failed]
          /\ row' = [row EXCEPT ![n] = IF GivenUp(failed) THEN "FAILED" ELSE "PENDING"]
    /\ due' = [due EXCEPT ![n] = FALSE]
    /\ Move(i, n, "DONE")
    /\ UNCHANGED <<inbox, claim, lease, history>>

\* Finally, the claim is deleted, if it is still ours.
Release(i, n) ==
    /\ At(i, n, "DONE")
    /\ claim' = [claim EXCEPT ![n] = IF @ = i THEN Nobody ELSE @]
    /\ job'   = [job EXCEPT ![i][n] = Idle]
    /\ UNCHANGED <<rowVars, lease, history>>

-----------------------------------------------------------------------------
(* Time and failures.                                                       *)

\* A retry's delay or the quiet hours end.
ComeDue(n) ==
    /\ row[n] = "PENDING" /\ ~due[n]
    /\ due' = [due EXCEPT ![n] = TRUE]
    /\ UNCHANGED <<inbox, row, attempts, claim, lease, job, history>>

\* A minute after the claim: its owner stopped, or several devices were slow
\* to answer.
LeaseElapses(n) ==
    /\ claim[n] # Nobody /\ lease[n]
    /\ lease'   = [lease EXCEPT ![n] = FALSE]
    /\ overran' = [overran EXCEPT ![n] = @ \/ \E i \in Instances : Working(i, n)]
    /\ UNCHANGED <<rowVars, claim, job, tries, crashes>>

\* The instance that replaces it draws an owner id of its own.
Crash(i) ==
    /\ crashes < MaxCrashes
    /\ crashes' = crashes + 1
    /\ claim' = [n \in Notices |-> IF claim[n] = i THEN Gone ELSE claim[n]]
    /\ job'   = [job EXCEPT ![i] = [n \in Notices |-> Idle]]
    /\ UNCHANGED <<rowVars, lease, tries, overran>>

-----------------------------------------------------------------------------
WorkerStep(i, n) ==
    \/ ClaimRow(i, n) \/ LeaveRow(i, n)
    \/ Deliver(i, n) \/ FailToDeliver(i, n)
    \/ RecordSent(i, n) \/ RecordFailure(i, n)
    \/ Release(i, n)

Next ==
    \/ \E n \in Notices : CreateNotification(n) \/ Coalesce(n) \/ MarkRead(n)
    \/ \E i \in Instances : Tick(i) \/ Crash(i)
    \/ \E i \in Instances, n \in Notices : WorkerStep(i, n)
    \/ \E n \in Notices : ComeDue(n) \/ LeaseElapses(n)

\* The loop of every instance goes on, calls to the provider end (they are
\* aborted after twelve seconds) and time passes.
Fairness ==
    /\ \A i \in Instances : WF_vars(Tick(i))
    /\ \A i \in Instances, n \in Notices : WF_vars(WorkerStep(i, n))
    /\ \A n \in Notices : WF_vars(ComeDue(n)) /\ WF_vars(LeaseElapses(n))

Spec == Init /\ [][Next]_vars
FairSpec == Spec /\ Fairness

-----------------------------------------------------------------------------
(* Properties.                                                              *)

\* Every row has a value its table admits; a pending row has attempts left.
TypeOK ==
    /\ inbox    \in [Notices -> InboxStatus]
    /\ row      \in [Notices -> RowStatus]
    /\ attempts \in [Notices -> 0..MaxAttempts]
    /\ due      \in [Notices -> BOOLEAN]
    /\ claim    \in [Notices -> Instances \cup {Nobody, Gone}]
    /\ lease    \in [Notices -> BOOLEAN]
    /\ job      \in [Instances -> [Notices -> Job]]
    /\ tries    \in [Notices -> Nat]
    /\ overran  \in [Notices -> BOOLEAN]
    /\ crashes  \in 0..MaxCrashes
    /\ \A n \in Notices : row[n] = "PENDING" => attempts[n] < MaxAttempts

\* Two instances are never at work on one row, unless a claim on it ran out
\* before its owner was done (delivery.ts:73-82).
OneSender ==
    \A n \in Notices : ~overran[n] =>
       \A i, j \in Instances : Working(i, n) /\ Working(j, n) => i = j

\* A notification is given up only after MaxAttempts attempts failed, though
\* workers count from attempts they read earlier and write over each other's
\* (delivery.ts:115-121).
NoEarlyGiveUp ==
    \A n \in Notices : row[n] = "FAILED" => tries[n] >= MaxAttempts

\* However instances stop, claims are left behind and workers undo each
\* other's outcome, every row is settled for good (delivery.ts:84-125).
RowsSettle == \A n \in Notices : <>[](row[n] # "PENDING")
=============================================================================
