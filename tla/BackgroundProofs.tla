-------------------------- MODULE BackgroundProofs --------------------------
(***************************************************************************)
(* Theorems about the loops of a server instance: the delivery worker      *)
(* (Outbox) and the announcement of launches (LaunchSchedule), for any     *)
(* number of instances, notifications, attempts, crashes, people,          *)
(* activations and stops, and without any fairness.                        *)
(***************************************************************************)
EXTENDS Outbox, LaunchSchedule, FiniteSetTheorems, TLAPS

-----------------------------------------------------------------------------
(* Types, and rows nobody has written yet.                                  *)

UnwrittenUntouched ==
    \A n \in Notices :
       /\ inbox[n] = "ABSENT" => row[n] = "NONE"
       /\ row[n] = "NONE" => attempts[n] = 0 /\ \A i \in Instances : At(i, n, "IDLE")

RowInv == TypeOK /\ UnwrittenUntouched

\* What a worker remembers of a row leaves at least one attempt.
LEMMA JobShape ==
    ASSUME TypeOK, NEW i \in Instances, NEW n \in Notices
    PROVE  /\ job[i][n].seen \in 0..(MaxAttempts - 1)
           /\ job[i][n].at \in Stage \cup {"IDLE"}
           /\ At(i, n, "IDLE") => job[i][n] = Idle
BY AttemptsAssumption DEF TypeOK, Job, Idle, Stage, At

LEMMA MoveShape ==
    ASSUME TypeOK, NEW i \in Instances, NEW n \in Notices, NEW at \in Stage,
           ~At(i, n, "IDLE"), Move(i, n, at)
    PROVE  /\ job' \in [Instances -> [Notices -> Job]]
           /\ job'[i][n] = [at |-> at, seen |-> job[i][n].seen]
           /\ \A j \in Instances, m \in Notices : j # i \/ m # n => job'[j][m] = job[j][m]
<1>1. job[i][n] \in [at : Stage, seen : 0..(MaxAttempts - 1)]
  BY DEF TypeOK, Job, Idle, At
<1>2. [job[i][n] EXCEPT !.at = at] = [at |-> at, seen |-> job[i][n].seen]
  BY <1>1
<1>3. [at |-> at, seen |-> job[i][n].seen] \in Job
  BY <1>1 DEF Job
<1>4. job' = [job EXCEPT ![i] = [job[i] EXCEPT ![n] = [at |-> at, seen |-> job[i][n].seen]]]
  BY <1>2 DEF Move
<1> QED
  BY <1>3, <1>4 DEF TypeOK

LEMMA RowInvInit == Init => RowInv
BY AttemptsAssumption, CrashesAssumption
   DEF Init, RowInv, UnwrittenUntouched, TypeOK, InboxStatus, RowStatus, Job, At, Idle

LEMMA RowInvNext == RowInv /\ [Next]_vars => RowInv'
<1> SUFFICES ASSUME RowInv, [Next]_vars PROVE RowInv'
  OBVIOUS
<1> USE DEF RowInv, rowVars, history
<1>1. ASSUME NEW n \in Notices, CreateNotification(n) PROVE RowInv'
  <2>1. row[n] = "NONE" /\ attempts[n] = 0
    BY <1>1 DEF CreateNotification, UnwrittenUntouched
  <2>2. TypeOK'
    <3>1. due' \in [Notices -> BOOLEAN]
      <4>1. CASE UNCHANGED due
        BY <4>1 DEF TypeOK
      <4>2. CASE \E quiet \in BOOLEAN : due' = [due EXCEPT ![n] = ~quiet]
        <5>1. PICK b \in BOOLEAN : due' = [due EXCEPT ![n] = b]
          BY <4>2
        <5> QED
          BY <5>1 DEF TypeOK
      <4> QED
        BY <1>1, <4>1, <4>2 DEF CreateNotification
    <3>2. /\ inbox' \in [Notices -> InboxStatus] /\ row' \in [Notices -> RowStatus]
          /\ \A m \in Notices : row'[m] = "PENDING" => row[m] = "PENDING" \/ attempts[m] = 0
      BY <1>1, <2>1 DEF CreateNotification, TypeOK, InboxStatus, RowStatus
    <3>3. UNCHANGED <<attempts, claim, lease, job, tries, overran, crashes>>
      BY <1>1 DEF CreateNotification
    <3> QED
      BY <3>1, <3>2, <3>3, AttemptsAssumption DEF TypeOK
  <2>3. UnwrittenUntouched'
    BY <1>1 DEF CreateNotification, UnwrittenUntouched, At, TypeOK
  <2> QED
    BY <2>2, <2>3
<1>8. ASSUME NEW n \in Notices, Coalesce(n) \/ MarkRead(n) \/ ComeDue(n) PROVE RowInv'
  <2>1. TypeOK'
    BY <1>8 DEF Coalesce, MarkRead, ComeDue, TypeOK, InboxStatus
  <2>2. UnwrittenUntouched'
    BY <1>8 DEF Coalesce, MarkRead, ComeDue, UnwrittenUntouched, At, TypeOK, InboxStatus
  <2> QED
    BY <2>1, <2>2
<1>9. ASSUME NEW n \in Notices, LeaseElapses(n) PROVE RowInv'
  <2>1. overran' \in [Notices -> BOOLEAN]
    <3> DEFINE ran == overran[n] \/ \E i \in Instances : Working(i, n)
    <3>1. ran \in BOOLEAN /\ overran' = [overran EXCEPT ![n] = ran]
      BY <1>9 DEF LeaseElapses
    <3> QED
      BY <3>1 DEF TypeOK
  <2>2. TypeOK'
    BY <1>9, <2>1 DEF LeaseElapses, TypeOK
  <2>3. UnwrittenUntouched'
    BY <1>9 DEF LeaseElapses, UnwrittenUntouched, At
  <2> QED
    BY <2>2, <2>3
<1>2. ASSUME NEW i \in Instances, Tick(i) PROVE RowInv'
  <2>1. \A n \in Notices : row[n] = "PENDING" =>
           [at |-> "SELECTED", seen |-> attempts[n]] \in Job
    BY AttemptsAssumption DEF TypeOK, Job, Stage
  <2>2. job' \in [Instances -> [Notices -> Job]]
    BY <1>2, <2>1 DEF Tick, TypeOK, Job
  <2>3. TypeOK'
    BY <1>2, <2>2 DEF Tick, TypeOK
  <2>4. UnwrittenUntouched'
    BY <1>2 DEF Tick, UnwrittenUntouched, At, Idle, TypeOK
  <2> QED
    BY <2>3, <2>4
<1>3. ASSUME NEW i \in Instances, Crash(i) PROVE RowInv'
  <2>1. TypeOK'
    BY <1>3, CrashesAssumption DEF Crash, TypeOK, Job
  <2>2. UnwrittenUntouched'
    BY <1>3 DEF Crash, UnwrittenUntouched, At, Idle, TypeOK
  <2> QED
    BY <2>1, <2>2
<1>4. ASSUME NEW i \in Instances, NEW n \in Notices, LeaveRow(i, n) \/ Release(i, n)
      PROVE  RowInv'
  <2>1. job' = [job EXCEPT ![i] = [job[i] EXCEPT ![n] = Idle]]
    BY <1>4 DEF LeaveRow, Release
  <2>2. TypeOK'
    BY <1>4, <2>1 DEF LeaveRow, Release, TypeOK, Job
  <2>3. UnwrittenUntouched'
    BY <1>4, <2>1 DEF LeaveRow, Release, UnwrittenUntouched, At, Idle, TypeOK
  <2> QED
    BY <2>2, <2>3
<1>5. ASSUME NEW i \in Instances, NEW n \in Notices,
             ClaimRow(i, n) \/ Deliver(i, n) \/ FailToDeliver(i, n)
      PROVE  RowInv'
  <2>1. PICK at \in Stage : Move(i, n, at)
    BY <1>5 DEF ClaimRow, Deliver, FailToDeliver, Stage
  <2>2. ~At(i, n, "IDLE")
    BY <1>5 DEF ClaimRow, Deliver, FailToDeliver, At
  <2>3. /\ job' \in [Instances -> [Notices -> Job]]
        /\ \A j \in Instances, m \in Notices : j # i \/ m # n => job'[j][m] = job[j][m]
    BY <2>1, <2>2, MoveShape
  <2>4. TypeOK'
    <3>1. /\ claim' \in [Notices -> Instances \cup {Nobody, Gone}]
          /\ lease' \in [Notices -> BOOLEAN] /\ tries' \in [Notices -> Nat]
      <4>1. CASE ClaimRow(i, n)
        BY <4>1 DEF ClaimRow, TypeOK
      <4>2. CASE Deliver(i, n)
        BY <4>2 DEF Deliver, TypeOK
      <4>3. CASE FailToDeliver(i, n)
        BY <4>3 DEF FailToDeliver, TypeOK
      <4> QED
        BY <1>5, <4>1, <4>2, <4>3
    <3>2. UNCHANGED <<inbox, row, attempts, due, overran, crashes>>
      BY <1>5 DEF ClaimRow, Deliver, FailToDeliver
    <3> QED
      BY <2>3, <3>1, <3>2 DEF TypeOK
  <2>5. row[n] # "NONE"
    BY <2>2 DEF UnwrittenUntouched
  <2>6. UNCHANGED rowVars
    BY <1>5 DEF ClaimRow, Deliver, FailToDeliver
  <2>7. UnwrittenUntouched'
    BY <2>3, <2>5, <2>6 DEF UnwrittenUntouched, At
  <2> QED
    BY <2>4, <2>7
<1>6. ASSUME NEW i \in Instances, NEW n \in Notices, RecordSent(i, n) \/ RecordFailure(i, n)
      PROVE  RowInv'
  <2>1. ~At(i, n, "IDLE") /\ Move(i, n, "DONE")
    BY <1>6 DEF RecordSent, RecordFailure, At
  <2>2. row[n] # "NONE"
    BY <2>1 DEF UnwrittenUntouched
  <2>3. /\ job' \in [Instances -> [Notices -> Job]]
        /\ \A j \in Instances, m \in Notices : j # i \/ m # n => job'[j][m] = job[j][m]
    BY <2>1, MoveShape DEF Stage
  <2>4. /\ row' \in [Notices -> RowStatus] /\ attempts' \in [Notices -> 0..MaxAttempts]
        /\ row'[n] # "NONE" /\ (row'[n] = "PENDING" => attempts'[n] < MaxAttempts)
        /\ \A m \in Notices : m # n => row'[m] = row[m] /\ attempts'[m] = attempts[m]
    <3>1. CASE RecordSent(i, n)
      BY <3>1, <2>2, AttemptsAssumption DEF RecordSent, TypeOK, RowStatus
    <3>2. CASE RecordFailure(i, n)
      BY <3>2, <2>2, JobShape, AttemptsAssumption
         DEF RecordFailure, GivenUp, TypeOK, RowStatus
    <3> QED
      BY <1>6, <3>1, <3>2
  <2>5. UNCHANGED <<inbox, claim, lease, tries, overran, crashes>> /\ due' \in [Notices -> BOOLEAN]
    BY <1>6 DEF RecordSent, RecordFailure, TypeOK
  <2>6. TypeOK'
    BY <2>3, <2>4, <2>5 DEF TypeOK
  <2>7. UnwrittenUntouched'
    BY <2>2, <2>3, <2>4, <2>5 DEF UnwrittenUntouched, At
  <2> QED
    BY <2>6, <2>7
<1>7. CASE UNCHANGED vars
  BY <1>7 DEF vars, TypeOK, UnwrittenUntouched, At
<1> QED
  BY <1>1, <1>2, <1>3, <1>4, <1>5, <1>6, <1>7, <1>8, <1>9 DEF Next, WorkerStep

\* Every reachable state is well typed: no row exceeds its attempts and a
\* pending row has one left (delivery.ts:115-121).
THEOREM TypeCorrect == Spec => []TypeOK
<1>1. RowInv => TypeOK
  BY DEF RowInv
<1> QED
  BY <1>1, RowInvInit, RowInvNext, PTL DEF Spec

-----------------------------------------------------------------------------
(* One worker at a time.                                                    *)

\* As long as no claim on a row ran out under its owner, whoever is at work
\* on the row holds a claim that has not run out.
HolderInv ==
    \A n \in Notices : ~overran[n] =>
       \A i \in Instances : Working(i, n) => claim[n] = i /\ lease[n]

\* What a step leaves of the workers: those at work before it still are, but
\* for the one that claims a row.
LEMMA HolderNext == TypeOK /\ HolderInv /\ [Next]_vars => HolderInv'
<1> SUFFICES ASSUME TypeOK, HolderInv, [Next]_vars PROVE HolderInv'
  OBVIOUS
<1> USE DEF rowVars, history
<1>1. ASSUME NEW m \in Notices,
             CreateNotification(m) \/ Coalesce(m) \/ MarkRead(m) \/ ComeDue(m)
      PROVE  HolderInv'
  BY <1>1 DEF CreateNotification, Coalesce, MarkRead, ComeDue, HolderInv, Working
<1>2. ASSUME NEW m \in Notices, LeaseElapses(m) PROVE HolderInv'
  <2> SUFFICES ASSUME NEW n \in Notices, ~overran'[n], NEW i \in Instances, Working(i, n)'
               PROVE  claim'[n] = i /\ lease'[n]
    BY DEF HolderInv
  <2>1. Working(i, n) /\ UNCHANGED claim
    BY <1>2 DEF LeaseElapses, Working
  <2>2. n # m
    <3>1. SUFFICES ASSUME n = m PROVE FALSE
      OBVIOUS
    <3>2. overran' = [overran EXCEPT ![m] = TRUE]
      BY <1>2, <2>1, <3>1 DEF LeaseElapses
    <3> QED
      BY <3>1, <3>2 DEF TypeOK
  <2>3. overran'[n] = overran[n] /\ lease'[n] = lease[n]
    BY <1>2, <2>2 DEF LeaseElapses, TypeOK
  <2> QED
    BY <2>1, <2>3 DEF HolderInv
<1>3. ASSUME NEW j \in Instances, Tick(j) PROVE HolderInv'
  <2>1. \A i \in Instances, n \in Notices : Working(i, n)' => Working(i, n)
    BY <1>3 DEF Tick, Working, Idle, TypeOK
  <2> QED
    BY <1>3, <2>1 DEF Tick, HolderInv
<1>4. ASSUME NEW j \in Instances, Crash(j) PROVE HolderInv'
  <2>1. \A i \in Instances, n \in Notices : Working(i, n)' => i # j /\ Working(i, n)
    BY <1>4 DEF Crash, Working, Idle, TypeOK
  <2>2. \A i \in Instances, n \in Notices : i # j /\ claim[n] = i => claim'[n] = i
    BY <1>4 DEF Crash
  <2>3. UNCHANGED <<lease, overran>>
    BY <1>4 DEF Crash
  <2> QED
    BY <2>1, <2>2, <2>3 DEF HolderInv
<1>5. ASSUME NEW j \in Instances, NEW m \in Notices, ClaimRow(j, m) PROVE HolderInv'
  <2> SUFFICES ASSUME NEW n \in Notices, ~overran'[n], NEW i \in Instances, Working(i, n)'
               PROVE  claim'[n] = i /\ lease'[n]
    BY DEF HolderInv
  <2>1. /\ claim' = [claim EXCEPT ![m] = j] /\ lease' = [lease EXCEPT ![m] = TRUE]
        /\ UNCHANGED overran
    BY <1>5 DEF ClaimRow
  <2>2. i # j \/ n # m => Working(i, n)
    BY <1>5 DEF ClaimRow, Move, Working, TypeOK
  <2>3. CASE n = m /\ i = j
    BY <2>1, <2>3 DEF TypeOK
  <2>4. CASE n # m
    BY <2>1, <2>2, <2>4 DEF HolderInv, TypeOK
  <2>5. CASE n = m /\ i # j
    BY <1>5, <2>1, <2>2, <2>5, InstancesAssumption DEF ClaimRow, Claimable, HolderInv
  <2> QED
    BY <2>3, <2>4, <2>5
<1>6. ASSUME NEW j \in Instances, NEW m \in Notices,
             LeaveRow(j, m) \/ Deliver(j, m) \/ FailToDeliver(j, m)
                \/ RecordSent(j, m) \/ RecordFailure(j, m)
      PROVE  HolderInv'
  <2>1. UNCHANGED <<claim, lease, overran>>
    BY <1>6 DEF LeaveRow, Deliver, FailToDeliver, RecordSent, RecordFailure
  <2>2. \A i \in Instances, n \in Notices : Working(i, n)' => Working(i, n)
    <3>1. \A i \in Instances, n \in Notices : i # j \/ n # m => job'[i][n] = job[i][n]
      BY <1>6 DEF LeaveRow, Deliver, FailToDeliver, RecordSent, RecordFailure, Move, TypeOK
    <3>2. Working(j, m)' => Working(j, m)
      BY <1>6 DEF LeaveRow, Deliver, FailToDeliver, RecordSent, RecordFailure, Move,
                  Working, At, Idle, TypeOK
    <3> QED
      BY <3>1, <3>2 DEF Working
  <2> QED
    BY <2>1, <2>2 DEF HolderInv
<1>7. ASSUME NEW j \in Instances, NEW m \in Notices, Release(j, m) PROVE HolderInv'
  <2>1. \A i \in Instances, n \in Notices :
           Working(i, n)' => Working(i, n) /\ (i # j \/ n # m)
    BY <1>7 DEF Release, Working, Idle, TypeOK
  <2>2. \A i \in Instances, n \in Notices :
           (i # j \/ n # m) /\ claim[n] = i => claim'[n] = i
    BY <1>7 DEF Release, TypeOK
  <2>3. UNCHANGED <<lease, overran>>
    BY <1>7 DEF Release
  <2> QED
    BY <2>1, <2>2, <2>3 DEF HolderInv
<1>8. CASE UNCHANGED vars
  BY <1>8 DEF vars, HolderInv, Working
<1> QED
  BY <1>1, <1>2, <1>3, <1>4, <1>5, <1>6, <1>7, <1>8 DEF Next, WorkerStep

\* Two instances are never at work on one row before a claim on it ran out
\* under its owner, whatever stops and whenever (delivery.ts:73-82).
THEOREM OneSenderAtATime == Spec => []OneSender
<1>1. Init => HolderInv
  BY DEF Init, HolderInv, Working, Idle
<1>2. HolderInv => OneSender
  BY DEF HolderInv, OneSender
<1> QED
  BY <1>1, <1>2, HolderNext, TypeCorrect, PTL DEF Spec

-----------------------------------------------------------------------------
(* Giving up.                                                               *)

\* Counts never run ahead of the attempts that failed: neither a pending
\* row's, nor the one a worker remembers and will count on from.
CountInv ==
    \A n \in Notices :
       /\ row[n] = "PENDING" => attempts[n] <= tries[n]
       /\ \A i \in Instances :
             /\ ~At(i, n, "IDLE") => job[i][n].seen <= tries[n]
             /\ At(i, n, "FAILED") => job[i][n].seen < tries[n]

GiveUpInv == CountInv /\ NoEarlyGiveUp

LEMMA GiveUpNext == RowInv /\ GiveUpInv /\ [Next]_vars => GiveUpInv'
<1> SUFFICES ASSUME RowInv, GiveUpInv, [Next]_vars PROVE GiveUpInv'
  OBVIOUS
<1> USE DEF rowVars, history, RowInv, GiveUpInv
<1>1. ASSUME NEW m \in Notices, CreateNotification(m) PROVE GiveUpInv'
  <2>1. attempts[m] = 0 /\ UNCHANGED <<attempts, tries, job>>
    BY <1>1 DEF CreateNotification, UnwrittenUntouched
  <2>2. \A n \in Notices : row'[n] = row[n] \/ (n = m /\ row'[n] = "PENDING")
    BY <1>1 DEF CreateNotification, TypeOK
  <2>3. tries[m] \in Nat
    BY DEF TypeOK
  <2> QED
    BY <2>1, <2>2, <2>3 DEF CountInv, NoEarlyGiveUp, At
<1>2. ASSUME NEW m \in Notices,
             Coalesce(m) \/ MarkRead(m) \/ ComeDue(m) \/ LeaseElapses(m)
      PROVE  GiveUpInv'
  BY <1>2 DEF Coalesce, MarkRead, ComeDue, LeaseElapses, CountInv, NoEarlyGiveUp, At
<1>3. ASSUME NEW j \in Instances, Tick(j) PROVE GiveUpInv'
  <2>1. UNCHANGED <<row, attempts, tries>>
    BY <1>3 DEF Tick
  <2> SUFFICES ASSUME NEW n \in Notices
               PROVE  /\ row[n] = "PENDING" => attempts[n] <= tries[n]
                      /\ row[n] = "FAILED" => tries[n] >= MaxAttempts
                      /\ \A i \in Instances :
                            /\ ~At(i, n, "IDLE")' => job'[i][n].seen <= tries[n]
                            /\ At(i, n, "FAILED")' => job'[i][n].seen < tries[n]
    BY <2>1 DEF CountInv, NoEarlyGiveUp, At
  <2>2. \A i \in Instances :
           \/ job'[i][n] = job[i][n]
           \/ job'[i][n] = Idle
           \/ row[n] = "PENDING" /\ job'[i][n] = [at |-> "SELECTED", seen |-> attempts[n]]
    BY <1>3 DEF Tick, TypeOK
  <2> QED
    BY <2>2 DEF CountInv, NoEarlyGiveUp, At, Idle
<1>4. ASSUME NEW j \in Instances, Crash(j) PROVE GiveUpInv'
  <2>1. UNCHANGED <<row, attempts, tries>>
    BY <1>4 DEF Crash
  <2>2. \A i \in Instances, n \in Notices : job'[i][n] = job[i][n] \/ job'[i][n] = Idle
    BY <1>4 DEF Crash, TypeOK
  <2> QED
    BY <2>1, <2>2 DEF CountInv, NoEarlyGiveUp, At, Idle
<1>5. ASSUME NEW j \in Instances, NEW m \in Notices, LeaveRow(j, m) \/ Release(j, m)
      PROVE  GiveUpInv'
  <2>1. UNCHANGED <<row, attempts, tries>>
    BY <1>5 DEF LeaveRow, Release
  <2>2. \A i \in Instances, n \in Notices : job'[i][n] = job[i][n] \/ job'[i][n] = Idle
    BY <1>5 DEF LeaveRow, Release, TypeOK
  <2> QED
    BY <2>1, <2>2 DEF CountInv, NoEarlyGiveUp, At, Idle
<1>6. ASSUME NEW j \in Instances, NEW m \in Notices, NEW at \in Stage \ {"FAILED"},
             ~At(j, m, "IDLE"), Move(j, m, at), UNCHANGED <<row, attempts, tries>>
      PROVE  GiveUpInv'
  <2>1. /\ job'[j][m] = [at |-> at, seen |-> job[j][m].seen]
        /\ \A i \in Instances, n \in Notices : i # j \/ n # m => job'[i][n] = job[i][n]
    BY <1>6, MoveShape
  <2>2. job'[j][m].at # "FAILED" /\ job'[j][m].seen <= tries[m]
    BY <1>6, <2>1 DEF CountInv
  <2>3. \A i \in Instances, n \in Notices :
           /\ ~At(i, n, "IDLE")' => job'[i][n].seen <= tries[n]
           /\ At(i, n, "FAILED")' => job'[i][n].seen < tries[n]
    BY <2>1, <2>2 DEF CountInv, At
  <2> QED
    BY <1>6, <2>3 DEF CountInv, NoEarlyGiveUp, At
<1>7. ASSUME NEW j \in Instances, NEW m \in Notices, ClaimRow(j, m) \/ Deliver(j, m)
      PROVE  GiveUpInv'
  <2>1. ~At(j, m, "IDLE") /\ UNCHANGED <<row, attempts, tries>>
    BY <1>7 DEF ClaimRow, Deliver, At
  <2>2. PICK at \in Stage \ {"FAILED"} : Move(j, m, at)
    BY <1>7 DEF ClaimRow, Deliver, Stage
  <2> QED
    BY <1>6, <2>1, <2>2
<1>8. ASSUME NEW j \in Instances, NEW m \in Notices, FailToDeliver(j, m) PROVE GiveUpInv'
  <2>1. ~At(j, m, "IDLE") /\ Move(j, m, "FAILED") /\ UNCHANGED <<row, attempts>>
    BY <1>8 DEF FailToDeliver, At
  <2>2. /\ job'[j][m] = [at |-> "FAILED", seen |-> job[j][m].seen]
        /\ \A i \in Instances, n \in Notices : i # j \/ n # m => job'[i][n] = job[i][n]
    BY <2>1, MoveShape DEF Stage
  <2>3. /\ \A n \in Notices : tries'[n] >= tries[n] /\ tries[n] \in Nat /\ tries'[n] \in Nat
        /\ tries'[m] = tries[m] + 1
    BY <1>8 DEF FailToDeliver, TypeOK
  <2>4. \A n \in Notices : attempts[n] \in Nat
    BY AttemptsAssumption DEF TypeOK
  <2>5. \A i \in Instances, n \in Notices : job[i][n].seen \in Nat
    BY JobShape, AttemptsAssumption
  <2>6. job'[j][m].seen < tries'[m]
    BY <2>1, <2>2, <2>3, <2>5 DEF CountInv
  <2>7. \A i \in Instances, n \in Notices :
           /\ ~At(i, n, "IDLE")' => job'[i][n].seen <= tries'[n]
           /\ At(i, n, "FAILED")' => job'[i][n].seen < tries'[n]
    <3> SUFFICES ASSUME NEW i \in Instances, NEW n \in Notices
                 PROVE  /\ ~At(i, n, "IDLE")' => job'[i][n].seen <= tries'[n]
                        /\ At(i, n, "FAILED")' => job'[i][n].seen < tries'[n]
      OBVIOUS
    <3>1. CASE i = j /\ n = m
      BY <2>2, <2>3, <2>5, <2>6, <3>1
    <3>2. CASE i # j \/ n # m
      BY <2>2, <2>3, <2>5, <3>2 DEF CountInv, At
    <3> QED
      BY <3>1, <3>2
  <2>8. \A n \in Notices : row'[n] = "PENDING" => attempts'[n] <= tries'[n]
    BY <2>1, <2>3, <2>4 DEF CountInv
  <2>9. NoEarlyGiveUp'
    BY <2>1, <2>3, AttemptsAssumption DEF NoEarlyGiveUp
  <2> QED
    BY <2>7, <2>8, <2>9 DEF CountInv
<1>9. ASSUME NEW j \in Instances, NEW m \in Notices,
             RecordSent(j, m) \/ RecordFailure(j, m)
      PROVE  GiveUpInv'
  <2>1. ~At(j, m, "IDLE") /\ Move(j, m, "DONE") /\ UNCHANGED tries
    BY <1>9 DEF RecordSent, RecordFailure, At
  <2>2. /\ job'[j][m] = [at |-> "DONE", seen |-> job[j][m].seen]
        /\ \A i \in Instances, n \in Notices : i # j \/ n # m => job'[i][n] = job[i][n]
    BY <2>1, MoveShape DEF Stage
  <2>3. \A n \in Notices : n # m => row'[n] = row[n] /\ attempts'[n] = attempts[n]
    BY <1>9 DEF RecordSent, RecordFailure, TypeOK
  <2>4. /\ row'[m] = "PENDING" => attempts'[m] <= tries[m]
        /\ row'[m] = "FAILED" => tries[m] >= MaxAttempts
    <3>1. CASE RecordSent(j, m)
      BY <3>1 DEF RecordSent, CountInv, NoEarlyGiveUp, TypeOK
    <3>2. CASE RecordFailure(j, m)
      <4>1. job[j][m].seen < tries[m] /\ tries[m] \in Nat /\ job[j][m].seen \in Nat
        BY <3>2, JobShape, AttemptsAssumption DEF RecordFailure, CountInv, TypeOK
      <4>2. attempts'[m] = job[j][m].seen + 1
        BY <3>2 DEF RecordFailure, TypeOK
      <4>3. row'[m] = "FAILED" => job[j][m].seen + 1 >= MaxAttempts
        BY <3>2 DEF RecordFailure, GivenUp, TypeOK
      <4> QED
        BY <4>1, <4>2, <4>3, AttemptsAssumption
    <3> QED
      BY <1>9, <3>1, <3>2
  <2>5. \A i \in Instances, n \in Notices :
           /\ ~At(i, n, "IDLE")' => job'[i][n].seen <= tries[n]
           /\ At(i, n, "FAILED")' => job'[i][n].seen < tries[n]
    BY <2>1, <2>2 DEF CountInv, At
  <2>6. \A n \in Notices :
           /\ row'[n] = "PENDING" => attempts'[n] <= tries[n]
           /\ row'[n] = "FAILED" => tries[n] >= MaxAttempts
    BY <2>3, <2>4 DEF CountInv, NoEarlyGiveUp
  <2> QED
    BY <2>1, <2>5, <2>6 DEF CountInv, NoEarlyGiveUp
<1>10. CASE UNCHANGED vars
  BY <1>10 DEF vars, CountInv, NoEarlyGiveUp, At
<1> QED
  BY <1>1, <1>2, <1>3, <1>4, <1>5, <1>7, <1>8, <1>9, <1>10 DEF Next, WorkerStep

\* No notification is given up before MaxAttempts attempts at it failed, though
\* workers count on from what they read earlier (delivery.ts:115-121).
THEOREM NeverGivenUpEarly == Spec => []NoEarlyGiveUp
<1>1. Init => GiveUpInv
  BY DEF Init, GiveUpInv, CountInv, NoEarlyGiveUp, At, Idle
<1>2. GiveUpInv => NoEarlyGiveUp
  BY DEF GiveUpInv
<1> QED
  BY <1>1, <1>2, GiveUpNext, RowInvInit, RowInvNext, PTL DEF Spec

-----------------------------------------------------------------------------
(* The announcement of a launch.                                            *)

Sweeping == [at : {"ASLEEP", "SOON_FOUND", "REMINDED", "REMINDING", "DUE_FOUND", "ANNOUNCING"},
             view : Phase, waiters : SUBSET People, followers : SUBSET People, mark : SUBSET People]

ScheduleShape ==
    /\ launch \in {"READY", "LIVE", "PAUSED"} /\ phase \in Phase
    /\ reminded \in BOOLEAN /\ opened \in BOOLEAN
    /\ follows \subseteq People
    /\ sweep \in [Servers -> Sweeping]
    /\ \A s \in Servers : sweep[s].waiters \cap sweep[s].followers = {}
    /\ told \in [{"soon", "open"} -> [People -> Nat]]
    /\ scheduled \in Nat /\ activations \in Nat

\* A launch is announced after it was activated.
Activated ==
    activations = 0 =>
        /\ launch # "LIVE"
        /\ \A s \in Servers : sweep[s].at \in {"ASLEEP", "REMINDED"}

\* Who is still to be told by a sweep, and whether another one may follow.
Telling(sw, at, p) == {s \in Servers : sw[s].at = at /\ p \in sw[s].waiters \cup sw[s].followers}
Unclaimed(claimed) == IF ~claimed /\ activations > 0 THEN 1 ELSE 0

\* What has been told, is being told and may yet be told does not exceed what
\* was scheduled or activated.
ToldFor(p) ==
    /\ told["open"][p] + Cardinality(Telling(sweep, "ANNOUNCING", p)) + Unclaimed(opened) <= scheduled
    /\ told["soon"][p] + Cardinality(Telling(sweep, "REMINDING", p)) + Unclaimed(reminded) <= activations

ScheduleInv == ScheduleShape /\ Activated /\ \A p \in People : ToldFor(p)

LEMMA ScheduleInvInit == ScheduleInit => ScheduleInv
<1> SUFFICES ASSUME ScheduleInit PROVE ScheduleInv
  OBVIOUS
<1>1. Asleep \in Sweeping /\ Asleep.at = "ASLEEP" /\ Asleep.waiters = {} /\ Asleep.followers = {}
  BY DEF Asleep, Sweeping, Phase
<1>2. ScheduleShape
  BY <1>1 DEF ScheduleInit, ScheduleShape, Phase
<1>3. Activated
  BY <1>1 DEF ScheduleInit, Activated
<1>4. \A p \in People : Telling(sweep, "ANNOUNCING", p) = {} /\ Telling(sweep, "REMINDING", p) = {}
  BY <1>1 DEF ScheduleInit, Telling
<1>5. \A p \in People : ToldFor(p)
  BY <1>4, FS_EmptySet DEF ScheduleInit, ToldFor, Unclaimed
<1> QED
  BY <1>2, <1>3, <1>5 DEF ScheduleInv

\* Whether one sweep is telling somebody.
Tells(c, at, p) == IF c.at = at /\ p \in c.waiters \cup c.followers THEN 1 ELSE 0

LEMMA TellingNat ==
    ASSUME NEW sw, NEW at, NEW p
    PROVE  Cardinality(Telling(sw, at, p)) \in Nat
<1>1. IsFiniteSet(Telling(sw, at, p))
  BY ServersAssumption, FS_Subset DEF Telling
<1> QED
  BY <1>1, FS_CardinalityType

LEMMA OneSweepMoves ==
    ASSUME NEW sw, NEW new, NEW s \in Servers, \A k \in Servers \ {s} : new[k] = sw[k],
           NEW at, NEW p
    PROVE  Cardinality(Telling(new, at, p)) + Tells(sw[s], at, p)
             = Cardinality(Telling(sw, at, p)) + Tells(new[s], at, p)
<1> DEFINE S == {k \in Servers \ {s} : sw[k].at = at /\ p \in sw[k].waiters \cup sw[k].followers}
<1>1. IsFiniteSet(S) /\ Cardinality(S) \in Nat /\ s \notin S
  <2>1. IsFiniteSet(S)
    BY ServersAssumption, FS_Subset
  <2> QED
    BY <2>1, FS_CardinalityType
<1>2. Cardinality(S \cup {s}) = Cardinality(S) + 1
  BY <1>1, FS_AddElement
<1>3. Telling(sw, at, p) = IF sw[s].at = at /\ p \in sw[s].waiters \cup sw[s].followers
                           THEN S \cup {s} ELSE S
  BY DEF Telling
<1>4. Telling(new, at, p) = IF new[s].at = at /\ p \in new[s].waiters \cup new[s].followers
                            THEN S \cup {s} ELSE S
  BY DEF Telling
<1> HIDE DEF S
<1> QED
  BY <1>1, <1>2, <1>3, <1>4 DEF Tells

\* A step of one sweep, which tells no more than it had left to tell.
LEMMA SweepAlone ==
    ASSUME ScheduleInv, NEW s \in Servers, NEW r \in Sweeping, sweep' = [sweep EXCEPT ![s] = r],
           r.waiters \cap r.followers = {},
           activations = 0 => r.at \in {"ASLEEP", "REMINDED"},
           UNCHANGED <<launch, phase, follows, scheduled, activations>>,
           reminded' \in BOOLEAN, opened' \in BOOLEAN,
           told' \in [{"soon", "open"} -> [People -> Nat]],
           \A p \in People :
              /\ told'["open"][p] + Tells(r, "ANNOUNCING", p) + Unclaimed(opened')
                   <= told["open"][p] + Tells(sweep[s], "ANNOUNCING", p) + Unclaimed(opened)
              /\ told'["soon"][p] + Tells(r, "REMINDING", p) + Unclaimed(reminded')
                   <= told["soon"][p] + Tells(sweep[s], "REMINDING", p) + Unclaimed(reminded)
    PROVE  ScheduleInv'
<1>0. ScheduleShape /\ Activated /\ sweep \in [Servers -> Sweeping]
  BY DEF ScheduleInv, ScheduleShape
<1>1. ScheduleShape'
  BY <1>0 DEF ScheduleShape
<1>2. Activated'
  BY <1>0 DEF Activated
<1>3. ASSUME NEW p \in People PROVE ToldFor(p)'
  <2>1. ToldFor(p)
    BY DEF ScheduleInv
  <2>2. /\ Cardinality(Telling(sweep', "ANNOUNCING", p)) + Tells(sweep[s], "ANNOUNCING", p)
             = Cardinality(Telling(sweep, "ANNOUNCING", p)) + Tells(r, "ANNOUNCING", p)
        /\ Cardinality(Telling(sweep', "REMINDING", p)) + Tells(sweep[s], "REMINDING", p)
             = Cardinality(Telling(sweep, "REMINDING", p)) + Tells(r, "REMINDING", p)
    <3>1. PICK old, new : old = sweep /\ new = sweep'
      OBVIOUS
    <3>2. new[s] = r /\ \A k \in Servers \ {s} : new[k] = old[k]
      BY <1>0, <3>1
    <3>3. \A at : Cardinality(Telling(new, at, p)) + Tells(old[s], at, p)
                     = Cardinality(Telling(old, at, p)) + Tells(new[s], at, p)
      BY <3>2, OneSweepMoves
    <3> QED
      BY <3>1, <3>2, <3>3
  <2>3. /\ Cardinality(Telling(sweep, "ANNOUNCING", p)) \in Nat /\ Cardinality(Telling(sweep, "REMINDING", p)) \in Nat
    BY TellingNat
  <2>5. /\ Cardinality(Telling(sweep', "ANNOUNCING", p)) \in Nat
        /\ Cardinality(Telling(sweep', "REMINDING", p)) \in Nat
    BY TellingNat
  <2>6. /\ told["open"][p] \in Int /\ told["soon"][p] \in Int /\ scheduled \in Int /\ activations \in Int
        /\ told'["open"][p] \in Int /\ told'["soon"][p] \in Int
    BY <1>0, <1>1 DEF ScheduleShape
  <2>7. /\ Tells(r, "ANNOUNCING", p) \in Int /\ Tells(r, "REMINDING", p) \in Int
        /\ Tells(sweep[s], "ANNOUNCING", p) \in Int /\ Tells(sweep[s], "REMINDING", p) \in Int
        /\ Unclaimed(opened) \in Int /\ Unclaimed(opened') \in Int
        /\ Unclaimed(reminded) \in Int /\ Unclaimed(reminded') \in Int
    BY DEF Tells, Unclaimed
  <2>8. /\ told'["open"][p] + Cardinality(Telling(sweep', "ANNOUNCING", p)) + Unclaimed(opened') <= scheduled
        /\ told'["soon"][p] + Cardinality(Telling(sweep', "REMINDING", p)) + Unclaimed(reminded') <= activations
    BY <2>1, <2>2, <2>3, <2>5, <2>6, <2>7 DEF ToldFor
  <2>9. Unclaimed(opened)' = Unclaimed(opened') /\ Unclaimed(reminded)' = Unclaimed(reminded')
    BY DEF Unclaimed
  <2> QED
    BY <2>8, <2>9 DEF ToldFor
<1> QED
  BY <1>1, <1>2, <1>3 DEF ScheduleInv

\* A step that leaves the sweeps where they are.
LEMMA SweepsStay ==
    ASSUME ScheduleInv, ScheduleShape', Activated',
           \A s \in Servers : /\ sweep'[s].at = sweep[s].at
                              /\ sweep'[s].waiters = sweep[s].waiters
                              /\ sweep'[s].followers = sweep[s].followers,
           UNCHANGED told,
           Unclaimed(opened)' - scheduled' <= Unclaimed(opened) - scheduled,
           Unclaimed(reminded)' - activations' <= Unclaimed(reminded) - activations
    PROVE  ScheduleInv'
<1>1. ASSUME NEW p \in People PROVE ToldFor(p)'
  <2>1. Telling(sweep', "ANNOUNCING", p) = Telling(sweep, "ANNOUNCING", p) /\ Telling(sweep', "REMINDING", p) = Telling(sweep, "REMINDING", p)
    BY DEF Telling
  <2>2. /\ Cardinality(Telling(sweep, "ANNOUNCING", p)) \in Int /\ Cardinality(Telling(sweep, "REMINDING", p)) \in Int
    BY TellingNat
  <2>3. /\ told["open"][p] \in Int /\ told["soon"][p] \in Int /\ scheduled \in Int /\ activations \in Int
        /\ scheduled' \in Int /\ activations' \in Int
    BY DEF ScheduleInv, ScheduleShape
  <2>4. /\ Unclaimed(opened) \in Int /\ Unclaimed(opened)' \in Int
        /\ Unclaimed(reminded) \in Int /\ Unclaimed(reminded)' \in Int
    BY DEF Unclaimed
  <2>5. ToldFor(p)
    BY DEF ScheduleInv
  <2> QED
    BY <2>1, <2>2, <2>3, <2>4, <2>5 DEF ToldFor
<1> QED
  BY <1>1 DEF ScheduleInv

LEMMA LaunchSteps ==
    ASSUME ScheduleInv, Schedule \/ ActivateNow
    PROVE  ScheduleInv'
<1>0. ScheduleShape /\ Activated /\ sweep \in [Servers -> Sweeping]
  BY DEF ScheduleInv, ScheduleShape
<1>1. \A c \in Sweeping : LET d == [c EXCEPT !.view = "FAR"] IN
         d \in Sweeping /\ d.at = c.at /\ d.waiters = c.waiters /\ d.followers = c.followers
  BY DEF Sweeping, Phase
<1>2. /\ sweep' \in [Servers -> Sweeping]
      /\ \A s \in Servers : /\ sweep'[s].at = sweep[s].at
                            /\ sweep'[s].waiters = sweep[s].waiters
                            /\ sweep'[s].followers = sweep[s].followers
  BY <1>0, <1>1 DEF Schedule, ActivateNow, Outdate
<1>3. ScheduleShape'
  <2>1. /\ launch' = "LIVE" /\ phase' \in Phase /\ reminded' = FALSE /\ opened' \in BOOLEAN
        /\ scheduled' \in {scheduled, scheduled + 1} /\ activations' = activations + 1
        /\ UNCHANGED <<follows, told>>
    BY DEF Schedule, ActivateNow, Phase, peopleVars
  <2>2. \A s \in Servers : sweep'[s].waiters \cap sweep'[s].followers = {}
    BY <1>0, <1>2 DEF ScheduleShape
  <2>3. scheduled' \in Nat /\ activations' \in Nat
    BY <1>0, <2>1 DEF ScheduleShape
  <2>4. follows' \subseteq People /\ told' \in [{"soon", "open"} -> [People -> Nat]]
    BY <1>0, <2>1 DEF ScheduleShape
  <2> QED
    BY <1>2, <2>1, <2>2, <2>3, <2>4 DEF ScheduleShape
<1>4. activations \in Nat /\ scheduled \in Nat /\ activations' = activations + 1
  BY <1>0 DEF Schedule, ActivateNow, ScheduleShape
<1>5. Activated'
  BY <1>4 DEF Activated
<1>6. UNCHANGED told
  BY DEF Schedule, ActivateNow
<1>7. Unclaimed(reminded)' - activations' <= Unclaimed(reminded) - activations
  BY <1>4 DEF Unclaimed
<1>8. Unclaimed(opened)' - scheduled' <= Unclaimed(opened) - scheduled
  BY <1>4 DEF Unclaimed, Schedule, ActivateNow
<1> QED
  BY <1>2, <1>3, <1>5, <1>6, <1>7, <1>8, SweepsStay

\* Pauses, time, and what people do.
LEMMA PeopleSteps ==
    ASSUME ScheduleInv,
           \/ PauseLaunch \/ TimePasses \/ HostNotifies
           \/ \E p \in People : \/ JoinWaitlist(p) \/ LeaveWaitlist(p) \/ Follow(p) \/ Unfollow(p)
                                \/ HostTells(p)
    PROVE  ScheduleInv'
<1>1. /\ UNCHANGED <<reminded, opened, sweep, told, scheduled, activations>>
      /\ launch' = launch \/ launch' = "PAUSED"
  BY DEF PauseLaunch, TimePasses, HostNotifies, JoinWaitlist, LeaveWaitlist, Follow, Unfollow,
     HostTells, launchVars, pastVars
<1>2. phase' \in Phase
  <2>1. CASE TimePasses
    <3>1. phase \in {"FAR", "SOON", "OPEN"}
      BY <2>1 DEF TimePasses, ScheduleInv, ScheduleShape, Phase
    <3>2. phase' \in {"SOON", "OPEN", "LATE"}
      BY <2>1, <3>1 DEF TimePasses, Later
    <3> QED
      BY <3>2 DEF Phase
  <2>2. CASE ~TimePasses
    <3>1. UNCHANGED phase
      BY <2>2 DEF PauseLaunch, HostNotifies, JoinWaitlist, LeaveWaitlist, Follow, Unfollow,
         HostTells, launchVars
    <3> QED
      BY <3>1 DEF ScheduleInv, ScheduleShape
  <2> QED
    BY <2>1, <2>2
<1>3. follows' \subseteq People
  BY DEF PauseLaunch, TimePasses, HostNotifies, JoinWaitlist, LeaveWaitlist, Follow, Unfollow,
     HostTells, peopleVars, ScheduleInv, ScheduleShape
<1>4. ScheduleShape' /\ Activated'
  BY <1>1, <1>2, <1>3 DEF ScheduleInv, ScheduleShape, Activated
<1>5. /\ Unclaimed(opened)' - scheduled' <= Unclaimed(opened) - scheduled
      /\ Unclaimed(reminded)' - activations' <= Unclaimed(reminded) - activations
  BY <1>1 DEF Unclaimed, ScheduleInv, ScheduleShape
<1> QED
  BY <1>1, <1>4, <1>5, SweepsStay

\* The people told by a step, one more each.
LEMMA OneMoreTold ==
    ASSUME ScheduleShape, NEW k \in {"soon", "open"}, NEW p \in People,
           told' = [told EXCEPT ![k][p] = @ + 1]
    PROVE  /\ told' \in [{"soon", "open"} -> [People -> Nat]]
           /\ \A j \in {"soon", "open"}, q \in People :
                 told'[j][q] = IF j = k /\ q = p THEN told[j][q] + 1 ELSE told[j][q]
BY DEF ScheduleShape

\* A sweep that neither claims nor tells.
LEMMA QuietSweep ==
    ASSUME ScheduleInv, NEW s \in Servers, NEW r \in Sweeping, sweep' = [sweep EXCEPT ![s] = r],
           activations = 0 => r.at \in {"ASLEEP", "REMINDED"},
           \/ r.waiters = {} /\ r.followers = {}
           \/ /\ r.waiters = sweep[s].waiters /\ r.followers = sweep[s].followers
              /\ (r.at = sweep[s].at \/ r.at \notin {"ANNOUNCING", "REMINDING"}),
           UNCHANGED <<launch, phase, follows, scheduled, activations, told, reminded, opened>>
    PROVE  ScheduleInv'
<1>0. ScheduleShape /\ sweep[s].waiters \cap sweep[s].followers = {}
  BY DEF ScheduleInv, ScheduleShape
<1>1. \A at \in {"ANNOUNCING", "REMINDING"}, p \in People :
         /\ Tells(r, at, p) <= Tells(sweep[s], at, p)
         /\ Tells(r, at, p) \in Int /\ Tells(sweep[s], at, p) \in Int
  BY DEF Tells
<1>2. \A p \in People : /\ told["open"][p] \in Int /\ told["soon"][p] \in Int
  BY <1>0 DEF ScheduleShape
<1>3. Unclaimed(opened) \in Int /\ Unclaimed(reminded) \in Int
  BY DEF Unclaimed
<1>4. /\ reminded' \in BOOLEAN /\ opened' \in BOOLEAN /\ r.waiters \cap r.followers = {}
      /\ told' \in [{"soon", "open"} -> [People -> Nat]]
  BY <1>0 DEF ScheduleShape
<1>5. \A p \in People :
         /\ told'["open"][p] + Tells(r, "ANNOUNCING", p) + Unclaimed(opened')
              <= told["open"][p] + Tells(sweep[s], "ANNOUNCING", p) + Unclaimed(opened)
         /\ told'["soon"][p] + Tells(r, "REMINDING", p) + Unclaimed(reminded')
              <= told["soon"][p] + Tells(sweep[s], "REMINDING", p) + Unclaimed(reminded)
  BY <1>1, <1>2, <1>3
<1> QED
  BY <1>4, <1>5, SweepAlone

LEMMA QuietSteps ==
    ASSUME ScheduleInv, NEW s \in Servers,
           \/ Wake(s) \/ EndReminders(s) \/ SelectDue(s) \/ MarkNotified(s) \/ EndAnnouncement(s)
           \/ Stop(s)
    PROVE  ScheduleInv'
<1>0. ScheduleShape /\ Activated /\ sweep \in [Servers -> Sweeping] /\ sweep[s] \in Sweeping /\ phase \in Phase
  BY DEF ScheduleInv, ScheduleShape
<1>1. UNCHANGED <<launch, phase, follows, scheduled, activations, told, reminded, opened>>
  BY DEF Wake, EndReminders, SelectDue, MarkNotified, EndAnnouncement, Stop, launchVars, pastVars, peopleVars
<1>2. \A at \in {"ASLEEP", "SOON_FOUND", "REMINDED", "DUE_FOUND"} :
         LET r == [sweep[s] EXCEPT !.at = at] IN
         r \in Sweeping /\ r.at = at /\ r.waiters = sweep[s].waiters /\ r.followers = sweep[s].followers
  BY <1>0 DEF Sweeping
<1>3. CASE Wake(s)
  <2>1. PICK at \in {"SOON_FOUND", "REMINDED"} :
           at = IF launch = "LIVE" /\ ~reminded /\ phase = "SOON" THEN "SOON_FOUND" ELSE "REMINDED"
    OBVIOUS
  <2>2. PICK r : r = [Asleep EXCEPT !.view = phase, !.at = at]
    OBVIOUS
  <2>3. r \in Sweeping /\ r.at = at /\ r.waiters = {} /\ r.followers = {}
    BY <1>0, <2>2 DEF Asleep, Sweeping
  <2>4. sweep' = [sweep EXCEPT ![s] = r]
    BY <1>3, <2>1, <2>2 DEF Wake
  <2>5. activations = 0 => r.at \in {"ASLEEP", "REMINDED"}
    BY <1>0, <2>1, <2>3 DEF Activated
  <2> QED
    BY <1>1, <2>3, <2>4, <2>5, QuietSweep
<1>4. CASE EndReminders(s) \/ EndAnnouncement(s) \/ SelectDue(s)
  <2>1. PICK at \in {"ASLEEP", "REMINDED", "DUE_FOUND"} :
           /\ sweep' = [sweep EXCEPT ![s] = [sweep[s] EXCEPT !.at = at]]
           /\ at = "DUE_FOUND" => launch = "LIVE"
    BY <1>4 DEF EndReminders, EndAnnouncement, SelectDue, Goes
  <2>2. PICK r : r = [sweep[s] EXCEPT !.at = at]
    OBVIOUS
  <2>3. r \in Sweeping /\ r.at = at /\ r.waiters = sweep[s].waiters /\ r.followers = sweep[s].followers
    BY <1>2, <2>2
  <2>4. activations = 0 => r.at \in {"ASLEEP", "REMINDED"}
    BY <1>0, <2>1, <2>3 DEF Activated
  <2>5. r.at \notin {"ANNOUNCING", "REMINDING"}
    BY <2>1, <2>3
  <2> QED
    BY <1>1, <2>1, <2>2, <2>3, <2>4, <2>5, QuietSweep
<1>5. CASE MarkNotified(s)
  <2>1. PICK r : r = [sweep[s] EXCEPT !.mark = {}]
    OBVIOUS
  <2>2. r \in Sweeping /\ r.at = sweep[s].at /\ r.waiters = sweep[s].waiters /\ r.followers = sweep[s].followers
    BY <1>0, <2>1 DEF Sweeping
  <2>3. sweep' = [sweep EXCEPT ![s] = r]
    BY <1>5, <2>1 DEF MarkNotified
  <2>4. activations = 0 => r.at \in {"ASLEEP", "REMINDED"}
    BY <1>0, <2>2 DEF Activated
  <2> QED
    BY <1>1, <2>2, <2>3, <2>4, QuietSweep
<1>6. CASE Stop(s)
  <2>1. Asleep \in Sweeping /\ Asleep.at = "ASLEEP" /\ Asleep.waiters = {} /\ Asleep.followers = {}
    BY DEF Asleep, Sweeping, Phase
  <2>2. sweep' = [sweep EXCEPT ![s] = Asleep]
    BY <1>6 DEF Stop
  <2> QED
    BY <1>1, <2>1, <2>2, QuietSweep
<1> QED
  BY <1>3, <1>4, <1>5, <1>6

\* A claim: who lost it goes on, who won it takes the claim over to those it
\* will tell.
LEMMA ClaimSteps ==
    ASSUME ScheduleInv, NEW s \in Servers, ClaimReminder(s) \/ ClaimOpening(s)
    PROVE  ScheduleInv'
<1>0. /\ ScheduleShape /\ Activated /\ sweep \in [Servers -> Sweeping] /\ sweep[s] \in Sweeping
      /\ sweep[s].waiters \cap sweep[s].followers = {} /\ follows \subseteq People
      /\ reminded \in BOOLEAN /\ opened \in BOOLEAN /\ activations \in Nat
      /\ told \in [{"soon", "open"} -> [People -> Nat]]
  BY DEF ScheduleInv, ScheduleShape
<1>1. activations > 0 /\ activations # 0 /\ sweep[s].at \in {"SOON_FOUND", "DUE_FOUND"}
  BY <1>0 DEF Activated, ClaimReminder, ClaimOpening
<1>2. UNCHANGED <<launch, phase, follows, scheduled, activations, told>>
  BY DEF ClaimReminder, ClaimOpening, pastVars, peopleVars
<1>3. CASE (ClaimReminder(s) /\ reminded) \/ (ClaimOpening(s) /\ opened)
  <2>1. PICK at \in {"REMINDED", "ASLEEP"} :
           sweep' = [sweep EXCEPT ![s] = [sweep[s] EXCEPT !.at = at]]
    BY <1>3 DEF ClaimReminder, ClaimOpening, Goes
  <2>2. PICK r : r = [sweep[s] EXCEPT !.at = at]
    OBVIOUS
  <2>3. r \in Sweeping /\ r.at = at /\ r.waiters = sweep[s].waiters /\ r.followers = sweep[s].followers
    BY <1>0, <2>2 DEF Sweeping
  <2>4. sweep' = [sweep EXCEPT ![s] = r] /\ r.at \notin {"ANNOUNCING", "REMINDING"}
    BY <2>1, <2>2, <2>3
  <2>5. UNCHANGED <<reminded, opened>>
    BY <1>0, <1>3 DEF ClaimReminder, ClaimOpening
  <2> QED
    BY <1>1, <1>2, <2>3, <2>4, <2>5, QuietSweep
<1>4. CASE (ClaimReminder(s) /\ ~reminded) \/ (ClaimOpening(s) /\ ~opened)
  <2>1. PICK at \in {"REMINDING", "ANNOUNCING"} :
           /\ Addresses(s, at)
           /\ \/ at = "REMINDING" /\ ~reminded /\ reminded' = TRUE /\ UNCHANGED opened
              \/ at = "ANNOUNCING" /\ ~opened /\ opened' = TRUE /\ UNCHANGED reminded
    BY <1>4 DEF ClaimReminder, ClaimOpening
  <2>2. PICK ws, fs : ws = Waiting /\ fs = follows \ Waiting
    OBVIOUS
  <2>3. ws \subseteq People /\ fs \subseteq People /\ ws \cap fs = {}
    BY <1>0, <2>2 DEF Waiting
  <2>4. PICK r : r = [sweep[s] EXCEPT !.at = at, !.waiters = ws, !.followers = fs]
    OBVIOUS
  <2>5. r \in Sweeping /\ r.at = at /\ r.waiters = ws /\ r.followers = fs
    BY <1>0, <2>3, <2>4 DEF Sweeping
  <2>6. sweep' = [sweep EXCEPT ![s] = r]
    BY <2>1, <2>2, <2>4 DEF Addresses
  <2>7. reminded' \in BOOLEAN /\ opened' \in BOOLEAN /\ told' \in [{"soon", "open"} -> [People -> Nat]]
    BY <1>0, <1>2, <2>1
  <2>8. \A p \in People :
           /\ Tells(r, "ANNOUNCING", p) + Unclaimed(opened') <= Tells(sweep[s], "ANNOUNCING", p) + Unclaimed(opened)
           /\ Tells(r, "REMINDING", p) + Unclaimed(reminded') <= Tells(sweep[s], "REMINDING", p) + Unclaimed(reminded)
    BY <1>0, <1>1, <2>1, <2>5 DEF Tells, Unclaimed
  <2>9. \A p \in People :
           /\ told'["open"][p] + Tells(r, "ANNOUNCING", p) + Unclaimed(opened')
                <= told["open"][p] + Tells(sweep[s], "ANNOUNCING", p) + Unclaimed(opened)
           /\ told'["soon"][p] + Tells(r, "REMINDING", p) + Unclaimed(reminded')
                <= told["soon"][p] + Tells(sweep[s], "REMINDING", p) + Unclaimed(reminded)
    <3>1. \A p \in People : told["open"][p] \in Int /\ told["soon"][p] \in Int
      BY <1>0
    <3>2. \A c, k, p : Tells(c, k, p) \in Int
      BY DEF Tells
    <3>3. \A b : Unclaimed(b) \in Int
      BY DEF Unclaimed
    <3> QED
      BY <1>2, <2>8, <3>1, <3>2, <3>3
  <2>10. r.waiters \cap r.followers = {}
    BY <2>3, <2>5
  <2> QED
    BY <1>1, <1>2, <2>5, <2>6, <2>7, <2>9, <2>10, SweepAlone
<1> QED
  BY <1>3, <1>4

\* Somebody is told, and is no longer to be told by this sweep.
LEMMA TellSteps ==
    ASSUME ScheduleInv, NEW s \in Servers, NEW p \in People,
           Remind(s, p) \/ AnnounceToWaiter(s, p) \/ AnnounceToFollower(s, p)
    PROVE  ScheduleInv'
<1>0. /\ ScheduleShape /\ Activated /\ sweep \in [Servers -> Sweeping] /\ sweep[s] \in Sweeping
      /\ sweep[s].waiters \cap sweep[s].followers = {} /\ reminded \in BOOLEAN /\ opened \in BOOLEAN
      /\ told \in [{"soon", "open"} -> [People -> Nat]]
  BY DEF ScheduleInv, ScheduleShape
<1>1. UNCHANGED <<launch, phase, follows, scheduled, activations, reminded, opened>>
  BY DEF Remind, AnnounceToWaiter, AnnounceToFollower, launchVars, peopleVars
<1>2. PICK k \in {"soon", "open"}, at \in {"REMINDING", "ANNOUNCING"} :
         /\ told' = [told EXCEPT ![k][p] = @ + 1] /\ sweep[s].at = at
         /\ k = "soon" <=> at = "REMINDING"
         /\ p \in sweep[s].waiters \cup sweep[s].followers
  BY DEF Remind, AnnounceToWaiter, AnnounceToFollower, Told
<1>3. PICK r \in Sweeping :
         /\ sweep' = [sweep EXCEPT ![s] = r] /\ r.at = at
         /\ r.waiters \subseteq sweep[s].waiters /\ r.followers \subseteq sweep[s].followers
         /\ p \notin r.waiters \cup r.followers
  <2>1. PICK ws, fs : ws = sweep[s].waiters \ {p} /\ fs = sweep[s].followers \ {p}
    OBVIOUS
  <2>2. ws \subseteq People /\ fs \subseteq People /\ {p} \subseteq People
    BY <1>0, <2>1 DEF Sweeping
  <2>3. CASE Remind(s, p)
    <3>0. PICK r : r = [sweep[s] EXCEPT !.waiters = sweep[s].waiters \ {p}, !.followers = sweep[s].followers \ {p}]
      OBVIOUS
    <3>1. r = [sweep[s] EXCEPT !.waiters = ws, !.followers = fs]
      BY <2>1, <3>0
    <3>2. r \in Sweeping /\ r.at = sweep[s].at /\ r.waiters = ws /\ r.followers = fs
      BY <1>0, <2>2, <3>1 DEF Sweeping
    <3>3. sweep' = [sweep EXCEPT ![s] = r]
      BY <2>3, <3>0 DEF Remind
    <3> QED
      BY <1>2, <2>1, <3>2, <3>3
  <2>4. CASE AnnounceToWaiter(s, p)
    <3>0. PICK r : r = [sweep[s] EXCEPT !.waiters = sweep[s].waiters \ {p}, !.mark = {p}]
      OBVIOUS
    <3>1. r = [sweep[s] EXCEPT !.waiters = ws, !.mark = {p}]
      BY <2>1, <3>0
    <3>2. r \in Sweeping /\ r.at = sweep[s].at /\ r.waiters = ws /\ r.followers = sweep[s].followers
      BY <1>0, <2>2, <3>1 DEF Sweeping
    <3>3. sweep' = [sweep EXCEPT ![s] = r]
      BY <2>4, <3>0 DEF AnnounceToWaiter
    <3>4. p \notin sweep[s].followers
      BY <1>0, <2>4 DEF AnnounceToWaiter
    <3> QED
      BY <1>2, <2>1, <3>2, <3>3, <3>4
  <2>5. CASE AnnounceToFollower(s, p)
    <3>1. PICK r : r = [sweep[s] EXCEPT !.followers = fs]
      OBVIOUS
    <3>2. r \in Sweeping /\ r.at = sweep[s].at /\ r.waiters = sweep[s].waiters /\ r.followers = fs
      BY <1>0, <2>2, <3>1 DEF Sweeping
    <3>3. sweep' = [sweep EXCEPT ![s] = r]
      BY <1>0, <2>1, <2>5, <3>1 DEF AnnounceToFollower
    <3>4. p \notin sweep[s].waiters
      BY <2>5 DEF AnnounceToFollower
    <3> QED
      BY <1>2, <2>1, <3>2, <3>3, <3>4
  <2> QED
    BY <2>3, <2>4, <2>5
<1>4. /\ told' \in [{"soon", "open"} -> [People -> Nat]]
      /\ \A j \in {"soon", "open"}, q \in People :
            told'[j][q] = IF j = k /\ q = p THEN told[j][q] + 1 ELSE told[j][q]
  BY <1>0, <1>2, OneMoreTold
<1>5. ASSUME NEW q \in People
      PROVE  /\ told'["open"][q] + Tells(r, "ANNOUNCING", q) <= told["open"][q] + Tells(sweep[s], "ANNOUNCING", q)
             /\ told'["soon"][q] + Tells(r, "REMINDING", q) <= told["soon"][q] + Tells(sweep[s], "REMINDING", q)
  <2>1. told["open"][q] \in Int /\ told["soon"][q] \in Int
    BY <1>0
  <2>2. CASE q = p
    BY <1>2, <1>3, <1>4, <2>1, <2>2 DEF Tells
  <2>3. CASE q # p
    BY <1>2, <1>3, <1>4, <2>1, <2>3 DEF Tells
  <2> QED
    BY <2>2, <2>3
<1>6. \A q \in People :
         /\ told'["open"][q] + Tells(r, "ANNOUNCING", q) + Unclaimed(opened')
              <= told["open"][q] + Tells(sweep[s], "ANNOUNCING", q) + Unclaimed(opened)
         /\ told'["soon"][q] + Tells(r, "REMINDING", q) + Unclaimed(reminded')
              <= told["soon"][q] + Tells(sweep[s], "REMINDING", q) + Unclaimed(reminded)
  <2>1. \A q \in People : /\ told["open"][q] \in Int /\ told["soon"][q] \in Int
                          /\ told'["open"][q] \in Int /\ told'["soon"][q] \in Int
    BY <1>0, <1>4
  <2>2. \A c, a, q : Tells(c, a, q) \in Int
    BY DEF Tells
  <2>3. Unclaimed(opened) \in Int /\ Unclaimed(reminded) \in Int
    BY DEF Unclaimed
  <2> QED
    BY <1>1, <1>5, <2>1, <2>2, <2>3
<1>7. /\ r.waiters \cap r.followers = {}
      /\ activations = 0 => r.at \in {"ASLEEP", "REMINDED"}
      /\ reminded' \in BOOLEAN /\ opened' \in BOOLEAN
  BY <1>0, <1>1, <1>2, <1>3 DEF Activated
<1> QED
  BY <1>1, <1>3, <1>4, <1>6, <1>7, SweepAlone

LEMMA ScheduleInvNext == ScheduleInv /\ [ScheduleNext]_scheduleVars => ScheduleInv'
<1> SUFFICES ASSUME ScheduleInv, [ScheduleNext]_scheduleVars PROVE ScheduleInv'
  OBVIOUS
<1>1. CASE ScheduleNext
  BY <1>1, LaunchSteps, PeopleSteps, QuietSteps, ClaimSteps, TellSteps DEF ScheduleNext, SweepStep
<1>2. CASE UNCHANGED scheduleVars
  BY <1>2 DEF scheduleVars, launchVars, peopleVars, pastVars, ScheduleInv, ScheduleShape, Activated,
     ToldFor, Telling, Unclaimed
<1> QED
  BY <1>1, <1>2

(* A person is told of an opening at most once for each time the launch was *)
(* scheduled and reminded at most once for each activation, whatever claims *)
(* race, sweeps stop or launches are paused in between                      *)
(* (launch-schedule.ts, docs/showcase-and-ads.md:76).                       *)
THEOREM ToldAtMostOnce == ScheduleSpec => []AnnouncedOnce
<1>1. ScheduleInv => AnnouncedOnce
  <2> SUFFICES ASSUME ScheduleInv, NEW p \in People
               PROVE  told["open"][p] <= scheduled /\ told["soon"][p] <= activations
    BY DEF AnnouncedOnce
  <2>1. /\ Cardinality(Telling(sweep, "ANNOUNCING", p)) \in Nat
        /\ Cardinality(Telling(sweep, "REMINDING", p)) \in Nat
    BY TellingNat
  <2>2. Unclaimed(opened) \in {0, 1} /\ Unclaimed(reminded) \in {0, 1}
    BY DEF Unclaimed
  <2>3. /\ told["open"][p] \in Nat /\ told["soon"][p] \in Nat /\ scheduled \in Nat /\ activations \in Nat
    BY DEF ScheduleInv, ScheduleShape
  <2> QED
    BY <2>1, <2>2, <2>3 DEF ScheduleInv, ToldFor
<1> QED
  BY <1>1, ScheduleInvInit, ScheduleInvNext, PTL DEF ScheduleSpec
=============================================================================
