------------------------- MODULE DemoSandboxProofs --------------------------
(***************************************************************************)
(* Theorems about DemoSandbox, for any number of ids, requests in flight,  *)
(* databases opened and restarts, and any cap.                             *)
(***************************************************************************)
EXTENDS DemoSandbox, FiniteSetTheorems, TLAPS

Ops == {"none", "enter", "serve", "reset", "sweep"}
Steps == {"none", "sweep", "open", "opened", "created", "handle", "again"}

Box == [db : Nat, live : BOOLEAN]
Job == [op : Ops, id : Ids \cup {"none"}, step : Steps, db : Nat, todo : SUBSET (Ids \X Nat)]

TypeOK ==
    /\ box \in [Ids -> Box]
    /\ opened \in Seq(Ids)
    /\ closed \subseteq DOMAIN opened
    /\ job \in [Jobs -> Job]

\* A registered database is open and its id's; no box is not in time.
Boxes ==
    \A id \in Ids :
        /\ id \in Registered => box[id].db \in DOMAIN opened \ closed /\ opened[box[id].db] = id
        /\ id \notin Registered => box[id] = NoBox

\* A database just opened is open, of the id it was opened for, not
\* registered, and in one hand only.
Hands ==
    \A n \in Jobs : Standing(n, "opened") =>
        /\ job[n].db \in DOMAIN opened \ closed
        /\ job[n].id \in Ids
        /\ opened[job[n].db] = job[n].id
        /\ box[job[n].id].db # job[n].db
        /\ \A m \in Jobs : Standing(m, "opened") /\ job[m].db = job[n].db => m = n

Known ==
    \A db \in DOMAIN opened \ closed :
        \/ box[opened[db]].db = db
        \/ \E n \in Jobs : Standing(n, "opened") /\ job[n].db = db

\* Whoever creates has an id.
Named ==
    \A n \in Jobs : job[n].op \notin {"none", "sweep"} \/ job[n].step = "open" => job[n].id \in Ids

NoneIsIdle == \A n \in Jobs : job[n].op = "none" => job[n] = Done

Capped == Cardinality(Registered) <= MaxSandboxes

SandboxInv == TypeOK /\ Boxes /\ Hands /\ Known /\ Named /\ NoneIsIdle /\ Isolated /\ Capped

-----------------------------------------------------------------------------
(* Steps of the registry.                                                   *)

LEMMA Registration ==
    ASSUME TypeOK, Boxes, NEW id \in Ids
    PROVE  /\ id \in Registered <=> box[id].db # RealDb
           /\ InTime(id) => id \in Registered
           /\ box[id] = [db |-> box[id].db, live |-> box[id].live]
<1>1. box[id] \in Box /\ DOMAIN opened = 1..Len(opened) /\ Len(opened) \in Nat
  BY DEF TypeOK
<1>2. id \in Registered => box[id].db # 0
  BY <1>1 DEF Boxes
<1>3. id \notin Registered => box[id].db = 0 /\ box[id].live = FALSE
  BY DEF Boxes, NoBox, RealDb
<1> QED
  BY <1>1, <1>2, <1>3 DEF RealDb, InTime, Box

\* What most requests do to the registry: nothing, destroy a box, or set
\* whether it is in time.
BoxStep ==
    \/ UNCHANGED <<box, closed>>
    \/ \E id \in Ids : Destroy(id)
    \/ \E id \in Registered, b \in BOOLEAN :
          box' = [box EXCEPT ![id].live = b] /\ UNCHANGED closed

LEMMA BoxStepKeeps ==
    ASSUME SandboxInv, BoxStep, UNCHANGED opened
    PROVE  /\ box' \in [Ids -> Box] /\ closed' \subseteq DOMAIN opened /\ closed \subseteq closed'
           /\ Boxes' /\ Capped'
           /\ \A id \in Ids : box'[id].db \in {box[id].db, RealDb}
           /\ \A db \in DOMAIN opened \ closed' :
                 box[opened[db]].db = db => box'[opened[db]].db = db
           /\ \A db \in closed' \ closed : box[opened[db]].db = db
<1>1. TypeOK /\ Boxes /\ Capped /\ DOMAIN opened = 1..Len(opened) /\ Len(opened) \in Nat
  BY DEF SandboxInv, TypeOK
<1>2. \A db \in DOMAIN opened : opened[db] \in Ids /\ db # RealDb
  BY <1>1 DEF TypeOK, RealDb
<1>f. IsFiniteSet(Registered)
  BY SandboxAssumption, FS_Subset DEF Registered
<1>3. CASE UNCHANGED <<box, closed>>
  BY <1>1, <1>3 DEF TypeOK, Boxes, Capped, Registered
<1>4. ASSUME NEW id \in Ids, Destroy(id), id \in Registered
      PROVE  /\ box' \in [Ids -> Box] /\ closed' \subseteq DOMAIN opened /\ closed \subseteq closed'
             /\ Boxes' /\ Capped'
             /\ \A i \in Ids : box'[i].db \in {box[i].db, RealDb}
             /\ \A db \in DOMAIN opened \ closed' :
                   box[opened[db]].db = db => box'[opened[db]].db = db
             /\ \A db \in closed' \ closed : box[opened[db]].db = db
  <2>1. box' = [box EXCEPT ![id] = NoBox] /\ closed' = closed \cup {box[id].db}
    BY <1>4 DEF Destroy
  <2>2. box[id].db \in DOMAIN opened \ closed /\ opened[box[id].db] = id
    BY <1>1, <1>4 DEF Boxes
  <2>3. NoBox \in Box
    BY DEF NoBox, Box, RealDb
  <2>4. box' \in [Ids -> Box] /\ \A i \in Ids : box'[i] = IF i = id THEN NoBox ELSE box[i]
    BY <1>1, <2>1, <2>3 DEF TypeOK
  <2>5. Registered' = Registered \ {id}
    BY <2>4 DEF Registered
  <2>6. Boxes'
    <3> SUFFICES ASSUME NEW i \in Ids
                 PROVE  /\ i \in Registered' => /\ box'[i].db \in DOMAIN opened \ closed'
                                                /\ opened[box'[i].db] = i
                        /\ i \notin Registered' => box'[i] = NoBox
      BY DEF Boxes
    <3>1. CASE i = id
      BY <3>1, <2>4, <2>5
    <3>2. CASE i # id
      <4>1. box'[i] = box[i] /\ (i \in Registered' <=> i \in Registered)
        BY <3>2, <2>4, <2>5
      <4>2. i \in Registered => /\ box[i].db \in DOMAIN opened \ closed
                                /\ opened[box[i].db] = i
        BY <1>1 DEF Boxes
      <4>3. i \in Registered => box[i].db # box[id].db
        BY <3>2, <4>2, <2>2
      <4> QED
        BY <4>1, <4>2, <4>3, <2>1, <1>1 DEF Boxes
    <3> QED
      BY <3>1, <3>2
  <2>7. Capped'
    <3>1. Cardinality(Registered') <= Cardinality(Registered)
      BY <2>5, <1>f, FS_Subset
    <3>2. Cardinality(Registered) \in Nat /\ Cardinality(Registered') \in Nat
      BY <1>f, <2>5, FS_Subset, FS_CardinalityType
    <3> QED
      BY <1>1, <3>1, <3>2, SandboxAssumption DEF Capped
  <2>8. \A i \in Ids : box'[i].db \in {box[i].db, RealDb}
    BY <2>4 DEF NoBox
  <2>9. ASSUME NEW db \in DOMAIN opened \ closed', box[opened[db]].db = db
        PROVE  box'[opened[db]].db = db
    BY <2>9, <2>1, <2>4, <1>2
  <2> QED
    BY <2>1, <2>2, <2>4, <2>6, <2>7, <2>8, <2>9, <1>1 DEF TypeOK
<1>5. ASSUME NEW id \in Ids, Destroy(id), id \notin Registered PROVE UNCHANGED <<box, closed>>
  BY <1>5 DEF Destroy
<1>6. ASSUME NEW id \in Registered, NEW b \in BOOLEAN,
             box' = [box EXCEPT ![id].live = b], UNCHANGED closed
      PROVE  /\ box' \in [Ids -> Box] /\ closed' \subseteq DOMAIN opened /\ closed \subseteq closed'
             /\ Boxes' /\ Capped'
             /\ \A i \in Ids : box'[i].db \in {box[i].db, RealDb}
             /\ \A db \in DOMAIN opened \ closed' :
                   box[opened[db]].db = db => box'[opened[db]].db = db
             /\ \A db \in closed' \ closed : box[opened[db]].db = db
  <2>1. id \in Ids /\ box[id] \in Box
    BY <1>1 DEF Registered, TypeOK
  <2>2. [box[id] EXCEPT !.live = b] = [db |-> box[id].db, live |-> b]
    BY <2>1 DEF Box
  <2>3. box' = [box EXCEPT ![id] = [db |-> box[id].db, live |-> b]]
    BY <1>6, <2>2
  <2>4. /\ box' \in [Ids -> Box]
        /\ \A i \in Ids : box'[i] = IF i = id THEN [db |-> box[id].db, live |-> b] ELSE box[i]
    BY <2>1, <2>3, <1>1 DEF TypeOK, Box
  <2>5. \A i \in Ids : box'[i].db = box[i].db
    BY <2>4
  <2>6. Registered' = Registered
    <3>1. box[id].db # RealDb
      BY <2>1, <1>1, <1>6, Registration
    <3>2. box'[id] # NoBox
      BY <3>1, <2>1, <2>4 DEF NoBox
    <3> QED
      BY <3>2, <2>4, <2>1 DEF Registered
  <2> QED
    BY <2>1, <2>4, <2>5, <2>6, <1>1, <1>6 DEF TypeOK, Boxes, Capped
<1> QED
  BY <1>3, <1>4, <1>5, <1>6 DEF BoxStep, SandboxInv, TypeOK, Boxes, Capped, Registered

-----------------------------------------------------------------------------
(* Steps of a request that neither open nor register a database.            *)

LEMMA HandsKept ==
    ASSUME SandboxInv, BoxStep, UNCHANGED opened,
           job' \in [Jobs -> Job],
           \A m \in Jobs : job[m].step = "opened" \/ job'[m].step = "opened" => job'[m] = job[m],
           Named', NoneIsIdle', Isolated'
    PROVE  SandboxInv'
<1>1. /\ TypeOK /\ Boxes /\ Hands /\ Known
      /\ DOMAIN opened = 1..Len(opened) /\ Len(opened) \in Nat
      /\ \A db \in DOMAIN opened : opened[db] \in Ids
  BY DEF SandboxInv, TypeOK
<1>2. /\ box' \in [Ids -> Box] /\ closed' \subseteq DOMAIN opened /\ closed \subseteq closed'
      /\ Boxes' /\ Capped'
      /\ \A id \in Ids : box'[id].db \in {box[id].db, RealDb}
      /\ \A db \in DOMAIN opened \ closed' :
            box[opened[db]].db = db => box'[opened[db]].db = db
      /\ \A db \in closed' \ closed : box[opened[db]].db = db
  BY BoxStepKeeps
<1>3. TypeOK'
  BY <1>1, <1>2 DEF TypeOK
<1>4. \A m \in Jobs : Standing(m, "opened")' <=> Standing(m, "opened")
  BY DEF Standing
<1>5. Hands'
  <2> SUFFICES ASSUME NEW n \in Jobs, Standing(n, "opened")'
               PROVE  /\ job'[n].db \in DOMAIN opened \ closed'
                      /\ job'[n].id \in Ids
                      /\ opened[job'[n].db] = job'[n].id
                      /\ box'[job'[n].id].db # job'[n].db
                      /\ \A m \in Jobs : Standing(m, "opened")' /\ job'[m].db = job'[n].db => m = n
    BY DEF Hands
  <2>1. Standing(n, "opened") /\ job'[n] = job[n]
    BY <1>4 DEF Standing
  <2>2. /\ job[n].db \in DOMAIN opened \ closed
        /\ job[n].id \in Ids
        /\ opened[job[n].db] = job[n].id
        /\ box[job[n].id].db # job[n].db
        /\ \A m \in Jobs : Standing(m, "opened") /\ job[m].db = job[n].db => m = n
    BY <2>1, <1>1 DEF Hands
  <2>3. job[n].db \notin closed'
    BY <2>2, <1>2
  <2>4. box'[job[n].id].db # job[n].db
    BY <2>2, <1>1, <1>2 DEF RealDb
  <2>5. \A m \in Jobs : Standing(m, "opened")' => job'[m] = job[m]
    BY DEF Standing
  <2> QED
    BY <2>1, <2>2, <2>3, <2>4, <2>5, <1>4
<1>6. Known'
  <2> SUFFICES ASSUME NEW db \in DOMAIN opened \ closed'
               PROVE  \/ box'[opened[db]].db = db
                      \/ \E n \in Jobs : Standing(n, "opened")' /\ job'[n].db = db
    BY DEF Known
  <2>1. CASE box[opened[db]].db = db
    BY <2>1, <1>2
  <2>2. ASSUME NEW n \in Jobs, Standing(n, "opened"), job[n].db = db
        PROVE  Standing(n, "opened")' /\ job'[n].db = db
    BY <2>2, <1>4 DEF Standing
  <2> QED
    BY <2>1, <2>2, <1>1, <1>2 DEF Known
<1> QED
  BY <1>2, <1>3, <1>5, <1>6 DEF SandboxInv

LEMMA OneJobMoves ==
    ASSUME SandboxInv, BoxStep, UNCHANGED opened, NEW n \in Jobs, NEW J \in Job,
           job' = [job EXCEPT ![n] = J],
           job[n].step # "opened", J.step # "opened",
           J.op \notin {"none", "sweep"} \/ J.step = "open" => J.id \in Ids,
           J.op = "none" => J = Done,
           J.step = "handle" => J.db \in DOMAIN opened /\ opened[J.db] = J.id
    PROVE  SandboxInv'
<1>1. TypeOK /\ Named /\ NoneIsIdle /\ Isolated
  BY DEF SandboxInv
<1>2. job' \in [Jobs -> Job] /\ \A m \in Jobs : job'[m] = IF m = n THEN J ELSE job[m]
  BY <1>1 DEF TypeOK
<1>3. \A m \in Jobs : job[m].step = "opened" \/ job'[m].step = "opened" => job'[m] = job[m]
  BY <1>2
<1>4. Named' /\ NoneIsIdle'
  BY <1>1, <1>2 DEF Named, NoneIsIdle
<1>5. Isolated'
  BY <1>1, <1>2 DEF Isolated, Standing
<1> QED
  BY <1>2, <1>3, <1>4, <1>5, HandsKept

LEMMA NoJobMoves ==
    ASSUME SandboxInv, BoxStep, UNCHANGED <<opened, job>>
    PROVE  SandboxInv'
<1>1. TypeOK /\ Named /\ NoneIsIdle /\ Isolated
  BY DEF SandboxInv
<1>2. job' \in [Jobs -> Job] /\ Named' /\ NoneIsIdle' /\ Isolated'
  BY <1>1 DEF TypeOK, Named, NoneIsIdle, Isolated, Standing
<1> QED
  BY <1>2, HandsKept

-----------------------------------------------------------------------------
(* The actions.                                                             *)

LEMMA DoneShape == Done \in Job /\ Done.step = "none" /\ Done.op = "none"
BY DEF Done, Job, Ops, Steps, RealDb

LEMMA JobShape ==
    ASSUME SandboxInv, NEW n \in Jobs
    PROVE  /\ job[n] \in Job
           /\ job[n].op \notin {"none", "sweep"} => job[n].id \in Ids
           /\ job[n].step = "open" => job[n].id \in Ids
           /\ job[n].op = "none" => job[n] = Done
           /\ job[n].step = "handle" => /\ job[n].db \in DOMAIN opened
                                        /\ opened[job[n].db] = job[n].id
                                        /\ job[n].id \in Ids
           /\ job[n].step # "none" => job[n].op # "none"
           /\ Outdated \in SUBSET (Ids \X Nat)
<1>1. TypeOK /\ Named /\ NoneIsIdle /\ Isolated
  BY DEF SandboxInv
<1>2. job[n] \in Job /\ DOMAIN opened = 1..Len(opened) /\ \A db \in DOMAIN opened : opened[db] \in Ids
  BY <1>1 DEF TypeOK
<1>3. \A id \in Ids : box[id].db \in Nat
  BY <1>1 DEF TypeOK, Box
<1>4. Outdated \in SUBSET (Ids \X Nat)
  BY <1>3 DEF Outdated, Registered
<1> QED
  BY <1>1, <1>2, <1>4, DoneShape DEF Named, NoneIsIdle, Isolated, Standing

\* What a job is after one of its fields is set.
LEMMA JobFields ==
    ASSUME NEW j \in Job, NEW s, NEW t
    PROVE  /\ [j EXCEPT !.step = s] =
                [op |-> j.op, id |-> j.id, step |-> s, db |-> j.db, todo |-> j.todo]
           /\ [j EXCEPT !.todo = t] =
                [op |-> j.op, id |-> j.id, step |-> j.step, db |-> j.db, todo |-> t]
<1>1. [j EXCEPT !.step = s] =
        [op |-> j.op, id |-> j.id, step |-> s, db |-> j.db, todo |-> j.todo]
  BY DEF Job
<1>2. [j EXCEPT !.todo = t] =
        [op |-> j.op, id |-> j.id, step |-> j.step, db |-> j.db, todo |-> t]
  BY DEF Job
<1> QED
  BY <1>1, <1>2

LEMMA EntersJob ==
    ASSUME NEW n, NEW op, NEW id, NEW step, NEW todo, Enters(n, op, id, step, todo)
    PROVE  /\ job[n] = Done
           /\ job' = [job EXCEPT ![n] =
                        [op |-> op, id |-> id, step |-> step, db |-> RealDb, todo |-> todo]]
<1> DEFINE a == [Done EXCEPT !.op = op]
           b == [a EXCEPT !.id = id]
           c == [b EXCEPT !.step = step]
           d == [c EXCEPT !.todo = todo]
<1>1. a = [op |-> op, id |-> "none", step |-> "none", db |-> RealDb, todo |-> {}]
  BY DEF Done
<1> HIDE DEF a
<1>2. b = [op |-> op, id |-> id, step |-> "none", db |-> RealDb, todo |-> {}]
  BY <1>1
<1> HIDE DEF b
<1>3. c = [op |-> op, id |-> id, step |-> step, db |-> RealDb, todo |-> {}]
  BY <1>2
<1> HIDE DEF c
<1>4. d = [op |-> op, id |-> id, step |-> step, db |-> RealDb, todo |-> todo]
  BY <1>3
<1>5. job[n] = Done /\ job' = [job EXCEPT ![n] = d]
  BY DEF Enters, a, b, c
<1> HIDE DEF d
<1> QED
  BY <1>4, <1>5

\* Starting, moving on and ending.
LEMMA EntersKeeps ==
    ASSUME SandboxInv, BoxStep, UNCHANGED opened, NEW n \in Jobs, NEW op \in Ops \ {"none"},
           NEW id \in Ids \cup {"none"}, NEW todo \in SUBSET (Ids \X Nat),
           op # "sweep" => id \in Ids, Enters(n, op, id, "sweep", todo)
    PROVE  SandboxInv'
<1> DEFINE J == [op |-> op, id |-> id, step |-> "sweep", db |-> RealDb, todo |-> todo]
<1>1. job[n] = Done /\ job' = [job EXCEPT ![n] = J]
  BY EntersJob
<1>2. J \in Job /\ J.op = op /\ J.step = "sweep" /\ J.id = id
  BY DEF Job, Ops, Steps, RealDb
<1> HIDE DEF J
<1> QED
  BY <1>1, <1>2, DoneShape, OneJobMoves

LEMMA FinishKeeps ==
    ASSUME SandboxInv, BoxStep, UNCHANGED opened, NEW n \in Jobs, job[n].step # "opened", Finish(n)
    PROVE  SandboxInv'
<1>1. job' = [job EXCEPT ![n] = Done]
  BY DEF Finish
<1> QED
  BY <1>1, DoneShape, OneJobMoves

LEMMA GotoKeeps ==
    ASSUME SandboxInv, BoxStep, UNCHANGED opened, NEW n \in Jobs,
           job[n].step \notin {"none", "opened"}, job[n].op # "sweep",
           NEW step \in {"open", "created"}, Goto(n, step)
    PROVE  SandboxInv'
<1>1. job[n] \in Job /\ job[n].op # "none" /\ (job[n].op # "sweep" => job[n].id \in Ids)
  BY JobShape
<1> DEFINE J == [op |-> job[n].op, id |-> job[n].id, step |-> step,
                 db |-> job[n].db, todo |-> job[n].todo]
<1>2. [job[n] EXCEPT !.step = step] = J
  BY <1>1, JobFields
<1>3. job' = [job EXCEPT ![n] = J]
  BY <1>2 DEF Goto
<1>4. J \in Job /\ J.op = job[n].op /\ J.id = job[n].id /\ J.step = step
  BY <1>1 DEF Job, Ops, Steps
<1> HIDE DEF J
<1> QED
  BY <1>1, <1>3, <1>4, OneJobMoves

LEMMA SweepOneKeeps ==
    ASSUME SandboxInv, NEW n \in Jobs, SweepOne(n)
    PROVE  SandboxInv'
<1>1. PICK old \in job[n].todo :
         /\ job' = [job EXCEPT ![n].todo = @ \ {old}]
         /\ IF box[old[1]].db = old[2] /\ InTime(old[1])
            THEN UNCHANGED <<box, closed>>
            ELSE Destroy(old[1])
  BY DEF SweepOne
<1>2. /\ job[n] \in Job /\ job[n].step = "sweep" /\ job[n].op # "none"
      /\ job[n].op # "sweep" => job[n].id \in Ids
  BY JobShape DEF SweepOne, Standing
<1>3. old[1] \in Ids
  BY <1>2 DEF Job
<1>4. BoxStep
  BY <1>1, <1>3 DEF BoxStep
<1> DEFINE J == [op |-> job[n].op, id |-> job[n].id, step |-> job[n].step,
                 db |-> job[n].db, todo |-> job[n].todo \ {old}]
<1>5. [job[n] EXCEPT !.todo = job[n].todo \ {old}] = J
  BY <1>2, JobFields
<1>6. job' = [job EXCEPT ![n] = J]
  BY <1>1, <1>5
<1>7. J \in Job /\ J.op = job[n].op /\ J.id = job[n].id /\ J.step = job[n].step
  BY <1>2 DEF Job
<1> HIDE DEF J
<1>8. UNCHANGED opened
  BY DEF SweepOne
<1> QED
  BY <1>2, <1>4, <1>6, <1>7, <1>8, OneJobMoves

LEMMA LookKeeps ==
    ASSUME SandboxInv, NEW n \in Jobs, Look(n)
    PROVE  SandboxInv'
<1>1. job[n].step = "sweep" /\ UNCHANGED <<issued, opened, closed>>
  BY DEF Look, Standing
<1>2. CASE job[n].id \in Registered /\ box' = [box EXCEPT ![job[n].id].live = TRUE] /\ Goto(n, "created")
  <2>1. BoxStep
    BY <1>1, <1>2 DEF BoxStep
  <2>2. job[n].op # "sweep"
    BY DEF Look
  <2> QED
    BY <1>1, <1>2, <2>1, <2>2, GotoKeeps
<1>3. CASE Finish(n) /\ UNCHANGED box
  BY <1>1, <1>3, FinishKeeps DEF BoxStep
<1>4. CASE Goto(n, "open") /\ UNCHANGED box
  <2>1. job[n].op # "sweep"
    BY DEF Look
  <2> QED
    BY <1>1, <1>4, <2>1, GotoKeeps DEF BoxStep
<1> QED
  BY <1>2, <1>3, <1>4 DEF Look

LEMMA ServeKeeps ==
    ASSUME SandboxInv, NEW n \in Jobs, NEW id \in Ids, Serve(n, id)
    PROVE  SandboxInv'
<1>1. UNCHANGED opened /\ TypeOK /\ Boxes
  BY DEF Serve, SandboxInv
<1>2. CASE InTime(id)
  <2> DEFINE J == [op |-> "serve", id |-> id, step |-> "handle", db |-> box[id].db, todo |-> {}]
  <2>1. job[n] = Done /\ job' = [job EXCEPT ![n] = J] /\ BoxStep
    BY <1>2 DEF Serve, Done, BoxStep
  <2>2. box[id].db \in DOMAIN opened /\ opened[box[id].db] = id /\ box[id].db \in Nat
    <3>1. id \in Registered
      BY <1>1, <1>2, Registration
    <3> QED
      BY <3>1, <1>1 DEF Boxes, TypeOK, Box
  <2>3. J \in Job /\ J.op = "serve" /\ J.id = id /\ J.step = "handle" /\ J.db = box[id].db
    BY <2>2 DEF Job, Ops, Steps
  <2> HIDE DEF J
  <2> QED
    BY <1>1, <2>1, <2>2, <2>3, DoneShape, OneJobMoves
<1>3. CASE ~InTime(id)
  <2>1. Destroy(id) /\ BoxStep
    BY <1>3 DEF Serve, BoxStep
  <2>2. CASE Enters(n, "serve", id, "sweep", Outdated \ {<<id, box[id].db>>})
    <3>1. Outdated \ {<<id, box[id].db>>} \in SUBSET (Ids \X Nat)
      BY JobShape
    <3> QED
      BY <1>1, <2>1, <2>2, <3>1, EntersKeeps DEF Ops
  <2>3. CASE UNCHANGED job
    BY <1>1, <2>1, <2>3, NoJobMoves
  <2> QED
    BY <1>3, <2>2, <2>3 DEF Serve
<1> QED
  BY <1>2, <1>3

LEMMA ServeCreatedKeeps ==
    ASSUME SandboxInv, NEW n \in Jobs, ServeCreated(n)
    PROVE  SandboxInv'
<1>1. /\ UNCHANGED opened /\ TypeOK /\ Boxes
      /\ job[n] \in Job /\ job[n].step = "created" /\ job[n].op = "serve" /\ job[n].id \in Ids
  BY JobShape DEF ServeCreated, SandboxInv, Standing
<1> DEFINE id == job[n].id
<1>2. CASE InTime(id)
  <2> DEFINE J == [op |-> "serve", id |-> id, step |-> "handle", db |-> box[id].db,
                   todo |-> job[n].todo]
  <2> DEFINE k == [job[n] EXCEPT !.step = "handle"]
  <2>a. k = [op |-> job[n].op, id |-> id, step |-> "handle", db |-> job[n].db, todo |-> job[n].todo]
    BY <1>1, JobFields
  <2>b. job' = [job EXCEPT ![n] = [k EXCEPT !.db = box[id].db]]
    BY <1>2 DEF ServeCreated
  <2> HIDE DEF k
  <2>1. [k EXCEPT !.db = box[id].db] = J
    BY <1>1, <2>a
  <2>2. job' = [job EXCEPT ![n] = J] /\ BoxStep
    BY <1>2, <2>1, <2>b DEF ServeCreated, BoxStep
  <2>3. box[id].db \in DOMAIN opened /\ opened[box[id].db] = id /\ box[id].db \in Nat
    <3>1. id \in Registered
      BY <1>1, <1>2, Registration
    <3> QED
      BY <3>1, <1>1 DEF Boxes, TypeOK, Box
  <2>4. J \in Job /\ J.op = "serve" /\ J.id = id /\ J.step = "handle" /\ J.db = box[id].db
    BY <1>1, <2>3 DEF Job, Ops, Steps
  <2> HIDE DEF J
  <2> QED
    BY <1>1, <2>2, <2>3, <2>4, OneJobMoves
<1>3. CASE ~InTime(id)
  <2>1. Destroy(id) /\ Finish(n)
    BY <1>3 DEF ServeCreated, Refuse
  <2> QED
    BY <1>1, <2>1, FinishKeeps DEF BoxStep
<1> QED
  BY <1>2, <1>3

LEMMA ResetKeeps ==
    ASSUME SandboxInv, NEW n \in Jobs, Reset(n)
    PROVE  SandboxInv'
<1>1. job[n].step = "handle" /\ job[n].id \in Ids /\ UNCHANGED opened
  BY JobShape DEF Reset, Standing
<1>2. BoxStep
  BY <1>1 DEF Reset, BoxStep
<1> DEFINE J == [op |-> "reset", id |-> job[n].id, step |-> "again", db |-> RealDb, todo |-> {}]
<1>3. CASE job' = [job EXCEPT ![n] = J]
  <2>1. J \in Job /\ J.op = "reset" /\ J.id = job[n].id /\ J.step = "again"
    BY <1>1 DEF Job, Ops, Steps, RealDb
  <2> HIDE DEF J
  <2> QED
    BY <1>1, <1>2, <1>3, <2>1, OneJobMoves
<1>4. CASE Finish(n)
  BY <1>1, <1>2, <1>4, FinishKeeps
<1> QED
  BY <1>3, <1>4 DEF Reset, Done

LEMMA CreateAgainKeeps ==
    ASSUME SandboxInv, NEW n \in Jobs, CreateAgain(n)
    PROVE  SandboxInv'
<1>1. /\ job[n] \in Job /\ job[n].step = "again" /\ UNCHANGED <<box, opened, closed>>
      /\ job[n].op # "none" /\ (job[n].op # "sweep" => job[n].id \in Ids)
      /\ Outdated \in SUBSET (Ids \X Nat)
  BY JobShape DEF CreateAgain, Standing
<1> DEFINE J == [op |-> job[n].op, id |-> job[n].id, step |-> "sweep",
                 db |-> job[n].db, todo |-> Outdated]
<1> DEFINE k == [job[n] EXCEPT !.step = "sweep"]
<1>a. k = [op |-> job[n].op, id |-> job[n].id, step |-> "sweep", db |-> job[n].db, todo |-> job[n].todo]
  BY <1>1, JobFields
<1>b. job' = [job EXCEPT ![n] = [k EXCEPT !.todo = Outdated]]
  BY DEF CreateAgain
<1> HIDE DEF k
<1>2. [k EXCEPT !.todo = Outdated] = J
  BY <1>1, <1>a
<1>3. job' = [job EXCEPT ![n] = J]
  BY <1>2, <1>b
<1>4. J \in Job /\ J.op = job[n].op /\ J.id = job[n].id /\ J.step = "sweep"
  BY <1>1 DEF Job, Ops, Steps
<1> HIDE DEF J
<1> QED
  BY <1>1, <1>3, <1>4, OneJobMoves DEF BoxStep

LEMMA OpenDbKeeps ==
    ASSUME SandboxInv, NEW n \in Jobs, OpenDb(n)
    PROVE  SandboxInv'
<1> DEFINE id == job[n].id
           db == Len(opened) + 1
<1>1. /\ TypeOK /\ Boxes /\ Hands /\ Known /\ Named /\ NoneIsIdle /\ Isolated /\ Capped
      /\ job[n] \in Job /\ job[n].step = "open" /\ id \in Ids /\ job[n].op # "none"
  BY JobShape DEF OpenDb, Standing, SandboxInv
<1>2. /\ opened \in Seq(Ids) /\ Len(opened) \in Nat /\ DOMAIN opened = 1..Len(opened)
      /\ closed \subseteq DOMAIN opened
  BY <1>1 DEF TypeOK
<1>3. /\ opened' \in Seq(Ids) /\ Len(opened') = db /\ DOMAIN opened' = 1..db
      /\ opened'[db] = id /\ \A d \in DOMAIN opened : opened'[d] = opened[d]
  BY <1>1, <1>2 DEF OpenDb
<1>4. /\ DOMAIN opened \subseteq DOMAIN opened'
      /\ db \notin DOMAIN opened
      /\ db \in DOMAIN opened'
      /\ \A d \in DOMAIN opened' : d = db \/ d \in DOMAIN opened
      /\ db \in Nat
      /\ db # RealDb
  BY <1>2, <1>3 DEF RealDb
<1> DEFINE k == [job[n] EXCEPT !.step = "opened"]
           J == [op |-> job[n].op, id |-> id, step |-> "opened", db |-> db, todo |-> job[n].todo]
<1>a. k = [op |-> job[n].op, id |-> id, step |-> "opened", db |-> job[n].db, todo |-> job[n].todo]
  BY <1>1, JobFields
<1>b. job' = [job EXCEPT ![n] = [k EXCEPT !.db = db]] /\ UNCHANGED <<box, issued, closed>>
  BY DEF OpenDb
<1> HIDE DEF k
<1>c. [k EXCEPT !.db = db] = J
  BY <1>a
<1>5. J \in Job /\ J.op = job[n].op /\ J.id = id /\ J.step = "opened" /\ J.db = db
  BY <1>1, <1>4 DEF Job, Ops, Steps
<1>d. job' = [job EXCEPT ![n] = J]
  BY <1>b, <1>c
<1> HIDE DEF J, db
<1>6. job' \in [Jobs -> Job] /\ \A m \in Jobs : job'[m] = IF m = n THEN J ELSE job[m]
  BY <1>1, <1>5, <1>d DEF TypeOK
<1>7. TypeOK' /\ Capped'
  BY <1>1, <1>2, <1>3, <1>4, <1>6, <1>b DEF TypeOK, Capped, Registered
<1>8. Boxes'
  BY <1>1, <1>3, <1>4, <1>b DEF Boxes, Registered
<1>9. Named' /\ NoneIsIdle'
  BY <1>1, <1>5, <1>6 DEF Named, NoneIsIdle
<1>10. Isolated'
  BY <1>1, <1>3, <1>4, <1>5, <1>6 DEF Isolated, Standing
<1>11. box[id].db # db
  <2>1. CASE id \in Registered
    BY <2>1, <1>1, <1>4 DEF Boxes
  <2>2. CASE id \notin Registered
    BY <2>2, <1>1, <1>4, Registration
  <2> QED
    BY <2>1, <2>2
<1>12. Hands'
  <2> SUFFICES ASSUME NEW m \in Jobs, job'[m].step = "opened"
               PROVE  /\ job'[m].db \in DOMAIN opened' \ closed'
                      /\ job'[m].id \in Ids
                      /\ opened'[job'[m].db] = job'[m].id
                      /\ box'[job'[m].id].db # job'[m].db
                      /\ \A o \in Jobs : job'[o].step = "opened" /\ job'[o].db = job'[m].db => o = m
    BY DEF Hands, Standing
  <2>0. \A o \in Jobs \ {n} : job'[o].step = "opened" =>
           /\ job'[o] = job[o] /\ job[o].db \in DOMAIN opened \ closed /\ job[o].db # db
           /\ job[o].id \in Ids /\ opened[job[o].db] = job[o].id
           /\ box[job[o].id].db # job[o].db
           /\ \A q \in Jobs : job[q].step = "opened" /\ job[q].db = job[o].db => q = o
    BY <1>1, <1>4, <1>6 DEF Hands, Standing
  <2>1. CASE m = n
    <3>1. job'[m] = J /\ db \notin closed
      BY <2>1, <1>6, <1>2, <1>4
    <3> QED
      BY <2>0, <2>1, <3>1, <1>1, <1>3, <1>4, <1>5, <1>6, <1>11, <1>b
  <2>2. CASE m # n
    <3>1. \A o \in Jobs : job'[o].step = "opened" /\ job'[o].db = job'[m].db => o = m
      BY <2>0, <2>2, <1>5, <1>6
    <3> QED
      BY <2>0, <2>2, <3>1, <1>3, <1>4, <1>b
  <2> QED
    BY <2>1, <2>2
<1>13. Known'
  <2> SUFFICES ASSUME NEW d \in DOMAIN opened' \ closed'
               PROVE  \/ box'[opened'[d]].db = d
                      \/ \E m \in Jobs : job'[m].step = "opened" /\ job'[m].db = d
    BY DEF Known, Standing
  <2>1. CASE d = db
    BY <2>1, <1>5, <1>6
  <2>2. CASE d \in DOMAIN opened
    <3>1. d \in DOMAIN opened \ closed /\ opened'[d] = opened[d]
      BY <2>2, <1>3, <1>b
    <3>2. \A m \in Jobs : job[m].step = "opened" => m # n /\ job'[m] = job[m]
      BY <1>1, <1>6
    <3> QED
      BY <3>1, <3>2, <1>1, <1>b DEF Known, Standing
  <2> QED
    BY <2>1, <2>2, <1>4
<1> QED
  BY <1>7, <1>8, <1>9, <1>10, <1>12, <1>13 DEF SandboxInv

LEMMA LookAgainKeeps ==
    ASSUME SandboxInv, NEW n \in Jobs, LookAgain(n)
    PROVE  SandboxInv'
<1> DEFINE id == job[n].id
           mine == job[n].db
<1>1. /\ TypeOK /\ Boxes /\ Hands /\ Known /\ Named /\ NoneIsIdle /\ Isolated /\ Capped
      /\ job[n] \in Job /\ job[n].step = "opened" /\ job[n].op # "none"
      /\ job[n].op # "sweep" => id \in Ids
      /\ UNCHANGED opened
  BY JobShape DEF LookAgain, Standing, SandboxInv
<1>2. /\ id \in Ids /\ mine \in DOMAIN opened \ closed /\ opened[mine] = id /\ box[id].db # mine
      /\ \A m \in Jobs : job[m].step = "opened" /\ job[m].db = mine => m = n
  BY <1>1 DEF Hands, Standing
<1>3. /\ DOMAIN opened = 1..Len(opened) /\ Len(opened) \in Nat /\ mine \in Nat /\ mine # RealDb
      /\ \A d \in DOMAIN opened : opened[d] \in Ids
  BY <1>1, <1>2 DEF TypeOK, RealDb
<1>4. PICK J \in Job : /\ job' = [job EXCEPT ![n] = J]
                       /\ J.step \in {"none", "created"}
                       /\ J.op \notin {"none", "sweep"} => J.id \in Ids
                       /\ J.op = "none" => J = Done
  <2>1. CASE Finish(n)
    BY <2>1, DoneShape DEF Finish
  <2>2. CASE job' = [job EXCEPT ![n].step = "created", ![n].db = RealDb]
    <3> DEFINE k == [job[n] EXCEPT !.step = "created"]
               C == [op |-> job[n].op, id |-> id, step |-> "created", db |-> RealDb,
                     todo |-> job[n].todo]
    <3>1. k = [op |-> job[n].op, id |-> id, step |-> "created", db |-> mine, todo |-> job[n].todo]
      BY <1>1, JobFields
    <3>2. job' = [job EXCEPT ![n] = [k EXCEPT !.db = RealDb]]
      BY <2>2
    <3> HIDE DEF k
    <3>3. [k EXCEPT !.db = RealDb] = C
      BY <3>1
    <3>4. job' = [job EXCEPT ![n] = C]
      BY <3>2, <3>3
    <3>5. C \in Job /\ C.op = job[n].op /\ C.id = id /\ C.step = "created"
      BY <1>1 DEF Job, Ops, Steps, RealDb
    <3> HIDE DEF C
    <3> QED
      BY <3>4, <3>5, <1>1
  <2> QED
    BY <2>1, <2>2 DEF LookAgain
<1>5. job' \in [Jobs -> Job] /\ \A m \in Jobs : job'[m] = IF m = n THEN J ELSE job[m]
  BY <1>1, <1>4 DEF TypeOK
<1>6. \A m \in Jobs : job'[m].step = "opened" =>
         /\ m # n /\ job'[m] = job[m] /\ job[m].db # mine
         /\ job[m].db \in DOMAIN opened \ closed
         /\ job[m].id \in Ids /\ opened[job[m].db] = job[m].id /\ box[job[m].id].db # job[m].db
         /\ \A o \in Jobs : job[o].step = "opened" /\ job[o].db = job[m].db => o = m
  BY <1>1, <1>2, <1>4, <1>5 DEF Hands, Standing
<1>7. Named' /\ NoneIsIdle' /\ Isolated'
  BY <1>1, <1>4, <1>5 DEF Named, NoneIsIdle, Isolated, Standing
<1>8. \A d \in DOMAIN opened \ closed : d # mine =>
         \/ box[opened[d]].db = d
         \/ \E m \in Jobs : job'[m].step = "opened" /\ job'[m].db = d
  BY <1>1, <1>4, <1>5 DEF Known, Standing
<1>9. CASE Surplus(id)
  <2>1. closed' = closed \cup {mine} /\ UNCHANGED box
    BY <1>9 DEF LookAgain
  <2>2. TypeOK' /\ Capped'
    BY <1>1, <1>2, <1>5, <2>1 DEF TypeOK, Capped, Registered
  <2>3. Boxes'
    <3> SUFFICES ASSUME NEW i \in Ids
                 PROVE  /\ i \in Registered => /\ box[i].db \in DOMAIN opened \ closed'
                                                /\ opened[box[i].db] = i
                        /\ i \notin Registered => box[i] = NoBox
      BY <1>1, <2>1 DEF Boxes, Registered
    <3>1. i \in Registered => box[i].db # mine
      BY <1>1, <1>2 DEF Boxes
    <3> QED
      BY <3>1, <1>1, <2>1 DEF Boxes
  <2>4. Hands'
    BY <1>1, <1>6, <2>1 DEF Hands, Standing
  <2>5. Known'
    BY <1>1, <1>8, <2>1 DEF Known, Standing
  <2> QED
    BY <2>2, <2>3, <2>4, <2>5, <1>7 DEF SandboxInv
<1>10. CASE ~Surplus(id)
  <2>1. box' = [box EXCEPT ![id] = [db |-> mine, live |-> TRUE]] /\ UNCHANGED closed
    BY <1>10 DEF LookAgain
  <2>2. id \notin Registered /\ ~Full
    BY <1>10 DEF Surplus
  <2>3. [db |-> mine, live |-> TRUE] \in Box
    BY <1>3 DEF Box
  <2>4. /\ box' \in [Ids -> Box]
        /\ \A i \in Ids : box'[i] = IF i = id THEN [db |-> mine, live |-> TRUE] ELSE box[i]
    BY <1>1, <2>1, <2>3 DEF TypeOK
  <2>5. box'[id] # NoBox
    BY <2>4, <1>2 DEF NoBox
  <2>6. Registered' = Registered \cup {id}
    BY <1>2, <2>2, <2>4, <2>5 DEF Registered
  <2>7. Capped'
    <3>1. IsFiniteSet(Registered)
      BY SandboxAssumption, FS_Subset DEF Registered
    <3>2. Cardinality(Registered) \in Nat
      BY <3>1, FS_CardinalityType
    <3>3. Cardinality(Registered \cup {id}) = Cardinality(Registered) + 1
      BY <3>1, <2>2, FS_AddElement
    <3> QED
      BY <3>2, <3>3, <2>2, <2>6, SandboxAssumption DEF Capped, Full
  <2>8. TypeOK'
    BY <1>1, <1>5, <2>1, <2>4 DEF TypeOK
  <2>9. Boxes'
    BY <1>1, <1>2, <2>1, <2>4, <2>6 DEF Boxes
  <2>10. Hands'
    <3> SUFFICES ASSUME NEW m \in Jobs, job'[m].step = "opened"
                 PROVE  /\ job'[m].db \in DOMAIN opened \ closed
                        /\ job'[m].id \in Ids
                        /\ opened[job'[m].db] = job'[m].id
                        /\ box'[job'[m].id].db # job'[m].db
                        /\ \A o \in Jobs : job'[o].step = "opened" /\ job'[o].db = job'[m].db => o = m
      BY <1>1, <2>1 DEF Hands, Standing
    <3>1. box'[job[m].id].db # job[m].db
      BY <1>6, <2>4
    <3> QED
      BY <3>1, <1>6
  <2>11. Known'
    <3> SUFFICES ASSUME NEW d \in DOMAIN opened \ closed
                 PROVE  \/ box'[opened[d]].db = d
                        \/ \E m \in Jobs : job'[m].step = "opened" /\ job'[m].db = d
      BY <1>1, <2>1 DEF Known, Standing
    <3>1. CASE d = mine
      BY <3>1, <1>2, <2>4
    <3>2. CASE d # mine /\ box[opened[d]].db = d
      <4>0. box[id].db = RealDb
        BY <1>1, <1>2, <2>2, Registration
      <4>1. opened[d] # id
        BY <3>2, <4>0, <1>3 DEF RealDb
      <4> QED
        BY <4>1, <3>2, <1>3, <2>4
    <3> QED
      BY <3>1, <3>2, <1>8
  <2> QED
    BY <2>7, <2>8, <2>9, <2>10, <2>11, <1>7 DEF SandboxInv
<1> QED
  BY <1>9, <1>10

LEMMA RestartKeeps ==
    ASSUME SandboxInv, Restart
    PROVE  SandboxInv'
<1>1. /\ box' = [id \in Ids |-> NoBox] /\ closed' = DOMAIN opened
      /\ job' = [n \in Jobs |-> Done] /\ UNCHANGED opened
      /\ TypeOK
  BY DEF Restart, SandboxInv
<1>2. NoBox \in Box /\ Done \in Job /\ Done.step = "none" /\ Done.op = "none"
  BY DoneShape DEF NoBox, Box, RealDb
<1>3. Registered' = {}
  BY <1>1 DEF Registered
<1>4. TypeOK'
  BY <1>1, <1>2 DEF TypeOK
<1>5. Boxes' /\ Known'
  BY <1>1, <1>3 DEF Boxes, Known
<1>6. Hands' /\ Named' /\ NoneIsIdle' /\ Isolated'
  BY <1>1, <1>2 DEF Hands, Named, NoneIsIdle, Isolated, Standing
<1>7. Capped'
  BY <1>3, FS_EmptySet, SandboxAssumption DEF Capped
<1> QED
  BY <1>4, <1>5, <1>6, <1>7 DEF SandboxInv

LEMMA RunOutKeeps ==
    ASSUME SandboxInv, NEW id \in Ids, RunOut(id)
    PROVE  SandboxInv'
<1>1. id \in Registered
  BY Registration DEF RunOut, SandboxInv
<1>2. BoxStep /\ UNCHANGED <<opened, job>>
  BY <1>1 DEF RunOut, BoxStep
<1> QED
  BY <1>2, NoJobMoves

LEMMA ShortStepsKeep ==
    ASSUME SandboxInv, NEW n \in Jobs,
           Entered(n) \/ Answered(n) \/ Exit(n) \/ EndSweep(n) \/ BeginSweep(n)
             \/ \E id \in Ids : Enter(n, id)
    PROVE  SandboxInv'
<1>1. CASE Entered(n) \/ Answered(n) \/ EndSweep(n)
  BY <1>1, FinishKeeps DEF Entered, Answered, EndSweep, Standing, BoxStep
<1>2. CASE Exit(n)
  <2>1. job[n].step = "handle" /\ job[n].id \in Ids
    BY <1>2, JobShape DEF Exit, Standing
  <2> QED
    BY <1>2, <2>1, FinishKeeps DEF Exit, BoxStep
<1>3. CASE BeginSweep(n)
  <2>1. Outdated \in SUBSET (Ids \X Nat)
    BY JobShape
  <2> QED
    BY <1>3, <2>1, EntersKeeps DEF BeginSweep, BoxStep, Ops
<1>4. ASSUME NEW id \in Ids, Enter(n, id) PROVE SandboxInv'
  <2>1. Outdated \in SUBSET (Ids \X Nat)
    BY JobShape
  <2> QED
    BY <1>4, <2>1, EntersKeeps DEF Enter, BoxStep, Ops
<1> QED
  BY <1>1, <1>2, <1>3, <1>4

-----------------------------------------------------------------------------
(* The theorems.                                                            *)

\* Who holds which database, after every step of every request, sweep,
\* expiry and restart of the sandboxes (demo-sandbox.ts:99).
THEOREM SandboxInvariant == SandboxSpec => []SandboxInv
<1>1. SandboxInit => SandboxInv
  <2> SUFFICES ASSUME SandboxInit PROVE SandboxInv
    OBVIOUS
  <2>1. NoBox \in Box /\ Done \in Job /\ Done.step = "none" /\ Done.op = "none"
    BY DoneShape DEF NoBox, Box, RealDb
  <2>2. Registered = {} /\ opened = <<>> /\ DOMAIN opened = {}
    BY DEF SandboxInit, Registered
  <2>3. TypeOK /\ Boxes /\ Known
    BY <2>1, <2>2 DEF SandboxInit, TypeOK, Boxes, Known
  <2>4. Hands /\ Named /\ NoneIsIdle /\ Isolated
    BY <2>1 DEF SandboxInit, Hands, Named, NoneIsIdle, Isolated, Standing
  <2>5. Capped
    BY <2>2, FS_EmptySet, SandboxAssumption DEF Capped
  <2> QED
    BY <2>3, <2>4, <2>5 DEF SandboxInv
<1>2. SandboxInv /\ [SandboxNext]_sandboxVars => SandboxInv'
  <2> SUFFICES ASSUME SandboxInv, [SandboxNext]_sandboxVars PROVE SandboxInv'
    OBVIOUS
  <2>1. ASSUME NEW n \in Jobs, CreateStep(n) PROVE SandboxInv'
    BY <2>1, SweepOneKeeps, LookKeeps, OpenDbKeeps, LookAgainKeeps DEF CreateStep
  <2>2. ASSUME NEW n \in Jobs, RequestStep(n) PROVE SandboxInv'
    BY <2>2, ShortStepsKeep, ServeKeeps, ServeCreatedKeeps, ResetKeeps, CreateAgainKeeps
       DEF RequestStep
  <2>3. ASSUME NEW id \in Ids, RunOut(id) PROVE SandboxInv'
    BY <2>3, RunOutKeeps
  <2>4. CASE Restart
    BY <2>4, RestartKeeps
  <2>5. CASE UNCHANGED sandboxVars
    BY <2>5, NoJobMoves DEF sandboxVars, BoxStep
  <2> QED
    BY <2>1, <2>2, <2>3, <2>4, <2>5 DEF SandboxNext
<1> QED
  BY <1>1, <1>2, PTL DEF SandboxSpec

\* For any cap, any visitors and any interleaving, no sandbox is over the cap
\* and no open database is forgotten (demo-sandbox.ts:102).
THEOREM SandboxesAreAccounted == SandboxSpec => []SandboxesAccounted
<1>1. SandboxInv => SandboxesAccounted
  BY DEF SandboxInv, Capped, Boxes, Known, SandboxesAccounted, TypeOK, Registered
<1> QED
  BY <1>1, SandboxInvariant, PTL

\* A request with a visitor's id never runs on the real database or on
\* another visitor's (demo-sandbox.ts:226).
THEOREM VisitorsAreIsolated == SandboxSpec => []Isolated
<1>1. SandboxInv => Isolated
  BY DEF SandboxInv
<1> QED
  BY <1>1, SandboxInvariant, PTL

=============================================================================
