---------------------------- MODULE DemoSandbox ----------------------------
(***************************************************************************)
(* The sandboxes of the demo: a visitor's requests carry an id the server  *)
(* signed and run on a database of the visitor's own, in memory, opened on *)
(* entry or whenever it is missing, closed when it expires, on exit and on *)
(* reset.  Every await of the registry lets other requests in.             *)
(*                                                                         *)
(*   server/demo-sandbox.ts   the registry, the context of a request       *)
(*                                                                         *)
(* A database is its number in the order of opening.  Requests without an  *)
(* id, or with one the server did not sign, never reach the registry.      *)
(***************************************************************************)
EXTENDS Naturals, Sequences, FiniteSets

CONSTANTS
    Ids,
    MaxSandboxes,   \* DEMO_MAX_SANDBOXES
    MaxOpened,      \* bound: databases opened
    Jobs            \* bound: requests and sweeps in flight

ASSUME SandboxAssumption == IsFiniteSet(Ids) /\ MaxSandboxes \in Nat

VARIABLES
    box,        \* the registry: the database of an id and whether it is in time
    issued,     \* the ids visitors hold; signed, so they outlive the process
    opened,     \* whose database each one is
    closed,
    job         \* what is in flight

sandboxVars == <<box, issued, opened, closed, job>>

RealDb == 0
NoBox == [db |-> RealDb, live |-> FALSE]
Done == [op |-> "none", id |-> "none", step |-> "none", db |-> RealDb, todo |-> {}]

SandboxInit ==
    /\ box    = [id \in Ids |-> NoBox]
    /\ issued = {}
    /\ opened = <<>>
    /\ closed = {}
    /\ job    = [n \in Jobs |-> Done]

Registered == {id \in Ids : box[id] # NoBox}
InTime(id) == box[id].live
Outdated == {<<id, box[id].db>> : id \in {i \in Registered : ~InTime(i)}}
Full == Cardinality(Registered) >= MaxSandboxes

Standing(n, step) == job[n].step = step
Enters(n, op, id, step, todo) ==
    /\ job[n] = Done
    /\ job' = [job EXCEPT ![n] = [Done EXCEPT !.op = op, !.id = id, !.step = step, !.todo = todo]]
Goto(n, step) == job' = [job EXCEPT ![n].step = step]
Finish(n) == job' = [job EXCEPT ![n] = Done]

\* The map forgets the id and its database is closed.
Destroy(id) ==
    IF id \in Registered
    THEN box' = [box EXCEPT ![id] = NoBox] /\ closed' = closed \cup {box[id].db}
    ELSE UNCHANGED <<box, closed>>

-----------------------------------------------------------------------------
(* create(id): sweep, look, open, look again.                               *)

\* A sweep walks the sandboxes it found; one that ran out is destroyed by its
\* id, so that one opened for the same id meanwhile goes with it.
SweepOne(n) ==
    /\ Standing(n, "sweep")
    /\ \E old \in job[n].todo :
         /\ job' = [job EXCEPT ![n].todo = @ \ {old}]
         /\ IF box[old[1]].db = old[2] /\ InTime(old[1])
            THEN UNCHANGED <<box, closed>>
            ELSE Destroy(old[1])
    /\ UNCHANGED <<issued, opened>>

BeginSweep(n) ==
    /\ Outdated # {}
    /\ Enters(n, "sweep", "none", "sweep", Outdated)
    /\ UNCHANGED <<box, issued, opened, closed>>

EndSweep(n) ==
    /\ Standing(n, "sweep") /\ job[n].op = "sweep" /\ job[n].todo = {}
    /\ Finish(n)
    /\ UNCHANGED <<box, issued, opened, closed>>

\* What follows create: a request runs in its sandbox, or is refused.
Look(n) ==
    LET id == job[n].id IN
    /\ Standing(n, "sweep") /\ job[n].op # "sweep" /\ job[n].todo = {}
    /\ \/ id \in Registered /\ box' = [box EXCEPT ![id].live = TRUE] /\ Goto(n, "created")
       \/ id \notin Registered /\ Full /\ Finish(n) /\ UNCHANGED box
       \/ id \notin Registered /\ ~Full /\ Goto(n, "open") /\ UNCHANGED box
    /\ UNCHANGED <<issued, opened, closed>>

OpenDb(n) ==
    /\ Standing(n, "open")
    /\ Len(opened) < MaxOpened
    /\ opened' = Append(opened, job[n].id)
    /\ job' = [job EXCEPT ![n].step = "opened", ![n].db = Len(opened) + 1]
    /\ UNCHANGED <<box, issued, closed>>

\* Mutant of Surplus: only the id is looked up again.
TakenMeanwhile(id) == id \in Registered

\* A request for the id, or for the last place, was faster.
Surplus(id) == id \in Registered \/ Full

LookAgain(n) ==
    LET id == job[n].id IN
    /\ Standing(n, "opened")
    /\ IF Surplus(id)
       THEN closed' = closed \cup {job[n].db} /\ UNCHANGED box
       ELSE box' = [box EXCEPT ![id] = [db |-> job[n].db, live |-> TRUE]] /\ UNCHANGED closed
    /\ IF Surplus(id) /\ id \notin Registered
       THEN Finish(n)
       ELSE job' = [job EXCEPT ![n].step = "created", ![n].db = RealDb]
    /\ UNCHANGED <<issued, opened>>

-----------------------------------------------------------------------------
(* The requests.                                                            *)

\* POST /enter signs a new id and creates its sandbox.
Enter(n, id) ==
    /\ id \notin issued
    /\ issued' = issued \cup {id}
    /\ Enters(n, "enter", id, "sweep", Outdated)
    /\ UNCHANGED <<box, opened, closed>>

Entered(n) ==
    /\ Standing(n, "created") /\ job[n].op \in {"enter", "reset"}
    /\ Finish(n)
    /\ UNCHANGED <<box, issued, opened, closed>>

\* A request runs on the database of its sandbox when that is in time; one
\* that ran out is destroyed and, if the limit allows, built again.
Serve(n, id) ==
    /\ id \in issued
    /\ IF InTime(id)
       THEN /\ job[n] = Done
            /\ job' = [job EXCEPT ![n] = [Done EXCEPT !.op = "serve", !.id = id,
                                                      !.step = "handle", !.db = box[id].db]]
            /\ UNCHANGED <<box, closed>>
       ELSE /\ Destroy(id)
            /\ \/ Enters(n, "serve", id, "sweep", Outdated \ {<<id, box[id].db>>})
               \/ UNCHANGED job
    /\ UNCHANGED <<issued, opened>>

\* Mutant of Refuse: the request goes on outside any sandbox.
FallThrough(n) == Goto(n, "handle")

Refuse(n) == Finish(n)

ServeCreated(n) ==
    LET id == job[n].id IN
    /\ Standing(n, "created") /\ job[n].op = "serve"
    /\ IF InTime(id)
       THEN /\ job' = [job EXCEPT ![n].step = "handle", ![n].db = box[id].db]
            /\ UNCHANGED <<box, closed>>
       ELSE Destroy(id) /\ Refuse(n)
    /\ UNCHANGED <<issued, opened>>

Answered(n) ==
    /\ Standing(n, "handle")
    /\ Finish(n)
    /\ UNCHANGED <<box, issued, opened, closed>>

Exit(n) ==
    /\ Standing(n, "handle")
    /\ Destroy(job[n].id)
    /\ Finish(n)
    /\ UNCHANGED <<issued, opened>>

\* POST /reset destroys the sandbox, waits, and creates it again.
Reset(n) ==
    LET id == job[n].id IN
    /\ Standing(n, "handle")
    /\ Destroy(id)
    /\ IF InTime(id)
       THEN job' = [job EXCEPT ![n] = [Done EXCEPT !.op = "reset", !.id = id, !.step = "again"]]
       ELSE Finish(n)
    /\ UNCHANGED <<issued, opened>>

CreateAgain(n) ==
    /\ Standing(n, "again")
    /\ job' = [job EXCEPT ![n].step = "sweep", ![n].todo = Outdated]
    /\ UNCHANGED <<box, issued, opened, closed>>

\* Time passes: a sandbox runs out.
RunOut(id) ==
    /\ InTime(id)
    /\ box' = [box EXCEPT ![id].live = FALSE]
    /\ UNCHANGED <<issued, opened, closed, job>>

\* The process restarts: nothing is left but the ids the visitors hold.
Restart ==
    /\ box' = [id \in Ids |-> NoBox]
    /\ closed' = DOMAIN opened
    /\ job' = [n \in Jobs |-> Done]
    /\ UNCHANGED <<issued, opened>>

-----------------------------------------------------------------------------

CreateStep(n) == SweepOne(n) \/ Look(n) \/ OpenDb(n) \/ LookAgain(n)

RequestStep(n) ==
    \/ Entered(n) \/ ServeCreated(n) \/ Answered(n) \/ Exit(n) \/ Reset(n) \/ CreateAgain(n)
    \/ BeginSweep(n) \/ EndSweep(n)
    \/ \E id \in Ids : Enter(n, id) \/ Serve(n, id)

SandboxNext ==
    \/ \E n \in Jobs : CreateStep(n) \/ RequestStep(n)
    \/ \E id \in Ids : RunOut(id)
    \/ Restart

SandboxSpec == SandboxInit /\ [][SandboxNext]_sandboxVars

-----------------------------------------------------------------------------
(* Properties.                                                              *)

\* Whatever requests enter, rebuild, reset, exit and sweep at the same time,
\* there are never more sandboxes than the cap, a registered database is
\* open, and no open database is forgotten: it is registered for its id or
\* still in the hands of the request that opened it (demo-sandbox.ts:102).
SandboxesAccounted ==
    /\ Cardinality(Registered) <= MaxSandboxes
    /\ \A id \in Registered : box[id].db \in DOMAIN opened \ closed /\ opened[box[id].db] = id
    /\ \A db \in DOMAIN opened \ closed :
          \/ box[opened[db]].db = db
          \/ \E n \in Jobs : Standing(n, "opened") /\ job[n].db = db

\* A request with a visitor's id only ever runs on a database opened for that
\* id, and never on the real one: not when its sandbox is missing, has run
\* out or cannot be built, nor after a restart (demo-sandbox.ts:226).
Isolated ==
    \A n \in Jobs :
        Standing(n, "handle") => /\ job[n].db \in DOMAIN opened
                                 /\ opened[job[n].db] = job[n].id
=============================================================================
