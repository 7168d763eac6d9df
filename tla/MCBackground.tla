---------------------------- MODULE MCBackground ----------------------------
(***************************************************************************)
(* Small instances of the two loops a server instance runs beside its      *)
(* requests: the delivery worker (Outbox) and the announcement of launches *)
(* (LaunchSchedule).  They share no row but the notifications one creates  *)
(* and the other sends, which Outbox creates at any time: a behaviour      *)
(* exercises one of them (its scope), so that their states add up instead  *)
(* of multiplying.                                                         *)
(***************************************************************************)
EXTENDS Outbox, LaunchSchedule

VARIABLE scope
mcVars == <<vars, scheduleVars, scope>>

\* Bounds: an instance stops, or the launch is activated again, and a host
\* tells the waitlist while it is activated the first time.
InScope ==
    /\ stops + activations <= 2
    /\ hosting # {} => activations <= 1

MCInit == Init /\ ScheduleInit /\ scope \in {"delivery", "schedule"}

MCNext ==
    \/ scope = "delivery" /\ Next /\ UNCHANGED <<scheduleVars, scope>>
    \/ scope = "schedule" /\ UNCHANGED <<vars, scope>> /\ ScheduleNext /\ InScope'

\* Fairness of Outbox asks nothing outside of its scope, where nothing is
\* created; ScheduleFairness is asked in its own.
Sweeps    == scope = "schedule"
MCSpec ==
    /\ MCInit /\ [][MCNext]_mcVars
    /\ Fairness
    /\ \A s \in Servers : WF_scheduleVars(Sweeps /\ SweepStep(s))
    /\ WF_scheduleVars(Sweeps /\ Approaching)
=============================================================================
