--------------------------- MODULE LaunchSchedule ---------------------------
(***************************************************************************)
(* A scheduled launch and the sweep that announces it: an hour before it   *)
(* opens and when it opens, to the people on its waitlist and to the       *)
(* followers of its creator.  Every server instance runs the sweep; each   *)
(* announcement is claimed by a conditional update of the launch.          *)
(*                                                                         *)
(*   server/launch-schedule.ts  the sweep                                  *)
(*   server/domain.ts           activation, now or at a future time        *)
(*   server/moderation.ts       the pause of a product                     *)
(*   server/commerce-ops.ts     waitlist, followers, their alerts          *)
(*                                                                         *)
(* Time is where the launch's starts_at lies: FAR (more than an hour       *)
(* ahead), SOON, OPEN (for less than a day) or LATE.  A sweep keeps the    *)
(* time it woke at, its view, and selects by it.  What a notification does *)
(* in an inbox is Outbox; here it counts who is told.                      *)
(***************************************************************************)
EXTENDS Integers, FiniteSets

CONSTANTS
    People,         \* who may wait for the launch or follow its creator
    Servers,        \* instances that sweep
    MaxActivations, \* bound: activations of the launch
    MaxStops        \* bound: instances that stop in the middle of a sweep

ASSUME ServersAssumption == IsFiniteSet(Servers)

VARIABLES
    launch,     \* launches.status
    phase,      \* where starts_at lies
    reminded,   \* opens_reminded_at is not NULL
    opened,     \* open_notified_at is not NULL
    waitlist,   \* drop_waitlist.status
    follows,    \* creator_follows with alerts_opt_in
    sweep,      \* what each instance is doing
    hosting,    \* waiters a host's "notify" has yet to tell
    told,       \* history: how often the sweeps told each person
    scheduled,  \* history: activations at a future time
    activations, stops

launchVars == <<launch, phase, reminded, opened>>
peopleVars == <<waitlist, follows>>
pastVars   == <<told, scheduled, activations, stops>>
scheduleVars == <<launchVars, peopleVars, sweep, hosting, pastVars>>

Phase  == {"FAR", "SOON", "OPEN", "LATE"}
Asleep == [at |-> "ASLEEP", view |-> "FAR", waiters |-> {}, followers |-> {}, mark |-> {}]

ScheduleInit ==
    /\ launch    = "READY"
    /\ phase     = "FAR"
    /\ reminded  = FALSE
    /\ opened    = FALSE
    /\ waitlist  = [p \in People |-> "NONE"]
    /\ follows   = {}
    /\ sweep     = [s \in Servers |-> Asleep]
    /\ hosting   = {}
    /\ told      = [k \in {"soon", "open"} |-> [p \in People |-> 0]]
    /\ scheduled = 0
    /\ activations = 0
    /\ stops     = 0

Waiting == {p \in People : waitlist[p] = "WAITING"}

-----------------------------------------------------------------------------
(* The launch.                                                              *)

\* The new starts_at lies ahead of the time every sweep woke at.
Outdate == sweep' = [s \in Servers |-> [sweep[s] EXCEPT !.view = "FAR"]]

\* POST /launch/activate with an opensAt.
Schedule ==
    /\ launch # "LIVE" /\ activations < MaxActivations
    /\ launch' = "LIVE"
    /\ phase' \in {"FAR", "SOON"}
    /\ reminded' = FALSE /\ opened' = FALSE
    /\ scheduled' = scheduled + 1 /\ activations' = activations + 1
    /\ Outdate
    /\ UNCHANGED <<peopleVars, hosting, told, stops>>

\* Without one: it opens at once, and its followers are told outside the
\* sweep, by notifyCreatorFollowers.
ActivateNow ==
    /\ launch # "LIVE" /\ activations < MaxActivations
    /\ launch' = "LIVE"
    /\ phase' = "OPEN"
    /\ reminded' = FALSE /\ opened' = TRUE
    /\ activations' = activations + 1
    /\ Outdate
    /\ UNCHANGED <<peopleVars, hosting, told, scheduled, stops>>

\* The product is paused, and its launches with it; resumed, the launch may
\* be activated again.
PauseLaunch ==
    /\ launch = "LIVE"
    /\ launch' = "PAUSED"
    /\ UNCHANGED <<phase, reminded, opened, peopleVars, sweep, hosting, pastVars>>

\* A launch is OPEN for a day, longer than a loop sleeps (twenty minutes) and
\* sweeps: its opening is claimed before the day is over.
SeenOpen == opened \/ launch # "LIVE"

Later == [FAR |-> "SOON", SOON |-> "OPEN", OPEN |-> "LATE"]

TimePasses ==
    /\ phase # "LATE" /\ activations > 0
    /\ phase = "OPEN" => SeenOpen
    /\ phase' = Later[phase]
    /\ UNCHANGED <<launch, reminded, opened, peopleVars, sweep, hosting, pastVars>>

-----------------------------------------------------------------------------
(* The people.                                                              *)

JoinWaitlist(p) ==
    /\ waitlist[p] # "WAITING"
    /\ waitlist' = [waitlist EXCEPT ![p] = "WAITING"]
    /\ UNCHANGED <<launchVars, follows, sweep, hosting, pastVars>>

LeaveWaitlist(p) ==
    /\ waitlist[p] \in {"WAITING", "NOTIFIED"}
    /\ waitlist' = [waitlist EXCEPT ![p] = "REMOVED"]
    /\ UNCHANGED <<launchVars, follows, sweep, hosting, pastVars>>

Follow(p) ==
    /\ p \notin follows
    /\ follows' = follows \cup {p}
    /\ UNCHANGED <<launchVars, waitlist, sweep, hosting, pastVars>>

\* Also a follower who turns the alerts off.
Unfollow(p) ==
    /\ p \in follows
    /\ follows' = follows \ {p}
    /\ UNCHANGED <<launchVars, waitlist, sweep, hosting, pastVars>>

\* POST /launches/:id/waitlist/notify reads who is waiting ...
HostNotifies ==
    /\ hosting = {} /\ Waiting # {} /\ activations > 0
    /\ hosting' = Waiting
    /\ UNCHANGED <<launchVars, peopleVars, sweep, pastVars>>

\* ... and tells them one by one.
HostTells(p) ==
    /\ p \in hosting
    /\ hosting' = hosting \ {p}
    /\ waitlist' = [waitlist EXCEPT ![p] = "NOTIFIED"]
    /\ UNCHANGED <<launchVars, follows, sweep, pastVars>>

-----------------------------------------------------------------------------
(* The sweep.                                                               *)

Goes(s, at) == sweep' = [sweep EXCEPT ![s].at = at]

\* Launches to remind of are selected first.
Wake(s) ==
    /\ sweep[s].at = "ASLEEP"
    /\ sweep' = [sweep EXCEPT ![s] =
                    [Asleep EXCEPT
                        !.view = phase,
                        !.at = IF launch = "LIVE" /\ ~reminded /\ phase = "SOON"
                               THEN "SOON_FOUND" ELSE "REMINDED"]]
    /\ UNCHANGED <<launchVars, peopleVars, hosting, pastVars>>

\* audience(): who waits, and who follows only.
Addresses(s, at) ==
    sweep' = [sweep EXCEPT ![s] = [@ EXCEPT !.at = at, !.waiters = Waiting,
                                            !.followers = follows \ Waiting]]

\* Faulty variant: the claim does not look whether there is one.
ClaimReminderAnyway(s) ==
    /\ sweep[s].at = "SOON_FOUND"
    /\ reminded' = TRUE
    /\ Addresses(s, "REMINDING")
    /\ UNCHANGED <<launch, phase, opened, peopleVars, hosting, pastVars>>

\* UPDATE ... WHERE opens_reminded_at IS NULL, whatever the launch is by now.
ClaimReminder(s) ==
    /\ sweep[s].at = "SOON_FOUND"
    /\ reminded' = TRUE
    /\ IF reminded THEN Goes(s, "REMINDED") ELSE Addresses(s, "REMINDING")
    /\ UNCHANGED <<launch, phase, opened, peopleVars, hosting, pastVars>>

Remind(s, p) ==
    /\ sweep[s].at = "REMINDING"
    /\ p \in sweep[s].waiters \cup sweep[s].followers
    /\ told' = [told EXCEPT !["soon"][p] = @ + 1]
    /\ sweep' = [sweep EXCEPT ![s] =
                     [@ EXCEPT !.waiters = sweep[s].waiters \ {p}, !.followers = sweep[s].followers \ {p}]]
    /\ UNCHANGED <<launchVars, peopleVars, hosting, scheduled, activations, stops>>

EndReminders(s) ==
    /\ sweep[s].at = "REMINDING"
    /\ sweep[s].waiters \cup sweep[s].followers = {}
    /\ Goes(s, "REMINDED")
    /\ UNCHANGED <<launchVars, peopleVars, hosting, pastVars>>

\* Faulty variant: an opening is due for an hour before it.
DueEarly(view) == view = "SOON"

\* Opened, by the time the sweep woke at, less than a day ago.
Due(view) == view = "OPEN"

\* Then the launches to announce.
SelectDue(s) ==
    /\ sweep[s].at = "REMINDED"
    /\ Goes(s, IF launch = "LIVE" /\ ~opened /\ Due(sweep[s].view) THEN "DUE_FOUND" ELSE "ASLEEP")
    /\ UNCHANGED <<launchVars, peopleVars, hosting, pastVars>>

ClaimOpening(s) ==
    /\ sweep[s].at = "DUE_FOUND"
    /\ opened' = TRUE
    /\ IF opened THEN Goes(s, "ASLEEP") ELSE Addresses(s, "ANNOUNCING")
    /\ UNCHANGED <<launch, phase, reminded, peopleVars, hosting, pastVars>>

Told(p) == told' = [told EXCEPT !["open"][p] = @ + 1]

\* The waitlist comes first: a notification, then its row NOTIFIED.
AnnounceToWaiter(s, p) ==
    /\ sweep[s].at = "ANNOUNCING" /\ sweep[s].mark = {}
    /\ p \in sweep[s].waiters
    /\ Told(p)
    /\ sweep' = [sweep EXCEPT ![s] = [@ EXCEPT !.waiters = sweep[s].waiters \ {p}, !.mark = {p}]]
    /\ UNCHANGED <<launchVars, peopleVars, hosting, scheduled, activations, stops>>

MarkNotified(s) ==
    /\ sweep[s].mark # {}
    /\ waitlist' = [p \in People |-> IF p \in sweep[s].mark THEN "NOTIFIED" ELSE waitlist[p]]
    /\ sweep' = [sweep EXCEPT ![s].mark = {}]
    /\ UNCHANGED <<launchVars, follows, hosting, pastVars>>

AnnounceToFollower(s, p) ==
    /\ sweep[s].at = "ANNOUNCING" /\ sweep[s].mark = {} /\ sweep[s].waiters = {}
    /\ p \in sweep[s].followers
    /\ Told(p)
    /\ sweep' = [sweep EXCEPT ![s].followers = @ \ {p}]
    /\ UNCHANGED <<launchVars, peopleVars, hosting, scheduled, activations, stops>>

EndAnnouncement(s) ==
    /\ sweep[s].at = "ANNOUNCING" /\ sweep[s].mark = {}
    /\ sweep[s].waiters \cup sweep[s].followers = {}
    /\ Goes(s, "ASLEEP")
    /\ UNCHANGED <<launchVars, peopleVars, hosting, pastVars>>

\* An instance stops at any point of a sweep and is replaced; a host's request
\* may be lost with it.
Stop(s) ==
    /\ sweep[s].at # "ASLEEP"
    /\ stops < MaxStops /\ stops' = stops + 1
    /\ sweep' = [sweep EXCEPT ![s] = Asleep]
    /\ hosting' \in {hosting, {}}
    /\ UNCHANGED <<launchVars, peopleVars, told, scheduled, activations>>

-----------------------------------------------------------------------------
SweepStep(s) ==
    \/ Wake(s) \/ ClaimReminder(s) \/ EndReminders(s)
    \/ SelectDue(s) \/ ClaimOpening(s) \/ MarkNotified(s) \/ EndAnnouncement(s)
    \/ \E p \in People : Remind(s, p) \/ AnnounceToWaiter(s, p) \/ AnnounceToFollower(s, p)

ScheduleNext ==
    \/ Schedule \/ ActivateNow \/ PauseLaunch \/ TimePasses \/ HostNotifies
    \/ \E p \in People : \/ JoinWaitlist(p) \/ LeaveWaitlist(p) \/ Follow(p) \/ Unfollow(p)
                         \/ HostTells(p)
    \/ \E s \in Servers : SweepStep(s) \/ Stop(s)

ScheduleSpec == ScheduleInit /\ [][ScheduleNext]_scheduleVars

Approaching == phase \in {"FAR", "SOON"} /\ TimePasses

\* The loop of every instance goes on, whatever a sweep threw, and a launch
\* opens when its time comes.
ScheduleFairness ==
    /\ \A s \in Servers : WF_scheduleVars(SweepStep(s))
    /\ WF_scheduleVars(Approaching)

-----------------------------------------------------------------------------
(* Properties.                                                              *)

\* "So two instances or a restart never repeat it", "each person once even
\* if on both lists" (docs/showcase-and-ads.md:76): sweeps tell a person of an
\* opening at most once for each time the launch was scheduled, and remind them
\* at most once for each time it was activated, also when sweeps hold a launch
\* they selected before it was paused and activated anew.
AnnouncedOnce ==
    \A p \in People : told["open"][p] <= scheduled /\ told["soon"][p] <= activations

\* Somebody who waits for a scheduled launch that is not announced yet is
\* told when it opens, unless they leave, the launch is paused or an instance
\* stops in the middle of its sweep (which loses the announcement).
WaitersAreTold ==
    \A p \in People :
        launch = "LIVE" /\ ~opened /\ waitlist[p] = "WAITING"
            ~> waitlist[p] # "WAITING" \/ launch # "LIVE" \/ stops > 0
=============================================================================
