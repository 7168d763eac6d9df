----------------------------- MODULE MCVisitors -----------------------------
(***************************************************************************)
(* Small instances of four parts that decide who a visitor is and on whose *)
(* data a call runs, and that share no state: the signed-in browser        *)
(* (ClientSession), the demo it plays by itself (DemoStore), the accounts  *)
(* of a host's team (Team) and the sandboxes of demo visitors on the       *)
(* server (DemoSandbox).  A behaviour exercises one of them, so that their *)
(* states add up instead of multiplying.                                   *)
(***************************************************************************)
EXTENDS ClientSession, DemoStore, Team, DemoSandbox, TLC

CONSTANTS s1, s2, s3, s4, s5, g1, n1, n2, k1, k2, v1, v2, v3

\* A royalty of either creator that may be settled; one in an approved batch;
\* a paid batch with one of a paid order and one of a pending order; and a
\* paid batch whose only order was taken out again.
MCRuns      == <<"SETTLEMENT_LOCKED", "PAID", "PAID">>
MCCarrier   == (s1 :> 0) @@ (s2 :> 0) @@ (s3 :> 1) @@ (s4 :> 2) @@ (s5 :> 2) @@ (g1 :> 3)
MCCreatorOf == [o \in {s1, s3, g1, n1} |-> k1] @@ [o \in {s2, s4, s5, n2} |-> k2]

\* Ids are interchangeable until they are signed: they are signed in order.
SignedInOrder == issued \in {{}, {v1}, {v1, v2}, {v1, v2, v3}}

VARIABLE scope
mcVars == <<sessionVars, demoVars, teamVars, sandboxVars, scope>>

\* The tabs, the handlers in flight (the same values stand for both) and the
\* roles of a team are interchangeable.
Symmetry == {p @@ q : p \in Permutations(Slots), q \in Permutations(TeamRoles)}

\* Bounds: calls in flight, what a tab shows, identities a tab goes through;
\* of two links to a team the first one may run out; in the demo the deal and
\* the sale take turns.
InScope ==
    /\ Cardinality(calls) <= MaxCalls
    /\ \A t \in Tabs : Cardinality(tabs[t].shown) <= 1 /\ tabs[t].generation <= 2

FirstRunsOut == \A i \in DOMAIN invites : i = 1 \/ invites[i].fresh

OneAfterTheOther ==
    (\E o \in NewOrders : orders[o] # Absent) \/ Len(batches) > Len(Runs) => Len(offers) = 1 /\ drop = "LIVE"

MCInit ==
    /\ SessionInit /\ DemoInit /\ TeamInit /\ SandboxInit
    /\ scope \in {"session", "demo", "team", "sandbox"}
    /\ scope # "demo" => drop = "NONE"

MCNext ==
    /\ UNCHANGED scope
    /\ \/ /\ scope = "session" /\ SessionNext /\ InScope'
          /\ UNCHANGED <<demoVars, teamVars, sandboxVars>>
       \/ /\ scope = "demo" /\ DemoNext /\ OneAfterTheOther'
          /\ UNCHANGED <<sessionVars, teamVars, sandboxVars>>
       \/ /\ scope = "team" /\ TeamNext /\ FirstRunsOut'
          /\ UNCHANGED <<sessionVars, demoVars, sandboxVars>>
       \/ /\ scope = "sandbox" /\ SandboxNext /\ SignedInOrder'
          /\ UNCHANGED <<sessionVars, demoVars, teamVars>>

MCSpec == MCInit /\ [][MCNext]_mcVars
=============================================================================
