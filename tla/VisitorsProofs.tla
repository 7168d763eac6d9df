--------------------------- MODULE VisitorsProofs ---------------------------
(***************************************************************************)
(* Theorems about the parts that decide who a visitor is and what is shown *)
(* or done in whose name: the signed-in browser (ClientSession), the team  *)
(* of a host (Team) and the store of a demo session (DemoStore), for any   *)
(* accounts, tabs, people, orders and number of calls in flight.  The      *)
(* sandboxes of demo visitors are DemoSandboxProofs.                       *)
(***************************************************************************)
EXTENDS ClientSession, DemoStore, Team, FiniteSetTheorems, TLAPS

-----------------------------------------------------------------------------
(* The browser: what its tabs, its calls and the data shown are made of.    *)

Kind == {"hydrate", "users", "search", "submit"}

ItemType == [kind : Kind, owner : Accounts, sent : Nat, session : Nat, token : Nat]
TabType  == [me : Accounts \cup {NoOne}, token : Nat, generation : Nat,
             status : {"LOADING", "ANONYMOUS", "AUTHENTICATED"}, shown : SUBSET ItemType]
CallType == [tab : Tabs, kind : Kind, login : BOOLEAN, user : Accounts,
             generation : Nat, token : Nat, session : Nat]

Shape ==
    /\ logins \in Seq(Accounts)
    /\ cookie \in 0..Len(logins)
    /\ tabs \in [Tabs -> TabType]
    /\ calls \subseteq CallType

\* An account is shown, or asks, only together with the session that was
\* created for it.
Named(who, token) == token \in DOMAIN logins /\ who = logins[token]

\* The identity of a tab does not change within a generation.
CallOfTab(c) ==
    /\ Named(c.user, c.token)
    /\ c.session \in 0..Len(logins)
    /\ c.generation <= tabs[c.tab].generation
    /\ c.generation = tabs[c.tab].generation =>
          tabs[c.tab].me = c.user /\ tabs[c.tab].token = c.token

\* Data that is not of the generation it is shown in came to a search or a
\* submission.
ItemOfTab(i, tab) ==
    /\ Named(i.owner, i.session)
    /\ i.sent <= tab.generation
    /\ i.sent # tab.generation => i.kind \in {"search", "submit"}
    /\ i.sent = tab.generation => Named(tab.me, i.token)

TabsNamed  == \A t \in Tabs : tabs[t].me # NoOne => Named(tabs[t].me, tabs[t].token)
CallsBound == \A c \in calls : CallOfTab(c)
ItemsBound == \A t \in Tabs : \A i \in tabs[t].shown : ItemOfTab(i, tabs[t])

SessionInv == Shape /\ TabsNamed /\ CallsBound /\ ItemsBound /\ ActsAsItself

LEMMA SessionInvInit == SessionInit => SessionInv
BY DEF SessionInit, SessionInv, Shape, TabType, TabsNamed, CallsBound, ItemsBound, Closed, ActsAsItself

LEMMA SessionInvExplains == SessionInv => ForeignDataExplained
BY DEF SessionInv, ItemsBound, ForeignDataExplained, ItemOfTab, Named

\* The sessions there were keep their accounts.
SessionsKept ==
    /\ logins' \in Seq(Accounts) /\ Len(logins) <= Len(logins')
    /\ \A m \in DOMAIN logins : m \in DOMAIN logins' /\ logins'[m] = logins[m]

LEMMA NothingNew == Shape /\ UNCHANGED logins => SessionsKept
BY DEF Shape, SessionsKept

LEMMA LoginAppends ==
    ASSUME Shape, NEW a \in Accounts, logins' = Append(logins, a)
    PROVE  /\ SessionsKept
           /\ Len(logins') \in Nat \ {0} /\ Len(logins') \in DOMAIN logins'
           /\ logins'[Len(logins')] = a
BY DEF Shape, SessionsKept

\* A tab whose identity changes takes a generation of its own, or loses its
\* calls: no call in flight, and nothing shown elsewhere, is affected.
LEMMA NewIdentity ==
    ASSUME SessionInv, SessionsKept, NEW t \in Tabs, NEW tab \in TabType,
           tabs' = [tabs EXCEPT ![t] = tab], tab.shown = {},
           tab.me # NoOne => Named(tab.me, tab.token)',
           NEW old \in SUBSET calls,
           \/ tab.generation = tabs[t].generation + 1
           \/ \A c \in old : c.tab # t
    PROVE  /\ tabs' \in [Tabs -> TabType]
           /\ TabsNamed' /\ ItemsBound'
           /\ \A c \in old : CallOfTab(c)'
<1>1. tabs' \in [Tabs -> TabType]
  BY DEF SessionInv, Shape, TabType
<1>2. TabsNamed'
  BY DEF SessionInv, Shape, TabsNamed, Named, SessionsKept
<1>3. ItemsBound'
  BY DEF SessionInv, Shape, ItemsBound, ItemOfTab, Named, SessionsKept
<1>4. ASSUME NEW c \in old PROVE CallOfTab(c)'
  <2>1. c.tab \in Tabs /\ c.generation \in Nat /\ CallOfTab(c)
    BY DEF SessionInv, Shape, CallsBound, CallType
  <2>2. Named(c.user, c.token)' /\ c.session \in 0..Len(logins')
    BY <2>1 DEF CallOfTab, SessionInv, Shape, Named, SessionsKept, CallType
  <2>3. CASE c.tab = t
    BY <2>1, <2>2, <2>3 DEF CallOfTab, SessionInv, Shape, TabType
  <2>4. CASE c.tab # t
    BY <2>1, <2>2, <2>4 DEF CallOfTab, SessionInv, Shape, TabType
  <2> QED
    BY <2>3, <2>4
<1> QED
  BY <1>1, <1>2, <1>3, <1>4

\* A tab signs in, and its first call is made under the new identity.
LEMMA SignInStep ==
    ASSUME SessionInv, SessionsKept, NEW t \in Tabs, NEW a \in Accounts, NEW n \in Nat,
           SignIn(t, a, n), Named(a, n)', cookie' \in 0..Len(logins'), UNCHANGED performed
    PROVE  SessionInv'
<1>1. PICK tab \in TabType :
          /\ tab = As(tabs[t], a, n)
          /\ tab.me = a /\ tab.token = n /\ tab.generation = tabs[t].generation + 1
          /\ tab.shown = {}
  <2>1. As(tabs[t], a, n) \in TabType
    BY DEF As, SessionInv, Shape, TabType
  <2> QED
    BY <2>1 DEF As
<1>2. PICK first \in CallType :
          /\ first = Call(t, tab, "hydrate", TRUE, n)
          /\ first.tab = t /\ first.user = a /\ first.generation = tab.generation
          /\ first.token = n /\ first.session \in {0, n}
  <2>1. Carried(n) \in {0, n}
    BY DEF Carried
  <2>2. Call(t, tab, "hydrate", TRUE, n) \in CallType
    BY <1>1, <2>1 DEF Call, Kind, CallType, TabType
  <2> QED
    BY <1>1, <2>1, <2>2 DEF Call
<1>3. tabs' = [tabs EXCEPT ![t] = tab] /\ calls' = calls \cup {first}
  BY <1>1, <1>2 DEF SignIn
<1>4. /\ tabs' \in [Tabs -> TabType] /\ TabsNamed' /\ ItemsBound'
      /\ \A c \in calls : CallOfTab(c)'
  <2>1. (tab.me # NoOne => Named(tab.me, tab.token)') /\ calls \in SUBSET calls
    BY <1>1 DEF Named
  <2> QED
    BY <1>1, <1>3, <2>1, NewIdentity
<1>5. CallOfTab(first)'
  <2>1. tabs'[first.tab] = tab
    BY <1>2, <1>3 DEF SessionInv, Shape
  <2>2. tab.generation \in Nat
    BY <1>1 DEF TabType
  <2>3. n \in DOMAIN logins' /\ a = logins'[n] /\ Len(logins') \in Nat /\ n \in 1..Len(logins')
    BY DEF Named, SessionsKept
  <2>4. first.session \in 0..Len(logins')
    <3>1. \A k \in Nat : 0 \in 0..k /\ (n \in 1..k => n \in 0..k)
      OBVIOUS
    <3> QED
      BY <1>2, <2>3, <3>1
  <2>5. tab.generation <= tab.generation
    BY <2>2
  <2> QED
    <3>1. Named(first.user, first.token)'
      BY <1>2, <2>3 DEF Named
    <3>2. first.generation <= tabs'[first.tab].generation
      BY <1>2, <2>1, <2>5
    <3>3. tabs'[first.tab].me = first.user /\ tabs'[first.tab].token = first.token
      BY <1>1, <1>2, <2>1
    <3> QED
      BY <3>1, <3>2, <3>3, <2>4 DEF CallOfTab
<1>6. Shape'
  BY <1>2, <1>3, <1>4 DEF SessionInv, Shape, CallType, TabType, SessionsKept
<1>7. ActsAsItself'
  BY DEF SessionInv, ActsAsItself
<1>8. CallsBound'
  BY <1>3, <1>4, <1>5 DEF CallsBound
<1> QED
  BY <1>4, <1>6, <1>7, <1>8 DEF SessionInv

\* A tab forgets its account.
LEMMA ForgetStep ==
    ASSUME SessionInv, NEW t \in Tabs, NEW tab \in TabType,
           tabs' = [tabs EXCEPT ![t] = tab], tab.me = NoOne, tab.shown = {},
           calls' \subseteq calls,
           \/ tab.generation = tabs[t].generation + 1
           \/ \A c \in calls' : c.tab # t,
           cookie' \in 0..Len(logins), UNCHANGED <<logins, performed>>
    PROVE  SessionInv'
<1>1. SessionsKept
  BY NothingNew DEF SessionInv
<1>2. /\ tabs' \in [Tabs -> TabType] /\ TabsNamed' /\ ItemsBound'
      /\ \A c \in calls' : CallOfTab(c)'
  BY <1>1, NewIdentity
<1>3. Shape'
  BY <1>2 DEF SessionInv, Shape, TabType
<1>4. ActsAsItself'
  BY DEF SessionInv, ActsAsItself
<1> QED
  BY <1>2, <1>3, <1>4 DEF SessionInv, CallsBound

\* An answer shows what is new only as its call allows.
LEMMA ShownOf ==
    ASSUME SessionInv, NEW c \in calls, Allowed(c), NEW i \in Shown(tabs[c.tab], c)
    PROVE  /\ i \in ItemType
           /\ ItemOfTab(i, tabs[c.tab])
<1> DEFINE tab == tabs[c.tab]
<1>1. /\ c \in CallType /\ CallOfTab(c) /\ c.tab \in Tabs
      /\ tab.generation \in Nat
  BY DEF SessionInv, Shape, CallsBound, CallType, TabType
<1>2. c.session \in DOMAIN logins /\ logins[c.session] \in Accounts
  BY <1>1 DEF Allowed, CallOfTab, SessionInv, Shape, CallType
<1>3. CASE i \in tab.shown
  BY <1>1, <1>3 DEF SessionInv, Shape, ItemsBound, TabType
<1>4. CASE i \notin tab.shown
  <2>1. i = Item(c) /\ (c.kind \in {"search", "submit"} \/ SameIdentity(tab, c))
    BY <1>1, <1>4 DEF Shown, CallType
  <2>2. /\ i.kind = c.kind /\ i.owner = logins[c.session] /\ i.sent = c.generation
        /\ i.session = c.session /\ i.token = c.token
        /\ i \in ItemType
    BY <1>1, <1>2, <2>1 DEF Item, CallType, ItemType
  <2>3. Named(i.owner, i.session)
    BY <1>2, <2>2 DEF Named
  <2>4. c.generation = tab.generation => Named(tab.me, c.token)
    BY <1>1 DEF CallOfTab
  <2>5. c.generation <= tab.generation
    BY <1>1 DEF CallOfTab
  <2> QED
    BY <2>1, <2>2, <2>3, <2>4, <2>5 DEF ItemOfTab, SameIdentity
<1> QED
  BY <1>3, <1>4

\* A call that goes out, or is over, under identities that stay.
LEMMA SameTabs ==
    ASSUME SessionInv, UNCHANGED <<logins, tabs, performed>>, cookie' \in 0..Len(logins),
           \A c \in calls' : c \in calls \/ (c \in CallType /\ CallOfTab(c))
    PROVE  SessionInv'
<1>1. Shape'
  BY DEF SessionInv, Shape
<1>2. CallsBound'
  BY DEF SessionInv, CallsBound, CallOfTab, Named
<1>3. TabsNamed' /\ ItemsBound' /\ ActsAsItself'
  BY DEF SessionInv, TabsNamed, ItemsBound, ItemOfTab, Named, ActsAsItself
<1> QED
  BY <1>1, <1>2, <1>3 DEF SessionInv

\* A tab that goes on under its identity, with what an answer brought.
LEMMA SameIdentityStep ==
    ASSUME SessionInv, NEW t \in Tabs, NEW tab \in TabType, tabs' = [tabs EXCEPT ![t] = tab],
           tab.me = tabs[t].me, tab.token = tabs[t].token,
           tab.generation = tabs[t].generation,
           \A i \in tab.shown : ItemOfTab(i, tabs[t]),
           calls' \subseteq calls, UNCHANGED <<logins, cookie>>, ActsAsItself'
    PROVE  SessionInv'
<1>1. Shape'
  BY DEF SessionInv, Shape
<1>2. TabsNamed'
  BY DEF SessionInv, Shape, TabsNamed, Named
<1>3. CallsBound'
  BY DEF SessionInv, Shape, CallsBound, CallOfTab, Named, CallType
<1>4. ItemsBound'
  BY DEF SessionInv, Shape, ItemsBound, ItemOfTab, Named
<1> QED
  BY <1>1, <1>2, <1>3, <1>4 DEF SessionInv

\* The continuation of a login touches the status alone.
LEMMA SettledTab ==
    ASSUME NEW c \in CallType, NEW tab \in TabType
    PROVE  /\ Settled(tab, c) \in TabType
           /\ Settled(tab, c).me = tab.me /\ Settled(tab, c).token = tab.token
           /\ Settled(tab, c).generation = tab.generation
           /\ Settled(tab, c).shown = tab.shown
BY DEF Settled, TabType

LEMMA RefilledTab ==
    ASSUME NEW tab \in TabType, NEW S \in SUBSET ItemType
    PROVE  /\ [tab EXCEPT !.shown = S] \in TabType
           /\ [tab EXCEPT !.shown = S].me = tab.me /\ [tab EXCEPT !.shown = S].token = tab.token
           /\ [tab EXCEPT !.shown = S].generation = tab.generation
           /\ [tab EXCEPT !.shown = S].shown = S
BY DEF TabType

LEMMA ClearedTab ==
    ASSUME NEW tab \in TabType
    PROVE  /\ Cleared(tab) \in TabType
           /\ Cleared(tab).me = NoOne /\ Cleared(tab).shown = {}
           /\ Cleared(tab).generation = tab.generation + 1
           /\ [Cleared(tab) EXCEPT !.token = 0] \in TabType
           /\ [Cleared(tab) EXCEPT !.token = 0].me = NoOne
           /\ [Cleared(tab) EXCEPT !.token = 0].shown = {}
           /\ [Cleared(tab) EXCEPT !.token = 0].generation = tab.generation + 1
BY DEF Cleared, TabType

LEMMA SessionInvNext == SessionInv /\ [SessionNext]_sessionVars => SessionInv'
<1> SUFFICES ASSUME SessionInv, [SessionNext]_sessionVars PROVE SessionInv'
  OBVIOUS
<1>0. /\ tabs \in [Tabs -> TabType] /\ calls \subseteq CallType /\ cookie \in 0..Len(logins)
      /\ logins \in Seq(Accounts) /\ 0 \in 0..Len(logins)
      /\ \A c \in calls : CallOfTab(c) /\ c.tab \in Tabs
  BY DEF SessionInv, Shape, CallsBound, CallType
<1>1. ASSUME NEW t \in Tabs, Reload(t) PROVE SessionInv'
  <2>1. Closed \in TabType /\ Closed.me = NoOne /\ Closed.shown = {}
    BY DEF Closed, TabType
  <2>2. \A c \in calls' : c.tab # t
    BY <1>1 DEF Reload
  <2> QED
    BY <1>0, <1>1, <2>1, <2>2, ForgetStep DEF Reload
<1>2. ASSUME NEW t \in Tabs, Restore(t) PROVE SessionInv'
  <2>1. CASE Carried(cookie) # 0
    <3>1. cookie \in DOMAIN logins /\ cookie \in Nat /\ logins[cookie] \in Accounts
      BY <1>0, <2>1 DEF Carried
    <3>2. SignIn(t, logins[cookie], cookie) /\ UNCHANGED <<logins, cookie, performed>>
      BY <1>2, <2>1 DEF Restore
    <3>3. Named(logins[cookie], cookie)' /\ SessionsKept
      BY <3>1, <3>2, NothingNew DEF Named, SessionInv
    <3>4. PICK a \in Accounts : a = logins[cookie]
      BY <3>1
    <3>5. PICK n \in Nat : n = cookie
      BY <3>1
    <3>6. SignIn(t, a, n) /\ Named(a, n)' /\ cookie' \in 0..Len(logins') /\ UNCHANGED performed
      BY <1>0, <3>1, <3>2, <3>3, <3>4, <3>5 DEF Named
    <3> QED
      BY <3>3, <3>6, SignInStep
  <2>2. CASE Carried(cookie) = 0
    <3>1. tabs' = [tabs EXCEPT ![t] = Cleared(tabs[t])]
      BY <1>2, <2>2 DEF Restore
    <3>2. PICK tab \in TabType : tab = Cleared(tabs[t])
      BY <1>0, ClearedTab
    <3>3. UNCHANGED <<logins, cookie, calls, performed>>
      BY <1>2, <2>2 DEF Restore
    <3> QED
      BY <1>0, <3>1, <3>2, <3>3, ClearedTab, ForgetStep
  <2> QED
    BY <2>1, <2>2
<1>3. ASSUME NEW t \in Tabs, NEW a \in Accounts, Login(t, a) PROVE SessionInv'
  <2>1. /\ logins' = Append(logins, a) /\ cookie' = Len(logins') /\ UNCHANGED performed
        /\ SignIn(t, a, cookie')
    BY <1>3 DEF Login
  <2>2. /\ SessionsKept /\ Len(logins') \in Nat /\ Len(logins') \in DOMAIN logins'
        /\ logins'[Len(logins')] = a
    BY <2>1, LoginAppends DEF SessionInv
  <2>3. PICK n \in Nat : n = Len(logins')
    BY <2>2
  <2>4. SignIn(t, a, n) /\ Named(a, n)' /\ cookie' \in 0..Len(logins')
    BY <2>1, <2>2, <2>3 DEF Named
  <2> QED
    BY <2>1, <2>2, <2>4, SignInStep
<1>4. ASSUME NEW t \in Tabs, Logout(t) PROVE SessionInv'
  <2>1. PICK tab \in TabType :
           /\ tabs' = [tabs EXCEPT ![t] = tab]
           /\ tab.me = NoOne /\ tab.shown = {} /\ tab.generation = tabs[t].generation + 1
    BY <1>0, <1>4, ClearedTab DEF Logout
  <2>2. cookie' \in 0..Len(logins) /\ UNCHANGED <<logins, calls, performed>>
    BY <1>0, <1>4 DEF Logout
  <2> QED
    BY <2>1, <2>2, ForgetStep
<1>5. ASSUME NEW n \in DOMAIN logins, EndSession(n) PROVE SessionInv'
  BY <1>0, <1>5, SameTabs DEF EndSession
<1>6. ASSUME NEW t \in Tabs, NEW kind \in Kind, Ask(t, kind) PROVE SessionInv'
  <2>1. PICK c : c = Call(t, tabs[t], kind, FALSE, cookie) /\ calls' = calls \cup {c}
    BY <1>6 DEF Ask
  <2>2. tabs[t].me # NoOne /\ tabs[t] \in TabType /\ Named(tabs[t].me, tabs[t].token)
    BY <1>0, <1>6 DEF Ask, Offered, SessionInv, TabsNamed
  <2>3. Carried(cookie) \in 0..Len(logins) /\ Carried(cookie) \in Nat
    BY <1>0 DEF Carried
  <2>4. c \in CallType
    BY <2>1, <2>2, <2>3 DEF Call, CallType, TabType
  <2>5. CallOfTab(c)
    BY <2>1, <2>2, <2>3 DEF Call, CallOfTab, TabType
  <2> QED
    BY <1>0, <1>6, <2>1, <2>4, <2>5, SameTabs DEF Ask
<1>7. ASSUME NEW c \in calls, Answer(c) PROVE SessionInv'
  <2> DEFINE old == tabs[c.tab]
  <2>1. old \in TabType /\ c \in CallType /\ c.tab \in Tabs /\ CallOfTab(c)
    BY <1>0
  <2>2. Allowed(c) /\ \A i \in Shown(old, c) : i \in ItemType /\ ItemOfTab(i, old)
    BY <1>7, ShownOf DEF Answer
  <2>3. PICK mid \in TabType :
           /\ mid = Filled(old, c)
           /\ mid.me = old.me /\ mid.token = old.token /\ mid.generation = old.generation
           /\ mid.shown = Shown(old, c)
    <3>1. Shown(old, c) \in SUBSET ItemType
      BY <2>2
    <3> QED
      BY <2>1, <3>1, RefilledTab DEF Filled
  <2>4. PICK tab \in TabType :
           /\ tabs' = [tabs EXCEPT ![c.tab] = tab]
           /\ tab.me = old.me /\ tab.token = old.token /\ tab.generation = old.generation
           /\ tab.shown = Shown(old, c)
    <3>1. tabs' = [tabs EXCEPT ![c.tab] = Settled(mid, c)]
      BY <1>7, <2>3 DEF Answer
    <3>2. PICK tab \in TabType :
             /\ tab = Settled(mid, c)
             /\ tab.me = mid.me /\ tab.token = mid.token /\ tab.generation = mid.generation
             /\ tab.shown = mid.shown
      BY <2>1, SettledTab
    <3>3. tabs' = [tabs EXCEPT ![c.tab] = tab]
      BY <3>1, <3>2
    <3>4. /\ tab.me = old.me /\ tab.token = old.token /\ tab.generation = old.generation
          /\ tab.shown = Shown(old, c)
      BY <2>3, <3>2
    <3> QED
      BY <3>3, <3>4
  <2>5. ActsAsItself'
    <3>1. CASE c.kind = "submit"
      <4>1. c.session = c.token
        BY <2>2, <3>1 DEF Allowed, RequireCsrf
      <4>2. logins[c.session] = c.user
        BY <2>1, <4>1 DEF CallOfTab, Named
      <4> QED
        BY <1>7, <3>1, <4>2 DEF Answer, SessionInv, ActsAsItself
    <3>2. CASE c.kind # "submit"
      BY <1>7, <3>2 DEF Answer, SessionInv, ActsAsItself
    <3> QED
      BY <3>1, <3>2
  <2>6. calls' \subseteq calls /\ UNCHANGED <<logins, cookie>>
    BY <1>7 DEF Answer
  <2> QED
    BY <2>1, <2>2, <2>4, <2>5, <2>6, SameIdentityStep
<1>8. ASSUME NEW c \in calls, Unauthorized(c) \/ Fails(c) PROVE SessionInv'
  <2> DEFINE old == tabs[c.tab]
  <2>1. old \in TabType /\ c \in CallType /\ c.tab \in Tabs
    BY <1>0
  <2>2. calls' \subseteq calls /\ UNCHANGED <<logins, cookie, performed>>
    BY <1>8 DEF Unauthorized, Fails
  <2>3. CASE tabs' = [tabs EXCEPT ![c.tab] = Settled(old, c)]
    <3>1. PICK tab \in TabType : tab = Settled(old, c)
      BY <2>1, SettledTab
    <3>2. \A i \in tab.shown : ItemOfTab(i, old)
      BY <2>1, <3>1, SettledTab DEF SessionInv, ItemsBound
    <3>3. ActsAsItself'
      BY <2>2 DEF SessionInv, ActsAsItself
    <3>4. tab.me = old.me /\ tab.token = old.token /\ tab.generation = old.generation
      BY <2>1, <3>1, SettledTab
    <3> QED
      BY <2>1, <2>2, <2>3, <3>1, <3>2, <3>3, <3>4, SameIdentityStep
  <2>4. CASE tabs' = [tabs EXCEPT ![c.tab] = Settled(Cleared(old), c)]
    <3>1. PICK mid \in TabType :
             /\ mid = Cleared(old)
             /\ mid.me = NoOne /\ mid.shown = {} /\ mid.generation = old.generation + 1
      BY <2>1, ClearedTab
    <3>2. PICK tab \in TabType :
             /\ tab = Settled(mid, c)
             /\ tab.me = NoOne /\ tab.shown = {} /\ tab.generation = old.generation + 1
      BY <2>1, <3>1, SettledTab
    <3> QED
      BY <1>0, <2>1, <2>2, <2>4, <3>1, <3>2, ForgetStep
  <2> QED
    BY <1>8, <2>3, <2>4 DEF Unauthorized, Fails
<1>9. CASE UNCHANGED sessionVars
  BY <1>0, <1>9, SameTabs DEF sessionVars
<1> QED
  BY <1>1, <1>2, <1>3, <1>4, <1>5, <1>6, <1>7, <1>8, <1>9 DEF SessionNext, Kind

\* Data of another account is shown to nobody but for the two cases that
\* ForeignDataExplained names, whatever the accounts, tabs, sessions and calls,
\* and in whatever order the answers arrive.
THEOREM ForeignDataIsExplained == SessionSpec => []ForeignDataExplained
BY SessionInvInit, SessionInvNext, SessionInvExplains, PTL DEF SessionSpec

\* The server never makes a change for an account other than the one the tab
\* was showing when it asked for it.
THEOREM TabsActAsThemselves == SessionSpec => []ActsAsItself
<1>1. SessionInv => ActsAsItself
  BY DEF SessionInv
<1> QED
  BY <1>1, SessionInvInit, SessionInvNext, PTL DEF SessionSpec

-----------------------------------------------------------------------------
(* The team: rows, links and handlers in flight.                            *)

AccountType == [role : Roles \cup {"NONE"}, ofHost : BOOLEAN, status : Statuses \cup {"NONE"}]
MemberType  == [role : TeamRoles \cup {"NONE"}, status : Statuses \cup {"NONE"}]
InviteType  == [email : People, role : TeamRoles, state : {"OPEN", "REVOKED", "ACCEPTED"},
                fresh : BOOLEAN]

Inviting   == [op : {"invite"}, person : People, role : TeamRoles,
               step : {"count", "replace", "insert"}]
Accepting  == [op : {"accept"}, link : Nat, step : {"email", "join"}]
Changing   == [op : {"change"}, person : People, role : TeamRoles, status : Statuses,
               was : [account : Statuses \cup {"NONE"}, member : Statuses \cup {"NONE"}],
               step : {"write"}]
Removing   == [op : {"remove"}, person : People, step : {"write"}]
Moderating == [op : {"role"}, person : People, value : Roles, step : {"write"}]
                 \cup [op : {"status"}, person : People, value : Statuses, step : {"write"}]
LoggingIn  == [op : {"login"}, person : People, step : {"session"}]
Requesting == [op : {"request"}, person : People, role : Roles \cup {"NONE"}, ofHost : BOOLEAN,
               held : SUBSET (TeamRoles \cup {"NONE"}),
               step : {"verify", "lookup", "repair", "served"}]

Handler == {Idle} \cup Inviting \cup Accepting \cup Changing \cup Removing \cup Moderating
             \cup LoggingIn \cup Requesting

TeamShape ==
    /\ account \in [People -> AccountType]
    /\ member  \in [People -> MemberType]
    /\ invites \in Seq(InviteType)
    /\ call    \in [Slots -> Handler]
    /\ \A n \in Slots : call[n].op = "accept" => call[n].link \in DOMAIN invites

\* What a handler is, by its name.
LEMMA HandlerKinds ==
    ASSUME TeamShape, NEW n \in Slots
    PROVE  /\ call[n].op = "invite"  => call[n] \in Inviting
           /\ call[n].op = "accept"  => call[n] \in Accepting /\ call[n].link \in DOMAIN invites
           /\ call[n].op = "change"  => call[n] \in Changing
           /\ call[n].op = "remove"  => call[n] \in Removing
           /\ call[n].op \in {"role", "status"} => call[n] \in Moderating
           /\ call[n].op = "login"   => call[n] \in LoggingIn
           /\ call[n].op = "request" => call[n] \in Requesting
BY DEF TeamShape, Handler, Idle, Inviting, Accepting, Changing, Removing, Moderating,
       LoggingIn, Requesting

LEMMA HeldType ==
    ASSUME NEW m \in MemberType
    PROVE  Held(m) \in SUBSET (TeamRoles \cup {"NONE"})
BY DEF Held, MemberType

\* A handler that begins, goes on or ends leaves the others alone.
LEMMA HandlerStep ==
    ASSUME TeamShape, NEW n \in Slots, NEW c \in Handler, call' = [call EXCEPT ![n] = c],
           c.op = "accept" => c.link \in DOMAIN invites
    PROVE  /\ call' \in [Slots -> Handler]
           /\ \A k \in Slots : call'[k].op = "accept" => call'[k].link \in DOMAIN invites
BY DEF TeamShape

LEMMA ReachedHandler ==
    ASSUME TeamShape, NEW n \in Slots, NEW s
    PROVE  /\ call[n] \in Inviting /\ s \in {"count", "replace", "insert"} =>
                 [call[n] EXCEPT !.step = s] \in Inviting
           /\ call[n] \in Accepting /\ s \in {"email", "join"} =>
                 /\ [call[n] EXCEPT !.step = s] \in Accepting
                 /\ [call[n] EXCEPT !.step = s].link = call[n].link
           /\ call[n] \in Requesting /\ s \in {"verify", "lookup", "repair", "served"} =>
                 [call[n] EXCEPT !.step = s] \in Requesting
BY DEF Inviting, Accepting, Requesting

LEMMA EnrolStep ==
    ASSUME TeamShape, NEW n \in Slots, NEW p \in People, NEW m \in MemberType, Enrol(n, p, m)
    PROVE  /\ member' \in [People -> MemberType]
           /\ call' \in [Slots -> Handler]
           /\ \A k \in Slots : call'[k].op = "accept" => call'[k].link \in DOMAIN invites
<1>1. member' \in [People -> MemberType]
  BY DEF Enrol, TeamShape
<1>2. ASSUME NEW k \in Slots
      PROVE  call'[k] \in Handler /\ (call'[k].op = "accept" => call'[k].link \in DOMAIN invites)
  <2>1. CASE k = n
    BY <2>1 DEF Enrol, Handler, Idle
  <2>2. CASE k # n /\ call[k].op = "request" /\ call[k].person = p
    <3>1. call'[k] = [call[k] EXCEPT !.held = @ \cup Held(m)]
      BY <2>2 DEF Enrol
    <3>2. call[k] \in Requesting
      BY <2>2, HandlerKinds
    <3>3. call'[k] \in Requesting
      BY <3>1, <3>2, HeldType DEF Requesting
    <3> QED
      BY <3>3 DEF Handler, Requesting
  <2>3. CASE k # n /\ ~(call[k].op = "request" /\ call[k].person = p)
    BY <2>3 DEF Enrol, TeamShape
  <2> QED
    BY <2>1, <2>2, <2>3
<1> QED
  BY <1>1, <1>2 DEF Enrol

\* A member has used up one link of its address; so has whoever was a member;
\* a link is used up by an account that exists.
MembersJoined ==
    \A p \in People :
        /\ \A i, j \in Used(p) : i = j
        /\ member[p] # NoMember => Used(p) # {}
        /\ Used(p) # {} => account[p].status # "NONE"

\* A request knows every role its user has held in the team since it began.
RolesHeld ==
    \A n \in Slots :
        call[n].op = "request" =>
            /\ Held(member[call[n].person]) \subseteq call[n].held
            /\ call[n].step = "repair" => call[n].role \in call[n].held

TeamInv == TeamShape /\ MembersJoined /\ RolesHeld /\ ServedAsMember

LEMMA TeamInvInit == TeamInit => TeamInv
<1> SUFFICES ASSUME TeamInit PROVE TeamInv
  OBVIOUS
<1>1. TeamShape
  BY DEF TeamInit, TeamShape, AccountType, MemberType, NoAccount, NoMember, Handler, Idle
<1>2. MembersJoined
  BY DEF TeamInit, MembersJoined, Used
<1>3. RolesHeld /\ ServedAsMember
  BY DEF TeamInit, RolesHeld, ServedAsMember, At, Idle
<1> QED
  BY <1>1, <1>2, <1>3 DEF TeamInv

\* What a step leaves of the links as they were.
LEMMA UsedKept ==
    ASSUME NEW p \in People, DOMAIN invites \subseteq DOMAIN invites',
           \A i \in DOMAIN invites' :
              /\ i \in DOMAIN invites => invites'[i].email = invites[i].email
              /\ i \in DOMAIN invites =>
                    (invites'[i].state = "ACCEPTED" <=> invites[i].state = "ACCEPTED")
              /\ i \notin DOMAIN invites => invites'[i].state # "ACCEPTED"
    PROVE  Used(p)' = Used(p)
BY DEF Used

LEMMA JoinedKept ==
    ASSUME MembersJoined, \A p \in People : Used(p)' = Used(p),
           \A p \in People : member'[p] = NoMember \/ member[p] # NoMember,
           \A p \in People : account[p].status # "NONE" => account'[p].status # "NONE"
    PROVE  MembersJoined'
BY DEF MembersJoined

\* A step that changes no membership and one handler that is no request.
LEMMA HeldKept ==
    ASSUME RolesHeld, ServedAsMember, TeamShape, UNCHANGED member,
           \A k \in Slots : call'[k] = call[k] \/ call'[k].op # "request"
    PROVE  RolesHeld' /\ ServedAsMember'
BY DEF RolesHeld, ServedAsMember, At

\* A change of the team is noted by every request of the member it is about.
LEMMA HeldAfterEnrol ==
    ASSUME RolesHeld, ServedAsMember, TeamShape, NEW n \in Slots, NEW p \in People,
           NEW m \in MemberType, Enrol(n, p, m)
    PROVE  RolesHeld' /\ ServedAsMember'
<1>1. /\ member' = [member EXCEPT ![p] = m] /\ member'[p] = m
      /\ \A q \in People \ {p} : member'[q] = member[q]
  BY DEF Enrol, TeamShape
<1> SUFFICES ASSUME NEW k \in Slots, call'[k].op = "request"
             PROVE  /\ Held(member'[call'[k].person]) \subseteq call'[k].held
                    /\ call'[k].step = "repair" => call'[k].role \in call'[k].held
                    /\ call'[k].step = "served" /\ call'[k].ofHost /\ call'[k].role \in TeamRoles
                         => call'[k].role \in call'[k].held
  BY DEF RolesHeld, ServedAsMember, At, Held
<1>2. k # n /\ call[k].op = "request" /\ call[k] \in Requesting
  <2>1. k # n
    BY DEF Enrol, Idle
  <2>2. CASE call[k].op = "request" /\ call[k].person = p
    BY <2>1, <2>2, HandlerKinds
  <2>3. CASE ~(call[k].op = "request" /\ call[k].person = p)
    BY <2>1, <2>3, HandlerKinds DEF Enrol
  <2> QED
    BY <2>1, <2>2, <2>3
<1>3. CASE call[k].person = p
  <2>1. call'[k] = [call[k] EXCEPT !.held = @ \cup Held(m)]
    BY <1>2, <1>3 DEF Enrol
  <2>2. /\ call'[k].person = p /\ call'[k].role = call[k].role /\ call'[k].step = call[k].step
        /\ call'[k].ofHost = call[k].ofHost /\ call'[k].held = call[k].held \cup Held(m)
    BY <1>2, <1>3, <2>1 DEF Requesting
  <2> QED
    BY <1>1, <1>2, <2>2 DEF RolesHeld, ServedAsMember, At
<1>4. CASE call[k].person # p
  <2>1. call'[k] = call[k] /\ call[k].person \in People
    BY <1>2, <1>4 DEF Enrol, Requesting
  <2> QED
    BY <1>1, <1>2, <1>4, <2>1 DEF RolesHeld, ServedAsMember, At
<1> QED
  BY <1>3, <1>4

\* A request that is in order.
InOrder(c) ==
    c.op = "request" =>
        /\ Held(member[c.person]) \subseteq c.held
        /\ c.step = "repair" => c.role \in c.held
        /\ c.step = "served" /\ c.ofHost /\ c.role \in TeamRoles => c.role \in c.held

LEMMA AllInOrder ==
    TeamShape => (RolesHeld /\ ServedAsMember <=> \A n \in Slots : InOrder(call[n]))
BY DEF RolesHeld, ServedAsMember, InOrder, At

\* A handler that begins, goes on or ends without a write.
LEMMA CallOnly ==
    ASSUME TeamInv, NEW n \in Slots, NEW c \in Handler, call' = [call EXCEPT ![n] = c],
           c.op = "accept" => c.link \in DOMAIN invites, InOrder(c),
           UNCHANGED <<account, member, invites>>
    PROVE  TeamInv'
<1>1. TeamShape'
  BY HandlerStep DEF TeamInv, TeamShape
<1>2. MembersJoined'
  BY DEF TeamInv, MembersJoined, Used
<1>3. \A k \in Slots : InOrder(call[k])
  BY AllInOrder DEF TeamInv
<1>4. RolesHeld' /\ ServedAsMember'
  BY <1>3 DEF RolesHeld, ServedAsMember, At, InOrder, TeamInv, TeamShape
<1> QED
  BY <1>1, <1>2, <1>4 DEF TeamInv

LEMMA EndedHandler == /\ Idle \in Handler /\ Idle.op = "none"
                      /\ InOrder(Idle)
BY DEF Handler, Idle, InOrder

\* A handler that writes links only, and is over or goes on.
LEMMA LinksOnly ==
    ASSUME TeamInv, invites' \in Seq(InviteType), DOMAIN invites \subseteq DOMAIN invites',
           \A i \in DOMAIN invites' :
              /\ i \in DOMAIN invites => invites'[i].email = invites[i].email
              /\ i \in DOMAIN invites =>
                    (invites'[i].state = "ACCEPTED" <=> invites[i].state = "ACCEPTED")
              /\ i \notin DOMAIN invites => invites'[i].state # "ACCEPTED",
           call' \in [Slots -> Handler],
           \A k \in Slots : call'[k] = call[k] \/ call'[k].op \notin {"request", "accept"},
           UNCHANGED <<account, member>>
    PROVE  TeamInv'
<1>1. TeamShape'
  BY DEF TeamInv, TeamShape
<1>2. \A p \in People : Used(p)' = Used(p)
  BY UsedKept
<1>3. MembersJoined'
  BY <1>2, JoinedKept DEF TeamInv
<1>4. RolesHeld' /\ ServedAsMember'
  BY HeldKept DEF TeamInv
<1> QED
  BY <1>1, <1>3, <1>4 DEF TeamInv

LEMMA InviteSteps ==
    ASSUME TeamInv, NEW n \in Slots,
           CountTeam(n) \/ ReplaceInvites(n) \/ InsertInvite(n)
    PROVE  TeamInv'
<1>0. TeamShape /\ invites \in Seq(InviteType) /\ call \in [Slots -> Handler]
  BY DEF TeamInv, TeamShape
<1>1. CASE CountTeam(n)
  <2>1. call[n] \in Inviting
    BY <1>0, <1>1, HandlerKinds DEF CountTeam, At
  <2>2. PICK c \in Handler : call' = [call EXCEPT ![n] = c] /\ c.op \notin {"accept", "request"}
    <3>1. [call[n] EXCEPT !.step = "replace"] \in Inviting
      BY <1>0, <2>1, ReachedHandler
    <3>2. call' = [call EXCEPT ![n] = Idle] \/ call' = [call EXCEPT ![n] = [call[n] EXCEPT !.step = "replace"]]
      BY <1>1 DEF CountTeam, Reach, End
    <3>3. \A c \in Inviting : c \in Handler /\ c.op \notin {"accept", "request"}
      BY DEF Handler, Inviting
    <3> QED
      BY <3>1, <3>2, <3>3, EndedHandler
  <2> QED
    BY <1>1, <2>2, CallOnly DEF CountTeam, InOrder
<1>2. CASE ReplaceInvites(n)
  <2>1. call[n] \in Inviting
    BY <1>0, <1>2, HandlerKinds DEF ReplaceInvites, At
  <2>2. /\ call' \in [Slots -> Handler]
        /\ \A k \in Slots : call'[k] = call[k] \/ call'[k].op \notin {"request", "accept"}
    <3>1. PICK c \in Inviting : call' = [call EXCEPT ![n] = c]
      BY <1>0, <1>2, <2>1, ReachedHandler DEF ReplaceInvites, Reach
    <3> QED
      BY <1>0, <3>1 DEF Handler, Inviting
  <2>3. /\ invites' = [i \in DOMAIN invites |->
                         IF i \in OfEmail(call[n].person)
                         THEN [invites[i] EXCEPT !.state = "REVOKED"] ELSE invites[i]]
        /\ UNCHANGED <<account, member>>
    BY <1>2 DEF ReplaceInvites
  <2>4. invites' \in Seq(InviteType) /\ DOMAIN invites' = DOMAIN invites
    <3>1. \A i \in DOMAIN invites : invites'[i] \in InviteType
      <4>1. \A link \in InviteType : [link EXCEPT !.state = "REVOKED"] \in InviteType
        BY DEF InviteType
      <4>2. \A i \in DOMAIN invites : invites[i] \in InviteType
        BY <1>0
      <4> QED
        BY <2>3, <4>1, <4>2
    <3>2. DOMAIN invites' = 1..Len(invites) /\ Len(invites) \in Nat
      BY <1>0, <2>3
    <3>3. invites' \in [1..Len(invites) -> InviteType]
      BY <1>0, <2>3, <3>1, <3>2
    <3> QED
      BY <1>0, <3>2, <3>3
  <2>5. \A i \in DOMAIN invites :
           /\ invites'[i].email = invites[i].email
           /\ invites'[i].state = "ACCEPTED" <=> invites[i].state = "ACCEPTED"
    BY <1>0, <2>3 DEF InviteType, OfEmail, Open
  <2> QED
    BY <2>2, <2>3, <2>4, <2>5, LinksOnly
<1>3. CASE InsertInvite(n)
  <2>1. call[n] \in Inviting
    BY <1>0, <1>3, HandlerKinds DEF InsertInvite, At
  <2>2. /\ call' \in [Slots -> Handler]
        /\ \A k \in Slots : call'[k] = call[k] \/ call'[k].op \notin {"request", "accept"}
    BY <1>0, <1>3, EndedHandler DEF InsertInvite, End
  <2>3. PICK link \in InviteType : invites' = Append(invites, link) /\ link.state = "OPEN"
    <3>1. [email |-> call[n].person, role |-> call[n].role, state |-> "OPEN", fresh |-> TRUE]
             \in InviteType
      BY <2>1 DEF Inviting, InviteType
    <3> QED
      BY <1>3, <3>1 DEF InsertInvite
  <2>4. /\ invites' \in Seq(InviteType) /\ DOMAIN invites \subseteq DOMAIN invites'
        /\ \A i \in DOMAIN invites' :
              IF i \in DOMAIN invites THEN invites'[i] = invites[i] ELSE invites'[i] = link
    BY <1>0, <2>3
  <2> QED
    BY <1>3, <2>2, <2>3, <2>4, LinksOnly DEF InsertInvite
<1> QED
  BY <1>1, <1>2, <1>3

LEMMA LinkSteps ==
    ASSUME TeamInv, NEW i \in DOMAIN invites, RevokeInvite(i) \/ ExpireInvite(i)
    PROVE  TeamInv'
<1>0. invites \in Seq(InviteType) /\ call \in [Slots -> Handler] /\ invites[i] \in InviteType
  BY DEF TeamInv, TeamShape
<1>1. PICK link \in InviteType :
         /\ invites' = [invites EXCEPT ![i] = link]
         /\ link.email = invites[i].email
         /\ link.state = "ACCEPTED" <=> invites[i].state = "ACCEPTED"
  <2>1. /\ [invites[i] EXCEPT !.state = "REVOKED"] \in InviteType
        /\ [invites[i] EXCEPT !.state = "REVOKED"].email = invites[i].email
        /\ [invites[i] EXCEPT !.state = "REVOKED"].state = "REVOKED"
    BY <1>0 DEF InviteType
  <2>2. /\ [invites[i] EXCEPT !.fresh = FALSE] \in InviteType
        /\ [invites[i] EXCEPT !.fresh = FALSE].email = invites[i].email
        /\ [invites[i] EXCEPT !.fresh = FALSE].state = invites[i].state
    BY <1>0 DEF InviteType
  <2>3. CASE RevokeInvite(i)
    BY <2>1, <2>3 DEF RevokeInvite
  <2>4. CASE ExpireInvite(i)
    BY <2>2, <2>4 DEF ExpireInvite
  <2> QED
    BY <2>3, <2>4
<1>2. /\ invites' \in Seq(InviteType) /\ DOMAIN invites' = DOMAIN invites
      /\ \A j \in DOMAIN invites : invites'[j] = IF j = i THEN link ELSE invites[j]
  BY <1>0, <1>1
<1> QED
  BY <1>0, <1>1, <1>2, LinksOnly DEF RevokeInvite, ExpireInvite

\* What a handler is when it begins.
LEMMA BeginSteps ==
    ASSUME TeamInv, NEW n \in Slots, NEW p \in People,
           \/ \E role \in TeamRoles : BeginInvite(n, p, role)
           \/ \E role \in TeamRoles, status \in Statuses : BeginChange(n, p, role, status)
           \/ BeginRemove(n, p)
           \/ \E i \in DOMAIN invites : BeginAccept(n, i)
           \/ \E role \in Roles : BeginModerate(n, p, "role", role)
           \/ \E status \in Statuses : BeginModerate(n, p, "status", status)
           \/ BeginLogin(n, p)
    PROVE  TeamInv'
<1>0. TeamShape /\ account[p] \in AccountType /\ member[p] \in MemberType /\ invites \in Seq(InviteType)
  BY DEF TeamInv, TeamShape
<1>1. \E c \in Inviting \cup Changing \cup Removing \cup Accepting \cup Moderating \cup LoggingIn :
         call' = [call EXCEPT ![n] = c] /\ (c.op = "accept" => c.link \in DOMAIN invites)
  <2>1. ASSUME NEW role \in TeamRoles, BeginInvite(n, p, role)
        PROVE  \E c \in Inviting : call' = [call EXCEPT ![n] = c]
    BY <2>1 DEF BeginInvite, Begin, Inviting
  <2>2. ASSUME NEW role \in TeamRoles, NEW status \in Statuses, BeginChange(n, p, role, status)
        PROVE  \E c \in Changing : call' = [call EXCEPT ![n] = c]
    BY <1>0, <2>2 DEF BeginChange, Begin, Changing, AccountType, MemberType
  <2>3. ASSUME BeginRemove(n, p)
        PROVE  \E c \in Removing : call' = [call EXCEPT ![n] = c]
    BY <2>3 DEF BeginRemove, Begin, Removing
  <2>4. ASSUME NEW i \in DOMAIN invites, BeginAccept(n, i)
        PROVE  \E c \in Accepting : call' = [call EXCEPT ![n] = c] /\ c.link \in DOMAIN invites
    <3>1. [op |-> "accept", link |-> i, step |-> "email"] \in Accepting
      BY <1>0 DEF Accepting
    <3>2. call' = [call EXCEPT ![n] = [op |-> "accept", link |-> i, step |-> "email"]]
      BY <2>4 DEF BeginAccept, Begin
    <3> QED
      BY <3>1, <3>2
  <2>5. ASSUME NEW role \in Roles, BeginModerate(n, p, "role", role)
        PROVE  \E c \in Moderating : call' = [call EXCEPT ![n] = c]
    BY <2>5 DEF BeginModerate, Begin, Moderating
  <2>6. ASSUME NEW status \in Statuses, BeginModerate(n, p, "status", status)
        PROVE  \E c \in Moderating : call' = [call EXCEPT ![n] = c]
    BY <2>6 DEF BeginModerate, Begin, Moderating
  <2>7. ASSUME BeginLogin(n, p)
        PROVE  \E c \in LoggingIn : call' = [call EXCEPT ![n] = c]
    BY <2>7 DEF BeginLogin, Begin, LoggingIn
  <2>8. \A c \in Inviting \cup Changing \cup Removing \cup Moderating \cup LoggingIn : c.op # "accept"
    BY DEF Inviting, Changing, Removing, Moderating, LoggingIn
  <2> QED
    BY <2>1, <2>2, <2>3, <2>4, <2>5, <2>6, <2>7, <2>8
<1>3. \A c \in Inviting \cup Changing \cup Removing \cup Accepting \cup Moderating \cup LoggingIn :
         c \in Handler /\ c.op # "request"
  BY DEF Handler, Inviting, Changing, Removing, Moderating, Accepting, LoggingIn
<1>2. UNCHANGED <<account, member, invites>>
  BY DEF BeginInvite, BeginChange, BeginRemove, BeginAccept, BeginModerate, BeginLogin
<1> QED
  BY <1>1, <1>2, <1>3, CallOnly DEF InOrder

\* A transaction that ends its handler and changes no membership.
LEMMA AccountOnly ==
    ASSUME TeamInv, NEW n \in Slots, End(n) \/ UNCHANGED call,
           account' \in [People -> AccountType],
           \A p \in People : account[p].status # "NONE" => account'[p].status # "NONE",
           UNCHANGED <<member, invites>>
    PROVE  TeamInv'
<1>1. /\ call' \in [Slots -> Handler]
      /\ \A k \in Slots : call'[k] = call[k] \/ call'[k].op = "none"
  BY EndedHandler DEF End, TeamInv, TeamShape
<1>2. TeamShape'
  BY <1>1 DEF TeamInv, TeamShape
<1>3. MembersJoined'
  BY DEF TeamInv, MembersJoined, Used
<1>4. RolesHeld' /\ ServedAsMember'
  BY <1>1, HeldKept DEF TeamInv
<1> QED
  BY <1>2, <1>3, <1>4 DEF TeamInv

\* A free address that uses an open link up joins the team.
LEMMA JoinedByLink ==
    ASSUME TeamInv, NEW n \in Slots, NEW i \in DOMAIN invites, NEW p \in People,
           NEW m \in MemberType, NEW a \in AccountType,
           p = invites[i].email, account[p] = NoAccount, a.status = "ACTIVE",
           invites' = [invites EXCEPT ![i].state = "ACCEPTED"],
           account' = [account EXCEPT ![p] = a], Enrol(n, p, m)
    PROVE  TeamInv'
<1>0. TeamShape /\ invites \in Seq(InviteType) /\ account \in [People -> AccountType]
      /\ member \in [People -> MemberType] /\ MembersJoined
  BY DEF TeamInv, TeamShape
<1>3. PICK link \in InviteType :
         invites' = [invites EXCEPT ![i] = link] /\ link.email = p /\ link.state = "ACCEPTED"
  <2>1. invites[i] \in InviteType
    BY <1>0
  <2>2. /\ [invites[i] EXCEPT !.state = "ACCEPTED"] \in InviteType
        /\ [invites[i] EXCEPT !.state = "ACCEPTED"].email = p
        /\ [invites[i] EXCEPT !.state = "ACCEPTED"].state = "ACCEPTED"
    BY <2>1 DEF InviteType
  <2> QED
    BY <2>2
<1>4. /\ invites' \in Seq(InviteType) /\ DOMAIN invites' = DOMAIN invites
      /\ \A j \in DOMAIN invites : invites'[j] = IF j = i THEN link ELSE invites[j]
  BY <1>0, <1>3
<1>5. TeamShape'
  <2>1. account' \in [People -> AccountType]
    BY <1>0
  <2>2. /\ member' \in [People -> MemberType]
        /\ call' \in [Slots -> Handler]
        /\ \A k \in Slots : call'[k].op = "accept" => call'[k].link \in DOMAIN invites
    BY <1>0, EnrolStep
  <2> QED
    BY <1>4, <2>1, <2>2 DEF TeamShape
<1>6. Used(p) = {}
  BY <1>0 DEF MembersJoined, NoAccount
<1>7. Used(p)' = {i}
  <2>1. \A j \in DOMAIN invites : j # i => ~(invites[j].email = p /\ invites[j].state = "ACCEPTED")
    BY <1>6 DEF Used
  <2>2. \A j \in DOMAIN invites' :
           (invites'[j].email = p /\ invites'[j].state = "ACCEPTED") <=> j = i
    BY <1>3, <1>4, <2>1
  <2> QED
    BY <1>4, <2>2 DEF Used
<1>8. \A q \in People \ {p} : Used(q)' = Used(q)
  <2>1. \A q \in People \ {p} : \A j \in DOMAIN invites :
           (invites'[j].email = q /\ invites'[j].state = "ACCEPTED")
             <=> (invites[j].email = q /\ invites[j].state = "ACCEPTED")
    BY <1>3, <1>4
  <2> QED
    BY <1>4, <2>1 DEF Used
<1>9. \A q \in People \ {p} : member'[q] = member[q] /\ account'[q] = account[q]
  BY <1>0 DEF Enrol
<1>10. MembersJoined'
  <2>1. \A q \in People \ {p} :
          /\ \A j, k \in Used(q)' : j = k
          /\ member'[q] # NoMember => Used(q)' # {}
          /\ Used(q)' # {} => account'[q].status # "NONE"
    BY <1>0, <1>8, <1>9 DEF MembersJoined
  <2>2. account'[p].status # "NONE"
    BY <1>0
  <2> QED
    BY <1>7, <2>1, <2>2 DEF MembersJoined
<1>11. RolesHeld' /\ ServedAsMember'
  BY HeldAfterEnrol DEF TeamInv
<1> QED
  BY <1>5, <1>10, <1>11 DEF TeamInv

LEMMA AcceptSteps ==
    ASSUME TeamInv, NEW n \in Slots, CheckEmail(n) \/ AcceptInvite(n)
    PROVE  TeamInv'
<1>0. TeamShape /\ invites \in Seq(InviteType) /\ call \in [Slots -> Handler]
      /\ account \in [People -> AccountType]
  BY DEF TeamInv, TeamShape
<1>1. call[n] \in Accepting /\ call[n].link \in DOMAIN invites
  BY <1>0, HandlerKinds DEF CheckEmail, AcceptInvite, At
<1>2. CASE CheckEmail(n)
  <2>1. PICK c \in Handler : call' = [call EXCEPT ![n] = c] /\ c.op # "request"
                             /\ (c.op = "accept" => c.link \in DOMAIN invites)
    <3>1. CASE call' = [call EXCEPT ![n] = Idle]
      BY <3>1, EndedHandler
    <3>2. CASE call' = [call EXCEPT ![n] = [call[n] EXCEPT !.step = "join"]]
      <4>1. /\ [call[n] EXCEPT !.step = "join"] \in Accepting
            /\ [call[n] EXCEPT !.step = "join"].link = call[n].link
        BY <1>0, <1>1, ReachedHandler
      <4> QED
        BY <1>1, <3>2, <4>1 DEF Handler, Accepting
    <3> QED
      BY <1>2, <3>1, <3>2 DEF CheckEmail, Reach, End
  <2> QED
    BY <1>2, <2>1, CallOnly DEF CheckEmail, InOrder
<1>3. CASE AcceptInvite(n)
  <2>0. PICK i \in DOMAIN invites : i = call[n].link
    BY <1>1
  <2>1. PICK p \in People : p = invites[i].email
    <3>1. invites[i] \in InviteType
      BY <1>0
    <3> QED
      BY <3>1 DEF InviteType
  <2>2. CASE ~(Open(i) /\ account[p] = NoAccount)
    <3>1. UNCHANGED <<account, member, invites>> /\ End(n)
      BY <1>3, <2>0, <2>1, <2>2 DEF AcceptInvite, UseUp
    <3> QED
      BY <3>1, EndedHandler, CallOnly DEF End
  <2>3. CASE Open(i) /\ account[p] = NoAccount
    <3>0. PICK role \in TeamRoles : role = invites[i].role
      <4>1. invites[i] \in InviteType
        BY <1>0
      <4> QED
        BY <4>1 DEF InviteType
    <3>1. PICK m, a :
             /\ m = [role |-> role, status |-> "ACTIVE"]
             /\ a = [role |-> role, ofHost |-> TRUE, status |-> "ACTIVE"]
      OBVIOUS
    <3>2. /\ invites' = [invites EXCEPT ![i].state = "ACCEPTED"]
          /\ account' = [account EXCEPT ![p] = a]
          /\ Enrol(n, p, m)
      BY <1>3, <2>0, <2>1, <2>3, <3>0, <3>1 DEF AcceptInvite, UseUp
    <3>3. m \in MemberType /\ m # NoMember /\ a \in AccountType /\ a.status = "ACTIVE"
      BY <3>1 DEF MemberType, NoMember, AccountType, Roles, Statuses
    <3> QED
      BY <2>1, <2>3, <3>2, <3>3, JoinedByLink
  <2> QED
    BY <2>2, <2>3
<1> QED
  BY <1>2, <1>3

LEMMA WrittenAccount ==
    ASSUME NEW role \in Roles \cup {"NONE"}, NEW ofHost \in BOOLEAN, NEW status \in Statuses \cup {"NONE"}
    PROVE  \E a \in AccountType :
              a = [role |-> role, ofHost |-> ofHost, status |-> status] /\ a.status = status
<1>1. PICK a : a = [role |-> role, ofHost |-> ofHost, status |-> status]
  OBVIOUS
<1>2. a \in AccountType
  BY <1>1 DEF AccountType
<1>3. a.status = status
  BY <1>1
<1> QED
  BY <1>1, <1>2, <1>3

\* The owner writes the membership, the account and the sessions at once.
LEMMA MemberChanged ==
    ASSUME TeamInv, NEW n \in Slots, NEW p \in People, NEW m \in MemberType, Enrol(n, p, m),
           m = NoMember \/ member[p] # NoMember,
           account' \in [People -> AccountType],
           \A q \in People : account[q].status # "NONE" => account'[q].status # "NONE",
           UNCHANGED invites
    PROVE  TeamInv'
<1>1. TeamShape'
  BY EnrolStep DEF TeamInv, TeamShape
<1>2. MembersJoined'
  <2>1. \A q \in People : Used(q)' = Used(q)
    BY DEF Used
  <2>2. \A q \in People : member'[q] = NoMember \/ member[q] # NoMember
    BY DEF Enrol, TeamInv, TeamShape
  <2> QED
    BY <2>1, <2>2, JoinedKept DEF TeamInv
<1>3. RolesHeld' /\ ServedAsMember'
  BY HeldAfterEnrol DEF TeamInv
<1> QED
  BY <1>1, <1>2, <1>3 DEF TeamInv

LEMMA ChangeSteps ==
    ASSUME TeamInv, NEW n \in Slots, ChangeMember(n)
    PROVE  TeamInv'
<1>0. TeamShape /\ account \in [People -> AccountType]
  BY DEF TeamInv, TeamShape
<1>1. call[n] \in Changing
  BY <1>0, HandlerKinds DEF ChangeMember, At
<1>2. PICK p \in People, role \in TeamRoles, status \in Statuses :
         p = call[n].person /\ role = call[n].role /\ status = call[n].status
  BY <1>1 DEF Changing
<1>3. PICK m \in MemberType : m = [role |-> role, status |-> status]
  BY DEF MemberType
<1>4. /\ account' \in [People -> AccountType]
      /\ \A q \in People : account[q].status # "NONE" => account'[q].status # "NONE"
  <2>1. AccountStatus(call[n].was, call[n].status) \in Statuses
    BY <1>2 DEF AccountStatus, Statuses
  <2>2. PICK a \in AccountType :
           /\ a = [role |-> role, ofHost |-> TRUE, status |-> AccountStatus(call[n].was, call[n].status)]
           /\ a.status \in Statuses
    BY <2>1, WrittenAccount DEF Roles
  <2>3. account' = [account EXCEPT ![p] = a] \/ account' = account
    BY <1>2, <2>2 DEF ChangeMember
  <2> QED
    BY <1>0, <2>2, <2>3 DEF Statuses
<1>5. CASE p \in Members
  <2>1. Enrol(n, p, m) /\ UNCHANGED invites /\ member[p] # NoMember
    BY <1>2, <1>3, <1>5 DEF ChangeMember, Members
  <2> QED
    BY <1>4, <2>1, MemberChanged
<1>6. CASE p \notin Members
  BY <1>2, <1>4, <1>6, AccountOnly DEF ChangeMember
<1> QED
  BY <1>5, <1>6

LEMMA RemoveSteps ==
    ASSUME TeamInv, NEW n \in Slots, RemoveMember(n)
    PROVE  TeamInv'
<1>0. TeamShape /\ account \in [People -> AccountType]
  BY DEF TeamInv, TeamShape
<1>1. call[n] \in Removing
  BY <1>0, HandlerKinds DEF RemoveMember, At
<1>2. PICK p \in People : p = call[n].person
  BY <1>1 DEF Removing
<1>3. NoMember \in MemberType
  BY DEF MemberType, NoMember
<1>4. /\ account' \in [People -> AccountType]
      /\ \A q \in People : account[q].status # "NONE" => account'[q].status # "NONE"
  <2>1. PICK a \in AccountType :
           /\ a = [role |-> "CONSUMER", ofHost |-> FALSE, status |-> account[p].status]
           /\ a.status = account[p].status
    <3>1. account[p].status \in Statuses \cup {"NONE"}
      BY <1>0 DEF AccountType
    <3> QED
      BY <3>1, WrittenAccount DEF Roles
  <2>2. account' = [account EXCEPT ![p] = a] \/ account' = account
    BY <1>2, <2>1 DEF RemoveMember
  <2> QED
    BY <1>0, <2>1, <2>2
<1> QED
  BY <1>2, <1>3, <1>4, MemberChanged DEF RemoveMember

LEMMA ModerationSteps ==
    ASSUME TeamInv, NEW n \in Slots, SetRole(n) \/ SetStatus(n)
    PROVE  TeamInv'
<1>0. TeamShape /\ account \in [People -> AccountType]
  BY DEF TeamInv, TeamShape
<1>1. CASE SetRole(n)
  <2>1. call[n] \in Moderating /\ call[n].op = "role"
    BY <1>0, <1>1, HandlerKinds DEF SetRole, At
  <2>2. PICK p \in People, role \in Roles : p = call[n].person /\ role = call[n].value
    BY <2>1 DEF Moderating
  <2>3. /\ [account[p] EXCEPT !.role = role] \in AccountType
        /\ [account[p] EXCEPT !.role = role].status = account[p].status
    BY <1>0 DEF AccountType
  <2>4. account' = [account EXCEPT ![p] = [account[p] EXCEPT !.role = role]]
    BY <1>1, <2>2 DEF SetRole
  <2> QED
    BY <1>0, <1>1, <2>3, <2>4, AccountOnly DEF SetRole
<1>2. CASE SetStatus(n)
  <2>1. call[n] \in Moderating /\ call[n].op = "status"
    BY <1>0, <1>2, HandlerKinds DEF SetStatus, At
  <2>2. PICK p \in People, status \in Statuses : p = call[n].person /\ status = call[n].value
    BY <2>1 DEF Moderating
  <2>3. /\ [account[p] EXCEPT !.status = status] \in AccountType
        /\ [account[p] EXCEPT !.status = status].status = status
    BY <1>0 DEF AccountType
  <2>4. account' = [account EXCEPT ![p] = [account[p] EXCEPT !.status = status]]
    BY <1>2, <2>2 DEF SetStatus
  <2> QED
    BY <1>0, <1>2, <2>3, <2>4, AccountOnly DEF SetStatus, Statuses
<1> QED
  BY <1>1, <1>2

LEMMA SessionSteps ==
    ASSUME TeamInv, (\E p \in People : Register(p)) \/ (\E n \in Slots : CreateSession(n))
    PROVE  TeamInv'
<1>0. TeamShape /\ account \in [People -> AccountType] /\ call \in [Slots -> Handler]
      /\ member \in [People -> MemberType] /\ invites \in Seq(InviteType)
  BY DEF TeamInv, TeamShape
<1>1. ASSUME NEW p \in People, Register(p) PROVE TeamInv'
  <2>1. PICK a \in AccountType :
           a = [role |-> "CONSUMER", ofHost |-> FALSE, status |-> "ACTIVE"] /\ a.status = "ACTIVE"
    BY WrittenAccount DEF Roles, Statuses
  <2>2. account' = [account EXCEPT ![p] = a] /\ UNCHANGED <<member, invites, call>>
    BY <1>1, <2>1 DEF Register
  <2>3. TeamShape'
    BY <1>0, <2>2 DEF TeamShape
  <2>4. MembersJoined'
    BY <1>0, <2>1, <2>2 DEF TeamInv, MembersJoined, Used
  <2>5. RolesHeld' /\ ServedAsMember'
    BY <1>0, <2>2, HeldKept DEF TeamInv
  <2> QED
    BY <2>3, <2>4, <2>5 DEF TeamInv
<1>2. ASSUME NEW n \in Slots, CreateSession(n) PROVE TeamInv'
  BY <1>0, <1>2, AccountOnly DEF CreateSession
<1> QED
  BY <1>1, <1>2

\* A request, from the session it is read from to its end.
LEMMA RequestSteps ==
    ASSUME TeamInv, NEW n \in Slots,
           \/ \E p \in People : BeginRequest(n, p)
           \/ VerifyMembership(n) \/ LookupMembership(n) \/ EndRequest(n)
    PROVE  TeamInv'
<1>0. /\ TeamShape /\ account \in [People -> AccountType] /\ call \in [Slots -> Handler]
      /\ member \in [People -> MemberType] /\ InOrder(call[n])
  BY AllInOrder DEF TeamInv, TeamShape
<1>1. ASSUME NEW p \in People, BeginRequest(n, p) PROVE TeamInv'
  <2>1. CASE account[p].status = "ACTIVE"
    <3>1. PICK role, ofHost, held, step :
             /\ role = account[p].role /\ ofHost = account[p].ofHost /\ held = Held(member[p])
             /\ step = IF account[p].role \in TeamRoles THEN "verify" ELSE "served"
      OBVIOUS
    <3>2. PICK c : c = [op |-> "request", person |-> p, role |-> role, ofHost |-> ofHost,
                        held |-> held, step |-> step]
      OBVIOUS
    <3>3. call' = [call EXCEPT ![n] = c]
      BY <1>1, <2>1, <3>1, <3>2 DEF BeginRequest, Begin
    <3>4. c \in Requesting
      <4>1. role \in Roles \cup {"NONE"} /\ ofHost \in BOOLEAN
        BY <1>0, <3>1 DEF AccountType
      <4>2. held \in SUBSET (TeamRoles \cup {"NONE"})
        BY <1>0, <3>1, HeldType
      <4> QED
        BY <3>1, <3>2, <4>1, <4>2 DEF Requesting
    <3>5. c.op = "request" /\ c.person = p /\ c.held = held /\ c.step = step /\ c.role = role
      BY <3>2
    <3>6. InOrder(c)
      BY <3>1, <3>5 DEF InOrder
    <3> QED
      BY <1>1, <3>3, <3>4, <3>5, <3>6, CallOnly DEF BeginRequest, Handler
  <2>2. CASE account[p].status # "ACTIVE"
    <3>1. UNCHANGED <<account, member, invites, call>>
      BY <1>1, <2>2 DEF BeginRequest
    <3> QED
      BY <1>0, <3>1, CallOnly DEF TeamShape
  <2> QED
    BY <2>1, <2>2
<1>2. CASE VerifyMembership(n)
  <2>1. call[n] \in Requesting /\ call[n].op = "request" /\ call[n].step = "verify"
    BY <1>0, <1>2, HandlerKinds DEF VerifyMembership, At
  <2>2. PICK s \in {"served", "lookup"} :
           /\ s = IF Verified(call[n], member[call[n].person]) THEN "served" ELSE "lookup"
           /\ call' = [call EXCEPT ![n] = [call[n] EXCEPT !.step = s]]
    BY <1>2 DEF VerifyMembership, Reach
  <2>3. PICK c \in Requesting :
           /\ call' = [call EXCEPT ![n] = c] /\ c.op = "request" /\ c.step = s
           /\ c.role = call[n].role /\ c.held = call[n].held /\ c.person = call[n].person
    <3>1. [call[n] EXCEPT !.step = s] \in Requesting
      BY <1>0, <2>1, <2>2, ReachedHandler
    <3>2. /\ [call[n] EXCEPT !.step = s].op = "request" /\ [call[n] EXCEPT !.step = s].step = s
          /\ [call[n] EXCEPT !.step = s].role = call[n].role
          /\ [call[n] EXCEPT !.step = s].held = call[n].held
          /\ [call[n] EXCEPT !.step = s].person = call[n].person
      BY <2>1 DEF Requesting
    <3> QED
      BY <2>2, <3>1, <3>2
  <2>4. InOrder(c)
    BY <1>0, <2>1, <2>2, <2>3 DEF InOrder, Verified, Held
  <2> QED
    BY <1>2, <2>3, <2>4, CallOnly DEF VerifyMembership, Handler
<1>3. CASE LookupMembership(n)
  <2>1. call[n] \in Requesting /\ call[n].op = "request"
    BY <1>0, <1>3, HandlerKinds DEF LookupMembership, At
  <2>2. PICK m \in MemberType : m = member[call[n].person]
    BY <1>0, <2>1 DEF Requesting
  <2>3. PICK c \in Requesting :
           /\ call' = [call EXCEPT ![n] = c] /\ c.op = "request"
           /\ c.held = call[n].held /\ c.person = call[n].person
           /\ \/ c.step = "repair" /\ m.status = "ACTIVE" /\ c.role = m.role
              \/ c.step = "served" /\ c.ofHost = FALSE
    <3>1. CASE m.status = "ACTIVE"
      <4>1. PICK c : c = [call[n] EXCEPT !.role = m.role, !.ofHost = TRUE, !.step = "repair"]
        OBVIOUS
      <4>2. /\ c \in Requesting /\ c.op = "request" /\ c.role = m.role /\ c.step = "repair"
            /\ c.held = call[n].held /\ c.person = call[n].person
        BY <2>1, <4>1 DEF Requesting, MemberType, Roles
      <4>3. call' = [call EXCEPT ![n] = c]
        BY <1>0, <1>3, <2>2, <3>1, <4>1 DEF LookupMembership
      <4> QED
        BY <3>1, <4>2, <4>3
    <3>2. CASE m.status # "ACTIVE"
      <4>1. PICK c : c = [call[n] EXCEPT !.ofHost = FALSE, !.step = "served"]
        OBVIOUS
      <4>2. /\ c \in Requesting /\ c.op = "request" /\ c.step = "served" /\ c.ofHost = FALSE
            /\ c.held = call[n].held /\ c.person = call[n].person
        BY <2>1, <4>1 DEF Requesting
      <4>3. call' = [call EXCEPT ![n] = c]
        BY <1>0, <1>3, <2>2, <3>2, <4>1 DEF LookupMembership
      <4> QED
        BY <4>2, <4>3
    <3> QED
      BY <3>1, <3>2
  <2>4. InOrder(c)
    BY <1>0, <2>1, <2>2, <2>3 DEF InOrder, Held
  <2> QED
    BY <1>3, <2>3, <2>4, CallOnly DEF LookupMembership, Handler
<1>4. CASE EndRequest(n)
  BY <1>4, EndedHandler, CallOnly DEF EndRequest, End
<1> QED
  BY <1>1, <1>2, <1>3, <1>4

\* The account is given the role the request looked up.
LEMMA RepairStep ==
    ASSUME TeamInv, NEW n \in Slots, RepairAccount(n)
    PROVE  TeamInv'
<1>0. /\ TeamShape /\ account \in [People -> AccountType] /\ call \in [Slots -> Handler]
      /\ member \in [People -> MemberType] /\ \A k \in Slots : InOrder(call[k])
  BY AllInOrder DEF TeamInv, TeamShape
<1>1. call[n] \in Requesting /\ call[n].op = "request" /\ call[n].step = "repair"
  BY <1>0, HandlerKinds DEF RepairAccount, At
<1>2. PICK p \in People, role \in Roles \cup {"NONE"} : p = call[n].person /\ role = call[n].role
  BY <1>1 DEF Requesting
<1>3. PICK a \in AccountType :
         /\ a = [role |-> role, ofHost |-> TRUE, status |-> account[p].status]
         /\ a.status = account[p].status
  <2>1. account[p].status \in Statuses \cup {"NONE"}
    BY <1>0 DEF AccountType
  <2> QED
    BY <2>1, WrittenAccount
<1>4. PICK c \in Requesting :
         /\ call' = [call EXCEPT ![n] = c] /\ c.op = "request" /\ c.step = "served"
         /\ c.role = call[n].role /\ c.held = call[n].held /\ c.person = call[n].person
  <2>1. PICK c : c = [call[n] EXCEPT !.step = "served"]
    OBVIOUS
  <2>2. /\ c \in Requesting /\ c.op = "request" /\ c.step = "served"
        /\ c.role = call[n].role /\ c.held = call[n].held /\ c.person = call[n].person
    BY <1>1, <2>1 DEF Requesting
  <2>3. call' = [call EXCEPT ![n] = c]
    BY <2>1 DEF RepairAccount, Reach
  <2> QED
    BY <2>2, <2>3
<1>5. account' = [account EXCEPT ![p] = a] /\ UNCHANGED <<member, invites>>
  BY <1>0, <1>2, <1>3 DEF RepairAccount
<1>6. TeamShape'
  <2>1. c \in Handler
    BY <1>4 DEF Handler
  <2> QED
    BY <1>0, <1>4, <1>5, <2>1, HandlerStep DEF TeamShape
<1>7. MembersJoined'
  BY <1>0, <1>3, <1>5 DEF TeamInv, MembersJoined, Used
<1>8. InOrder(c)
  BY <1>0, <1>1, <1>4 DEF InOrder
<1>9. RolesHeld' /\ ServedAsMember'
  BY <1>0, <1>4, <1>5, <1>8 DEF RolesHeld, ServedAsMember, At, InOrder, Held
<1> QED
  BY <1>6, <1>7, <1>9 DEF TeamInv

LEMMA TeamInvNext == TeamInv /\ [TeamNext]_teamVars => TeamInv'
<1> SUFFICES ASSUME TeamInv, [TeamNext]_teamVars PROVE TeamInv'
  OBVIOUS
<1>1. ASSUME NEW n \in Slots, OwnerNext(n) PROVE TeamInv'
  BY <1>1, BeginSteps, InviteSteps, ChangeSteps, RemoveSteps DEF OwnerNext
<1>2. ASSUME NEW n \in Slots, InviteeNext(n) PROVE TeamInv'
  <2>1. ASSUME NEW i \in DOMAIN invites, BeginAccept(n, i) PROVE TeamInv'
    <3>1. invites[i].email \in People
      <4>1. invites[i] \in InviteType
        BY DEF TeamInv, TeamShape
      <4> QED
        BY <4>1 DEF InviteType
    <3> QED
      BY <2>1, <3>1, BeginSteps
  <2> QED
    BY <1>2, <2>1, AcceptSteps DEF InviteeNext
<1>3. ASSUME NEW n \in Slots, ModerationNext(n) PROVE TeamInv'
  BY <1>3, BeginSteps, ModerationSteps DEF ModerationNext
<1>4. ASSUME NEW n \in Slots, RequestNext(n) PROVE TeamInv'
  BY <1>4, BeginSteps, SessionSteps, RequestSteps, RepairStep DEF RequestNext
<1>5. CASE \E i \in DOMAIN invites : RevokeInvite(i) \/ ExpireInvite(i)
  BY <1>5, LinkSteps
<1>6. CASE \E p \in People : Register(p)
  BY <1>6, SessionSteps
<1>7. CASE UNCHANGED teamVars
  BY <1>7 DEF teamVars, TeamInv, TeamShape, MembersJoined, Used, RolesHeld, ServedAsMember, At
<1> QED
  BY <1>1, <1>2, <1>3, <1>4, <1>5, <1>6, <1>7 DEF TeamNext

(* However many links were sent and whoever registers meanwhile, a member   *)
(* has used up exactly one link of its address, and a link is used up only  *)
(* by an account that exists (team.ts:73, auth.ts:371).                     *)
THEOREM OneLinkMakesOneAccount == TeamSpec => []OneLinkOneAccount
<1>1. TeamInv => OneLinkOneAccount
  <2> SUFFICES ASSUME TeamInv, NEW p \in People
               PROVE  /\ Cardinality(Used(p)) <= 1
                      /\ p \in Members => Used(p) # {}
                      /\ Used(p) # {} => account[p] # NoAccount
    BY DEF OneLinkOneAccount
  <2>1. Cardinality(Used(p)) <= 1
    <3>1. CASE Used(p) = {}
      BY <3>1, FS_EmptySet
    <3>2. CASE Used(p) # {}
      <4>1. PICK i : i \in Used(p)
        BY <3>2
      <4>2. Used(p) = {i}
        BY <4>1 DEF TeamInv, MembersJoined
      <4> QED
        BY <4>2, FS_Singleton
    <3> QED
      BY <3>1, <3>2
  <2> QED
    BY <2>1 DEF TeamInv, MembersJoined, Members, NoAccount
<1> QED
  BY <1>1, TeamInvInit, TeamInvNext, PTL DEF TeamSpec

(* Whatever the owner, moderation and the repair of other requests do       *)
(* meanwhile, a request served for the host has a role its user has held as *)
(* an active member during the request (auth.ts:618 requireAuth).           *)
THEOREM ServedWithARoleHeld == TeamSpec => []ServedAsMember
BY TeamInvInit, TeamInvNext, PTL DEF TeamSpec, TeamInv

\* The steps that write the status of an account that exists.
LEMMA StatusWrites ==
    ASSUME TeamShape, NEW p \in People, [TeamNext]_teamVars,
           account[p].status = "SUSPENDED", account'[p].status = "ACTIVE"
    PROVE  \E n \in Slots : (SetStatus(n) \/ ChangeMember(n)) /\ call[n].person = p
<1>0. account \in [People -> AccountType] /\ call \in [Slots -> Handler] /\ account'[p] # account[p]
  BY DEF TeamShape
<1>1. ASSUME NEW n \in Slots, OwnerNext(n)
      PROVE  \E k \in Slots : ChangeMember(k) /\ call[k].person = p
  <2>1. ChangeMember(n) \/ RemoveMember(n)
    BY <1>0, <1>1 DEF OwnerNext, BeginInvite, BeginChange, BeginRemove, CountTeam, ReplaceInvites,
       InsertInvite
  <2>2. ~RemoveMember(n)
    <3> SUFFICES ASSUME RemoveMember(n) PROVE FALSE
      OBVIOUS
    <3>1. PICK a : a = [role |-> "CONSUMER", ofHost |-> FALSE,
                        status |-> account[call[n].person].status]
      OBVIOUS
    <3>2. a.status = account[call[n].person].status
      BY <3>1
    <3>3. account' = [account EXCEPT ![call[n].person] = a] \/ account' = account
      BY <3>1 DEF RemoveMember
    <3> QED
      BY <1>0, <3>2, <3>3
  <2>3. call[n].person = p
    <3>1. PICK a : account' = [account EXCEPT ![call[n].person] = a] \/ account' = account
      BY <2>1, <2>2 DEF ChangeMember
    <3> QED
      BY <1>0, <3>1
  <2> QED
    BY <2>1, <2>2, <2>3
<1>2. ASSUME NEW n \in Slots, InviteeNext(n) PROVE FALSE
  <2>1. AcceptInvite(n)
    BY <1>0, <1>2 DEF InviteeNext, BeginAccept, CheckEmail
  <2>2. PICK i, a : \/ account' = account
                    \/ account[invites[i].email] = NoAccount /\ account' = [account EXCEPT ![invites[i].email] = a]
    BY <2>1 DEF AcceptInvite
  <2> QED
    BY <1>0, <2>2 DEF NoAccount
<1>3. ASSUME NEW n \in Slots, ModerationNext(n)
      PROVE  \E k \in Slots : SetStatus(k) /\ call[k].person = p
  <2>1. SetRole(n) \/ SetStatus(n)
    BY <1>0, <1>3 DEF ModerationNext, BeginModerate
  <2>2. ~SetRole(n)
    <3> SUFFICES ASSUME SetRole(n) PROVE FALSE
      OBVIOUS
    <3>1. PICK q, r : q = call[n].person /\ r = call[n].value
      OBVIOUS
    <3>2. account' = [account EXCEPT ![q] = [account[q] EXCEPT !.role = r]]
      BY <3>1 DEF SetRole
    <3>3. account[p] \in AccountType /\ [account[p] EXCEPT !.role = r].status = account[p].status
      BY <1>0 DEF AccountType
    <3> QED
      BY <1>0, <3>2, <3>3
  <2>3. call[n].person = p
    <3>1. PICK q, r : q = call[n].person /\ r = call[n].value
      OBVIOUS
    <3>2. account' = [account EXCEPT ![q] = [account[q] EXCEPT !.status = r]]
      BY <2>1, <2>2, <3>1 DEF SetStatus
    <3> QED
      BY <1>0, <3>1, <3>2
  <2> QED
    BY <2>1, <2>2, <2>3
<1>4. ASSUME NEW n \in Slots, RequestNext(n) PROVE FALSE
  <2>1. RepairAccount(n)
    BY <1>0, <1>4 DEF RequestNext, BeginLogin, BeginRequest, CreateSession, VerifyMembership,
       LookupMembership, EndRequest
  <2>2. PICK q, r : q = call[n].person /\ r = call[n].role
    OBVIOUS
  <2>3. PICK a : a = [role |-> r, ofHost |-> TRUE, status |-> account[q].status]
    OBVIOUS
  <2>4. a.status = account[q].status
    BY <2>3
  <2>5. account' = [account EXCEPT ![q] = a]
    BY <2>1, <2>2, <2>3 DEF RepairAccount
  <2> QED
    BY <1>0, <2>4, <2>5
<1>5. ASSUME NEW q \in People, Register(q) PROVE FALSE
  BY <1>0, <1>5 DEF Register, NoAccount
<1>6. ASSUME NEW i \in DOMAIN invites, RevokeInvite(i) \/ ExpireInvite(i) PROVE FALSE
  BY <1>0, <1>6 DEF RevokeInvite, ExpireInvite
<1> QED
  BY <1>0, <1>1, <1>2, <1>3, <1>4, <1>5, <1>6 DEF TeamNext, teamVars

(* A suspension is lifted by moderation alone, or by a change of the owner  *)
(* that was decided before it, or about a member it had suspended itself    *)
(* (team.ts:147).                                                           *)
THEOREM SuspensionIsTheirs == TeamSpec => SuspensionHolds
<1>1. TeamInv /\ [TeamNext]_teamVars =>
        [\A p \in People :
            account[p].status = "SUSPENDED" /\ account'[p].status = "ACTIVE"
              => \E n \in Slots : call'[n] # call[n] /\ LiftedBy(p, call[n])]_teamVars
  <2> SUFFICES ASSUME TeamInv, [TeamNext]_teamVars, NEW p \in People,
                      account[p].status = "SUSPENDED", account'[p].status = "ACTIVE"
               PROVE  \E n \in Slots : call'[n] # call[n] /\ LiftedBy(p, call[n])
    OBVIOUS
  <2>0. /\ TeamShape /\ account \in [People -> AccountType] /\ call \in [Slots -> Handler]
        /\ member \in [People -> MemberType]
    BY DEF TeamInv, TeamShape
  <2>1. PICK n \in Slots : (SetStatus(n) \/ ChangeMember(n)) /\ call[n].person = p
    BY <2>0, StatusWrites
  <2>2. CASE SetStatus(n)
    <3>1. call[n].op = "status" /\ call' = [call EXCEPT ![n] = Idle]
      BY <2>2 DEF SetStatus, At, End
    <3> QED
      BY <2>0, <2>1, <3>1 DEF LiftedBy, Idle
  <2>3. CASE ChangeMember(n)
    <3>1. call[n].op = "change"
      BY <2>3 DEF ChangeMember, At
    <3>2. call'[n] = Idle
      BY <2>0, <2>3 DEF ChangeMember, Enrol, End
    <3>3. AccountStatus(call[n].was, call[n].status) = "ACTIVE"
      <4>1. PICK s : s = AccountStatus(call[n].was, call[n].status)
        OBVIOUS
      <4>2. PICK a : a = [role |-> call[n].role, ofHost |-> TRUE, status |-> s]
        OBVIOUS
      <4>3. a.status = s
        BY <4>2
      <4>4. account' = [account EXCEPT ![p] = a] \/ account' = account
        BY <2>1, <2>3, <4>1, <4>2 DEF ChangeMember
      <4> QED
        BY <2>0, <4>1, <4>3, <4>4
    <3>4. call[n].was.account # "SUSPENDED" \/ call[n].was.member = "SUSPENDED"
      BY <3>3 DEF AccountStatus
    <3> QED
      BY <2>1, <3>1, <3>2, <3>4 DEF LiftedBy, Idle
  <2> QED
    BY <2>1, <2>2, <2>3
<1> QED
  BY <1>1, TeamInvInit, TeamInvNext, PTL DEF TeamSpec, SuspensionHolds

-----------------------------------------------------------------------------
(* The demo: offers, contracts, orders, royalties and batches.              *)

Sides == {"CREATOR", "HOST"}
OfferType    == [by : Sides, status : {"PENDING", "COUNTERED", "ACCEPTED"}]
ContractType == [offer : Nat, signed : SUBSET Sides]
OrderType    == [status : {"NONE", "PENDING_PAYMENT", "COMPLETED", "REFUNDED"}, units : Int]
AccrualType  == [order : Orders, status : {"ACCRUED", "SETTLEMENT_ELIGIBLE", "SETTLEMENT_LOCKED", "PAID"},
                 batch : Nat, seeded : BOOLEAN]

DealShape ==
    /\ offers \in Seq(OfferType)
    /\ contracts \in Seq(ContractType)
    /\ \A c \in DOMAIN contracts : contracts[c].offer \in DOMAIN offers

DealInv == DealShape /\ OneOfferOpen

LEMMA DealInvInit == DemoInit => DealInv
<1> SUFFICES ASSUME DemoInit PROVE DealInv
  OBVIOUS
<1>1. CASE offers = <<>> /\ contracts = <<>>
  BY <1>1 DEF DealInv, DealShape, OneOfferOpen
<1>2. CASE /\ offers = <<[by |-> "HOST", status |-> "ACCEPTED"]>>
           /\ contracts = <<[offer |-> 1, signed |-> {"CREATOR", "HOST"}]>>
  <2>1. PICK o \in OfferType : o = [by |-> "HOST", status |-> "ACCEPTED"]
    BY DEF OfferType, Sides
  <2>2. PICK c \in ContractType : c = [offer |-> 1, signed |-> {"CREATOR", "HOST"}]
    BY DEF ContractType, Sides
  <2>3. offers = <<o>> /\ contracts = <<c>> /\ o.status = "ACCEPTED" /\ c.offer = 1
    BY <1>2, <2>1, <2>2
  <2> QED
    BY <2>3 DEF DealInv, DealShape, OneOfferOpen
<1> QED
  BY <1>1, <1>2 DEF DemoInit

\* An offer closes the one before it.
LEMMA SendOfferStep ==
    ASSUME DealInv, NEW side \in Sides, SendOffer(side)
    PROVE  DealInv'
<1>0. offers \in Seq(OfferType) /\ DealShape /\ OneOfferOpen /\ Len(offers) \in Nat
  BY DEF DealInv, DealShape
<1>1. \A n \in DOMAIN offers : /\ Countered(offers[n]) \in OfferType
                               /\ Countered(offers[n]).status # "PENDING"
                               /\ offers[n].status = "ACCEPTED" => Countered(offers[n]).status = "ACCEPTED"
  <2> SUFFICES ASSUME NEW o \in OfferType
               PROVE  /\ Countered(o) \in OfferType /\ Countered(o).status # "PENDING"
                      /\ o.status = "ACCEPTED" => Countered(o).status = "ACCEPTED"
    BY <1>0
  <2>1. CASE o.status = "PENDING"
    BY <2>1 DEF Countered, OfferType
  <2>2. CASE o.status # "PENDING"
    BY <2>2 DEF Countered, OfferType
  <2> QED
    BY <2>1, <2>2
<1>2. PICK closed : closed = [n \in DOMAIN offers |-> Countered(offers[n])]
  OBVIOUS
<1>3. /\ closed \in Seq(OfferType) /\ Len(closed) = Len(offers)
      /\ \A n \in DOMAIN offers : closed[n] = Countered(offers[n])
  <2>1. DOMAIN offers = 1..Len(offers)
    BY <1>0
  <2>2. closed \in [1..Len(offers) -> OfferType]
    BY <1>1, <1>2, <2>1
  <2> QED
    BY <1>0, <1>2, <2>1, <2>2
<1>4. PICK o \in OfferType : o = [by |-> side, status |-> "PENDING"]
  BY DEF OfferType
<1>5. offers' = Append(closed, o) /\ UNCHANGED contracts
  BY <1>2, <1>4 DEF SendOffer
<1>6. /\ offers' \in Seq(OfferType) /\ DOMAIN offers' = 1..(Len(offers) + 1) /\ Len(offers') = Len(offers) + 1
      /\ \A n \in DOMAIN offers : n \in DOMAIN offers' /\ offers'[n] = Countered(offers[n])
  BY <1>0, <1>3, <1>5
<1>7. DealShape'
  BY <1>5, <1>6, <1>0 DEF DealShape
<1>8. \A n \in DOMAIN offers' : offers'[n].status = "PENDING" => n = Len(offers')
  BY <1>0, <1>1, <1>6
<1>9. \A c \in DOMAIN contracts' : offers'[contracts'[c].offer].status = "ACCEPTED"
  BY <1>0, <1>1, <1>5, <1>6 DEF DealShape, OneOfferOpen
<1>10. \A c, d \in DOMAIN contracts' : contracts'[c].offer = contracts'[d].offer => c = d
  BY <1>0, <1>5 DEF OneOfferOpen
<1> QED
  BY <1>7, <1>8, <1>9, <1>10 DEF DealInv, OneOfferOpen

LEMMA AcceptOfferStep ==
    ASSUME DealInv, NEW n \in DOMAIN offers, AcceptOffer(n)
    PROVE  DealInv'
<1>0. /\ offers \in Seq(OfferType) /\ DealShape /\ OneOfferOpen /\ contracts \in Seq(ContractType)
      /\ Len(contracts) \in Nat /\ n \in Nat
  BY DEF DealInv, DealShape
<1>1. PICK o \in OfferType : offers' = [offers EXCEPT ![n] = o] /\ o.status = "ACCEPTED"
  <2>1. /\ [offers[n] EXCEPT !.status = "ACCEPTED"] \in OfferType
        /\ [offers[n] EXCEPT !.status = "ACCEPTED"].status = "ACCEPTED"
    <3>1. offers[n] \in OfferType
      BY <1>0
    <3> QED
      BY <3>1 DEF OfferType
  <2> QED
    BY <2>1 DEF AcceptOffer
<1>2. PICK d \in ContractType : contracts' = Append(contracts, d) /\ d.offer = n
  <2>1. PICK d : d = [offer |-> n, signed |-> {}]
    OBVIOUS
  <2>2. d \in ContractType /\ d.offer = n
    BY <1>0, <2>1 DEF ContractType
  <2> QED
    BY <2>1, <2>2 DEF AcceptOffer
<1>3. /\ offers' \in Seq(OfferType) /\ DOMAIN offers' = DOMAIN offers /\ Len(offers') = Len(offers)
      /\ \A k \in DOMAIN offers : offers'[k] = IF k = n THEN o ELSE offers[k]
  BY <1>0, <1>1
<1>4. /\ contracts' \in Seq(ContractType)
      /\ \A c \in DOMAIN contracts' : \/ c \in DOMAIN contracts /\ contracts'[c] = contracts[c]
                                      \/ c = Len(contracts) + 1 /\ contracts'[c] = d
  BY <1>0, <1>2
<1>5. DealShape'
  BY <1>0, <1>2, <1>3, <1>4 DEF DealShape
<1>6. \A k \in DOMAIN offers' : offers'[k].status = "PENDING" => k = Len(offers')
  BY <1>0, <1>1, <1>3 DEF OneOfferOpen
<1>7. \A c \in DOMAIN contracts' : offers'[contracts'[c].offer].status = "ACCEPTED"
  BY <1>0, <1>1, <1>2, <1>3, <1>4 DEF DealShape, OneOfferOpen
<1>8. \A c \in DOMAIN contracts : contracts[c].offer # n
  BY <1>0 DEF AcceptOffer, OneOfferOpen
<1>9. \A c, e \in DOMAIN contracts' : contracts'[c].offer = contracts'[e].offer => c = e
  BY <1>0, <1>2, <1>4, <1>8 DEF OneOfferOpen
<1> QED
  BY <1>5, <1>6, <1>7, <1>9 DEF DealInv, OneOfferOpen

LEMMA SignContractStep ==
    ASSUME DealInv, NEW c \in DOMAIN contracts, NEW side \in Sides, SignContract(c, side)
    PROVE  DealInv'
<1>0. DealShape /\ OneOfferOpen /\ contracts \in Seq(ContractType) /\ contracts[c] \in ContractType
  BY DEF DealInv, DealShape
<1>1. PICK d \in ContractType : contracts' = [contracts EXCEPT ![c] = d] /\ d.offer = contracts[c].offer
  <2>1. PICK signed \in SUBSET Sides : signed = contracts[c].signed \cup {side}
    BY <1>0 DEF ContractType
  <2>2. /\ [contracts[c] EXCEPT !.signed = signed] \in ContractType
        /\ [contracts[c] EXCEPT !.signed = signed].offer = contracts[c].offer
    BY <1>0 DEF ContractType
  <2>3. contracts' = [contracts EXCEPT ![c] = [contracts[c] EXCEPT !.signed = signed]]
    BY <2>1 DEF SignContract
  <2> QED
    BY <2>2, <2>3
<1>2. /\ contracts' \in Seq(ContractType) /\ DOMAIN contracts' = DOMAIN contracts
      /\ \A k \in DOMAIN contracts : contracts'[k].offer = contracts[k].offer
  BY <1>0, <1>1
<1>3. UNCHANGED offers
  BY DEF SignContract
<1> QED
  BY <1>0, <1>2, <1>3 DEF DealInv, DealShape, OneOfferOpen

LEMMA DealInvNext == DealInv /\ [DemoNext]_demoVars => DealInv'
<1> SUFFICES ASSUME DealInv, [DemoNext]_demoVars PROVE DealInv'
  OBVIOUS
<1>1. CASE UNCHANGED <<offers, contracts>>
  BY <1>1 DEF DealInv, DealShape, OneOfferOpen
<1>2. CASE DealNext
  <2>1. CASE \/ AddLabBatch \/ PrepareLaunch \/ ActivateLaunch \/ PauseProduct \/ ResumeProduct
             \/ DecideProduct \/ PapersExpire \/ \E value \in BOOLEAN : SetLaunchGateItem(value)
    BY <1>1, <2>1 DEF AddLabBatch, PrepareLaunch, ActivateLaunch, PauseProduct, ResumeProduct,
       DecideProduct, PapersExpire, SetLaunchGateItem
  <2> QED
    BY <1>2, <2>1, SendOfferStep, AcceptOfferStep, SignContractStep DEF DealNext, Sides
<1>3. CASE SaleNext
  BY <1>1, <1>3 DEF SaleNext, PlaceOrder, SimulateDemoPayment, CancelDemoOrder, RefundDemoOrder,
     ApproveSettlementBatch, dealVars
<1>4. CASE UNCHANGED demoVars
  BY <1>1, <1>4 DEF demoVars, dealVars
<1> QED
  BY <1>2, <1>3, <1>4 DEF DemoNext

(* At most the last offer is open, and every contract carries an accepted   *)
(* offer of its own, through any number of negotiations (store.ts:1264).    *)
THEOREM OneOfferIsOpen == DemoSpec => []OneOfferOpen
BY DealInvInit, DealInvNext, PTL DEF DemoSpec, DealInv

\* Every accrual is one of the universe, out of a refund's reach once it is in
\* a batch, or one of an order the visitor paid, which no batch reaches.
InStep(a) == a.status \in IF a.batch = 0 THEN {"ACCRUED", "SETTLEMENT_ELIGIBLE"}
                          ELSE {"SETTLEMENT_LOCKED", "PAID"}

SaleShape ==
    /\ orders \in [Orders -> OrderType]
    /\ accruals \subseteq AccrualType
    /\ Len(batches) \in Nat /\ \E S : batches \in Seq(S)
    /\ \A a \in accruals :
          /\ a.seeded => a.order \in Seeds /\ InStep(a)
          /\ ~a.seeded => a.order \notin PaidSeeds /\ a.batch = 0 /\ a.status = "ACCRUED"
          /\ a.batch <= Len(batches)
    /\ \A o \in PaidSeeds : orders[o].status \in {"COMPLETED", "REFUNDED"}

\* The royalty of an order the visitor placed.
NewRoyalties ==
    \A o \in NewOrders :
        Of(o) = IF orders[o].status = "COMPLETED" THEN {Accrual(o, "ACCRUED", 0, FALSE)} ELSE {}

\* An order that was pending when the session began has been refunded.
StrangeRefund == \E o \in Seeds \ PaidSeeds : orders[o].status = "REFUNDED"

Keys(set) == {[order |-> a.order, seeded |-> a.seeded] : a \in set}
Locked(b) == {a \in accruals : a.batch = b}

\* No order of the batch was taken out of the universe.
Whole(b) == \A o \in Gone : Carrier[o] # b

BatchesAddUp == \A b \in DOMAIN batches : Whole(b) => batches[b] = SumFunction([k \in Keys(Locked(b)) |-> 1])

SaleInv == SaleShape /\ NewRoyalties /\ (StrangeRefund \/ BatchesAddUp)

\* The royalties of the universe are worth one each, whatever their orders are now.
LEMMA SeededWorth ==
    ASSUME NEW set \in SUBSET AccrualType, \A a \in set : a.seeded
    PROVE  Worth(set) = SumFunction([k \in Keys(set) |-> 1])
<1>1. \A k \in Keys(set) : k.seeded = TRUE
  BY DEF Keys, AccrualType
<1>2. [k \in Keys(set) |-> IF k.seeded THEN 1 ELSE orders[k.order].units] = [k \in Keys(set) |-> 1]
  BY <1>1
<1> QED
  BY <1>2 DEF Worth, Keys

LEMMA SaleInvBooks == SaleInv => BooksOfTheDemo
<1> SUFFICES ASSUME SaleInv PROVE BooksOfTheDemo
  OBVIOUS
<1>1. \A o \in NewOrders : Cardinality(Of(o)) = IF orders[o].status = "COMPLETED" THEN 1 ELSE 0
  BY FS_EmptySet, FS_Singleton DEF SaleInv, NewRoyalties
<1>2. ASSUME ~StrangeRefund, NEW b \in DOMAIN batches, Whole(b)
      PROVE  batches[b] = Worth({a \in accruals : a.batch = b})
  <2>1. Locked(b) \in SUBSET AccrualType
    BY DEF SaleInv, SaleShape, Locked
  <2>2. b \in Nat /\ b # 0
    BY DEF SaleInv, SaleShape
  <2>3. \A a \in Locked(b) : a.seeded
    BY <2>2 DEF SaleInv, SaleShape, Locked, AccrualType
  <2>4. Worth(Locked(b)) = SumFunction([k \in Keys(Locked(b)) |-> 1])
    BY <2>1, <2>3, SeededWorth
  <2>5. batches[b] = SumFunction([k \in Keys(Locked(b)) |-> 1])
    BY <1>2 DEF SaleInv, BatchesAddUp
  <2> QED
    BY <2>4, <2>5 DEF Locked
<1>3. (\A o \in Seeds \ PaidSeeds : orders[o].status # "REFUNDED") <=> ~StrangeRefund
  BY DEF StrangeRefund
<1> QED
  BY <1>1, <1>2, <1>3 DEF BooksOfTheDemo, InBatch, Whole

LEMMA SaleInvInit == DemoInit => SaleInv
<1> SUFFICES ASSUME DemoInit PROVE SaleInv
  OBVIOUS
<1>0. /\ accruals = {a \in Universe : a.order \in Seeds}
      /\ batches = [b \in 1..Len(Runs) |-> Worth({a \in Universe : a.batch = b})]
      /\ Len(Runs) \in Nat
  BY UniverseAssumption DEF DemoInit
<1>1. ASSUME NEW o \in Seeds \cup Gone, NEW a, a = Accrual(o, SeedStatus(o), Carrier[o], TRUE)
      PROVE  /\ a.order = o /\ a.seeded = TRUE /\ a.batch = Carrier[o] /\ a.batch \in 0..Len(Runs)
             /\ InStep(a) /\ (o \in Seeds => a \in AccrualType)
  <2>1. PICK s : s = SeedStatus(o)
    OBVIOUS
  <2>2. Carrier[o] \in 0..Len(Runs) /\ Carrier[o] \in Nat
    BY UniverseAssumption, <1>0
  <2>3. s \in IF Carrier[o] = 0 THEN {"ACCRUED", "SETTLEMENT_ELIGIBLE"} ELSE {"SETTLEMENT_LOCKED", "PAID"}
    <3>1. CASE Carrier[o] = 0
      BY <2>1, <3>1 DEF SeedStatus
    <3>2. CASE Carrier[o] # 0
      <4>1. Carrier[o] \in DOMAIN Runs
        BY <2>2, <3>2, <1>0, UniverseAssumption
      <4> QED
        BY <2>1, <3>2, <4>1, UniverseAssumption DEF SeedStatus
    <3> QED
      BY <3>1, <3>2
  <2>4. a = Accrual(o, s, Carrier[o], TRUE)
    BY <1>1, <2>1
  <2>5. a.order = o /\ a.seeded = TRUE /\ a.batch = Carrier[o] /\ a.status = s
    BY <2>4 DEF Accrual
  <2>6. o \in Seeds => a \in AccrualType
    BY <2>2, <2>3, <2>4 DEF Accrual, AccrualType, Orders
  <2>7. InStep(a)
    BY <2>3, <2>5 DEF InStep
  <2> QED
    BY <2>2, <2>5, <2>6, <2>7
<1>2. \A o \in Orders : /\ o \in NewOrders => orders[o] = Absent
                        /\ o \notin NewOrders => orders[o] = [status |-> IF o \in PaidSeeds THEN "COMPLETED" ELSE "PENDING_PAYMENT",
                                                              units |-> 1]
  BY DEF DemoInit
<1>3. /\ orders \in [Orders -> OrderType]
      /\ \A o \in NewOrders : orders[o].status = "NONE"
      /\ \A o \in PaidSeeds : orders[o].status = "COMPLETED"
  <2>1. \A o \in Orders : /\ orders[o] \in OrderType
                          /\ o \in NewOrders => orders[o].status = "NONE"
                          /\ o \in PaidSeeds => orders[o].status = "COMPLETED"
    <3> SUFFICES ASSUME NEW o \in Orders
                 PROVE  /\ orders[o] \in OrderType
                        /\ o \in NewOrders => orders[o].status = "NONE"
                        /\ o \in PaidSeeds => orders[o].status = "COMPLETED"
      OBVIOUS
    <3>1. CASE o \in NewOrders
      <4>1. orders[o] = Absent /\ o \notin PaidSeeds
        BY <1>2, <3>1, DemoAssumption
      <4>2. Absent \in OrderType /\ Absent.status = "NONE"
        BY DEF OrderType, Absent
      <4> QED
        BY <4>1, <4>2
    <3>2. CASE o \notin NewOrders
      <4>1. PICK s \in {"COMPLETED", "PENDING_PAYMENT"} : s = IF o \in PaidSeeds THEN "COMPLETED" ELSE "PENDING_PAYMENT"
        OBVIOUS
      <4>2. orders[o] = [status |-> s, units |-> 1]
        BY <1>2, <3>2, <4>1
      <4> QED
        BY <3>2, <4>1, <4>2 DEF OrderType
    <3> QED
      BY <3>1, <3>2
  <2> QED
    BY <2>1, DemoAssumption DEF DemoInit, Orders
<1>4. accruals \subseteq AccrualType /\ \A a \in accruals : /\ a.seeded /\ a.order \in Seeds /\ InStep(a)
                                                          /\ a.batch <= Len(Runs)
  <2> SUFFICES ASSUME NEW a \in accruals
               PROVE  a \in AccrualType /\ a.seeded /\ a.order \in Seeds /\ InStep(a) /\ a.batch <= Len(Runs)
    OBVIOUS
  <2>1. PICK o \in Seeds \cup Gone : a = Accrual(o, SeedStatus(o), Carrier[o], TRUE)
    BY <1>0 DEF Universe
  <2>2. /\ a.order = o /\ a.seeded = TRUE /\ a.batch \in 0..Len(Runs) /\ InStep(a)
        /\ (o \in Seeds => a \in AccrualType)
    BY <1>1, <2>1
  <2>3. a.order \in Seeds
    BY <1>0
  <2> QED
    BY <1>0, <2>2, <2>3
<1>5. SaleShape
  <2>0. PICK W : W = [b \in 1..Len(Runs) |-> Worth({a \in Universe : a.batch = b})]
    OBVIOUS
  <2>1. PICK S : S = {W[b] : b \in 1..Len(Runs)}
    OBVIOUS
  <2>2. batches \in [1..Len(Runs) -> S]
    <3>1. batches = W
      BY <1>0, <2>0
    <3>2. W \in [1..Len(Runs) -> S]
      <4>1. W = [b \in 1..Len(Runs) |-> W[b]]
        BY <2>0
      <4> QED
        BY <2>1, <4>1
    <3> QED
      BY <3>1, <3>2
  <2>3. batches \in Seq(S) /\ Len(batches) = Len(Runs)
    <3>1. PICK n \in Nat : n = Len(Runs)
      BY <1>0
    <3>2. batches \in [1..n -> S]
      BY <2>2, <3>1
    <3> QED
      BY <3>1, <3>2
  <2>4. \E T : batches \in Seq(T)
    BY <2>3
  <2> QED
    BY <1>0, <1>3, <1>4, <2>3, <2>4 DEF SaleShape
<1>6. NewRoyalties
  <2>1. \A o \in NewOrders : o \notin Seeds /\ orders[o].status # "COMPLETED"
    BY <1>3, DemoAssumption
  <2>2. \A o \in NewOrders : Of(o) = {}
    BY <1>4, <2>1 DEF Of
  <2> QED
    BY <2>1, <2>2 DEF NewRoyalties
<1>7. BatchesAddUp
  <2> SUFFICES ASSUME NEW b \in DOMAIN batches, Whole(b)
               PROVE  batches[b] = SumFunction([k \in Keys(Locked(b)) |-> 1])
    BY DEF BatchesAddUp
  <2>1. batches[b] = Worth({a \in Universe : a.batch = b})
    BY <1>0
  <2>2. \A a \in Universe : a.batch = b => a.order \in Seeds
    <3> SUFFICES ASSUME NEW a \in Universe, a.batch = b PROVE a.order \in Seeds
      OBVIOUS
    <3>1. PICK o \in Seeds \cup Gone : a = Accrual(o, SeedStatus(o), Carrier[o], TRUE)
      BY DEF Universe
    <3>2. a.order = o /\ Carrier[o] = b
      BY <1>1, <3>1
    <3> QED
      BY <3>2 DEF Whole
  <2>3. {a \in Universe : a.batch = b} = Locked(b)
    BY <1>0, <2>2 DEF Locked
  <2>4. Locked(b) \in SUBSET AccrualType /\ \A a \in Locked(b) : a.seeded
    BY <1>4 DEF Locked
  <2> QED
    BY <2>1, <2>3, <2>4, SeededWorth
<1> QED
  BY <1>5, <1>6, <1>7 DEF SaleInv

\* An order of the visitor that is not paid, placed or cancelled: no royalty moves.
LEMMA UnpaidStep ==
    ASSUME SaleInv, NEW o \in Orders, NEW w \in OrderType,
           orders[o].status \in {"NONE", "PENDING_PAYMENT"}, w.status \in {"NONE", "PENDING_PAYMENT"},
           orders' = [orders EXCEPT ![o] = w], UNCHANGED <<accruals, batches>>
    PROVE  SaleInv'
<1>0. SaleShape /\ NewRoyalties /\ orders \in [Orders -> OrderType] /\ PaidSeeds \subseteq Orders /\ NewOrders \subseteq Orders
  BY DemoAssumption DEF SaleInv, SaleShape, Orders
<1>1. SaleShape'
  BY <1>0 DEF SaleShape
<1>2. NewRoyalties'
  <2> SUFFICES ASSUME NEW q \in NewOrders
               PROVE  Of(q)' = IF orders'[q].status = "COMPLETED" THEN {Accrual(q, "ACCRUED", 0, FALSE)} ELSE {}
    BY DEF NewRoyalties
  <2>1. Of(q)' = Of(q)
    BY DEF Of
  <2>2. orders'[q].status = "COMPLETED" <=> orders[q].status = "COMPLETED"
    BY <1>0
  <2> QED
    BY <1>0, <2>1, <2>2 DEF NewRoyalties
<1>3. (StrangeRefund \/ BatchesAddUp)'
  <2>1. StrangeRefund => StrangeRefund'
    BY <1>0 DEF StrangeRefund, Orders
  <2>2. BatchesAddUp => BatchesAddUp'
    BY DEF BatchesAddUp, Locked, Keys
  <2> QED
    BY <2>1, <2>2 DEF SaleInv
<1> QED
  BY <1>1, <1>2, <1>3 DEF SaleInv

LEMMA SimulateDemoPaymentStep ==
    ASSUME SaleInv, NEW o \in Orders, SimulateDemoPayment(o)
    PROVE  SaleInv'
<1>0. SaleShape /\ NewRoyalties /\ orders \in [Orders -> OrderType] /\ PaidSeeds \subseteq Orders /\ NewOrders \subseteq Orders
      /\ orders[o].status = "PENDING_PAYMENT"
  BY DemoAssumption DEF SaleInv, SaleShape, Orders, SimulateDemoPayment
<1>1. PICK w \in OrderType : orders' = [orders EXCEPT ![o] = w] /\ w.status = "COMPLETED"
  <2>1. /\ [orders[o] EXCEPT !.status = "COMPLETED"] \in OrderType
        /\ [orders[o] EXCEPT !.status = "COMPLETED"].status = "COMPLETED"
    BY <1>0 DEF OrderType
  <2> QED
    BY <2>1 DEF SimulateDemoPayment
<1>2. PICK a : a = Accrual(o, "ACCRUED", 0, FALSE)
  OBVIOUS
<1>3. a \in AccrualType /\ a.order = o /\ a.seeded = FALSE /\ a.batch = 0 /\ a.status = "ACCRUED"
  BY <1>2 DEF Accrual, AccrualType
<1>4. accruals' = accruals \cup {a} /\ UNCHANGED batches
  BY <1>2 DEF SimulateDemoPayment
<1>5. SaleShape'
  <2>1. o \notin PaidSeeds
    BY <1>0 DEF SaleShape
  <2> QED
    BY <1>0, <1>1, <1>3, <1>4, <2>1 DEF SaleShape
<1>6. NewRoyalties'
  <2> SUFFICES ASSUME NEW q \in NewOrders
               PROVE  Of(q)' = IF orders'[q].status = "COMPLETED" THEN {Accrual(q, "ACCRUED", 0, FALSE)} ELSE {}
    BY DEF NewRoyalties
  <2>1. CASE q = o
    <3>1. Of(q) = {}
      BY <1>0, <2>1 DEF NewRoyalties
    <3>2. Of(q)' = {a}
      BY <1>3, <1>4, <2>1, <3>1 DEF Of
    <3> QED
      BY <1>0, <1>1, <1>2, <2>1, <3>2
  <2>2. CASE q # o
    <3>1. Of(q)' = Of(q)
      BY <1>3, <1>4, <2>2 DEF Of
    <3>2. orders'[q] = orders[q]
      BY <1>0, <1>1, <2>2
    <3> QED
      BY <1>0, <3>1, <3>2 DEF NewRoyalties
  <2> QED
    BY <2>1, <2>2
<1>7. (StrangeRefund \/ BatchesAddUp)'
  <2>1. StrangeRefund => StrangeRefund'
    BY <1>0, <1>1 DEF StrangeRefund, Orders
  <2>2. BatchesAddUp => BatchesAddUp'
    <3>1. \A b \in DOMAIN batches : b # 0
      BY <1>0 DEF SaleShape
    <3>2. \A b \in DOMAIN batches : Locked(b)' = Locked(b)
      BY <1>3, <1>4, <3>1 DEF Locked
    <3> QED
      BY <1>4, <3>2 DEF BatchesAddUp, Keys
  <2> QED
    BY <2>1, <2>2 DEF SaleInv
<1> QED
  BY <1>5, <1>6, <1>7 DEF SaleInv

LEMMA RefundDemoOrderStep ==
    ASSUME SaleInv, NEW o \in Orders, RefundDemoOrder(o)
    PROVE  SaleInv'
<1>0. SaleShape /\ NewRoyalties /\ orders \in [Orders -> OrderType] /\ PaidSeeds \subseteq Orders /\ NewOrders \subseteq Orders
      /\ orders[o].status = "COMPLETED" /\ accruals \subseteq AccrualType
  BY DemoAssumption DEF SaleInv, SaleShape, Orders, RefundDemoOrder
<1>1. PICK w \in OrderType : orders' = [orders EXCEPT ![o] = w] /\ w.status = "REFUNDED"
  <2>1. /\ [orders[o] EXCEPT !.status = "REFUNDED"] \in OrderType
        /\ [orders[o] EXCEPT !.status = "REFUNDED"].status = "REFUNDED"
    BY <1>0 DEF OrderType
  <2> QED
    BY <2>1 DEF RefundDemoOrder
<1>2. accruals' = {a \in accruals : a.order # o} /\ UNCHANGED batches
  BY DEF RefundDemoOrder, Of
<1>3. SaleShape'
  BY <1>0, <1>1, <1>2 DEF SaleShape
<1>4. NewRoyalties'
  <2> SUFFICES ASSUME NEW q \in NewOrders
               PROVE  Of(q)' = IF orders'[q].status = "COMPLETED" THEN {Accrual(q, "ACCRUED", 0, FALSE)} ELSE {}
    BY DEF NewRoyalties
  <2>1. CASE q = o
    <3>1. Of(q)' = {}
      BY <1>2, <2>1 DEF Of
    <3> QED
      BY <1>0, <1>1, <2>1, <3>1
  <2>2. CASE q # o
    <3>1. Of(q)' = Of(q)
      BY <1>2, <2>2 DEF Of
    <3>2. orders'[q] = orders[q]
      BY <1>0, <1>1, <2>2
    <3> QED
      BY <1>0, <3>1, <3>2 DEF NewRoyalties
  <2> QED
    BY <2>1, <2>2
<1>5. (StrangeRefund \/ BatchesAddUp)'
  <2>1. StrangeRefund => StrangeRefund'
    BY <1>0, <1>1 DEF StrangeRefund, Orders
  <2>2. CASE o \in Seeds \ PaidSeeds
    BY <1>0, <1>1, <2>2 DEF StrangeRefund
  <2>3. CASE BatchesAddUp /\ o \notin Seeds \ PaidSeeds
    <3>1. ASSUME NEW a \in Of(o) PROVE a.batch = 0
      <4>1. a \in accruals /\ a.order = o /\ a \in AccrualType
        BY <1>0, <3>1 DEF Of
      <4>2. CASE o \in PaidSeeds
        <5>1. \A x \in Of(o) : x.seeded
          BY <1>0, <4>2 DEF SaleShape, Of
        <5>2. Newest(o) = Of(o)
          BY <5>1 DEF Newest
        <5>3. a.status \notin {"SETTLEMENT_LOCKED", "PAID"}
          BY <3>1, <5>2 DEF RefundDemoOrder
        <5>4. InStep(a)
          BY <1>0, <3>1, <4>1, <5>1 DEF SaleShape
        <5> QED
          BY <5>3, <5>4 DEF InStep
      <4>3. CASE o \in NewOrders
        <5>1. o \notin Seeds
          BY <4>3, DemoAssumption
        <5> QED
          BY <1>0, <4>1, <5>1 DEF SaleShape
      <4> QED
        BY <2>3, <4>2, <4>3 DEF Orders
    <3>2. \A b \in DOMAIN batches : b # 0
      BY <1>0 DEF SaleShape
    <3>3. \A b \in DOMAIN batches : Locked(b)' = Locked(b)
      BY <1>2, <3>1, <3>2 DEF Locked, Of
    <3> QED
      BY <1>2, <2>3, <3>3 DEF BatchesAddUp, Keys
  <2> QED
    BY <2>1, <2>2, <2>3 DEF SaleInv
<1> QED
  BY <1>3, <1>4, <1>5 DEF SaleInv

\* A batch locks what it is worth.
LEMMA ApproveSettlementBatchStep ==
    ASSUME SaleInv, NEW c \in Creators, ApproveSettlementBatch(c)
    PROVE  SaleInv'
<1>0. SaleShape /\ NewRoyalties /\ accruals \subseteq AccrualType /\ Len(batches) \in Nat
  BY DEF SaleInv, SaleShape
<1>1. PICK S : batches \in Seq(S)
  BY <1>0 DEF SaleShape
<1>2. PICK b \in Nat : b = Len(batches) + 1
  BY <1>0
<1>3. PICK v : v = Worth(Eligible(c))
  OBVIOUS
<1>4. /\ \E T : batches' \in Seq(T)
      /\ Len(batches') = b /\ DOMAIN batches' = DOMAIN batches \cup {b} /\ b \notin DOMAIN batches
      /\ batches'[b] = v /\ \A k \in DOMAIN batches : batches'[k] = batches[k]
  <2>1. batches' = Append(batches, v) /\ batches \in Seq(S \cup {v})
    <3>1. batches \in [1..Len(batches) -> S \cup {v}]
      BY <1>1
    <3> QED
      BY <1>0, <1>3, <3>1 DEF ApproveSettlementBatch
  <2> QED
    BY <1>2, <2>1
<1>5. /\ \A a \in Eligible(c) : a \in accruals /\ a \in AccrualType /\ a.batch = 0 /\ a.seeded = TRUE /\ a.order \in Seeds
  BY <1>0 DEF SaleShape, Eligible, InStep, AccrualType
<1>6. \A a \in Eligible(c) : LET n == Accrual(a.order, "SETTLEMENT_LOCKED", b, a.seeded) IN
         /\ n \in AccrualType /\ n.order = a.order /\ n.seeded = TRUE /\ n.batch = b
         /\ n.status = "SETTLEMENT_LOCKED"
  BY <1>5 DEF Accrual, AccrualType
<1>7. accruals' = (accruals \ Eligible(c)) \cup {Accrual(a.order, "SETTLEMENT_LOCKED", b, a.seeded) : a \in Eligible(c)}
  BY <1>4 DEF ApproveSettlementBatch
<1>8. UNCHANGED orders
  BY DEF ApproveSettlementBatch
<1>9. SaleShape'
  <2>1. accruals' \subseteq AccrualType
    BY <1>0, <1>6, <1>7
  <2>2. ASSUME NEW a \in accruals'
        PROVE  /\ a.seeded => a.order \in Seeds /\ InStep(a)
               /\ ~a.seeded => a.order \notin PaidSeeds /\ a.batch = 0 /\ a.status = "ACCRUED"
               /\ a.batch <= b
    <3>1. CASE a \in accruals
      BY <1>0, <1>2, <3>1 DEF SaleShape, AccrualType
    <3>2. CASE a \notin accruals
      <4>1. PICK x \in Eligible(c) : a = Accrual(x.order, "SETTLEMENT_LOCKED", b, x.seeded)
        BY <1>7, <2>2, <3>2
      <4> QED
        BY <1>2, <1>5, <1>6, <4>1 DEF InStep
    <3> QED
      BY <3>1, <3>2
  <2> QED
    BY <1>0, <1>4, <1>8, <2>1, <2>2 DEF SaleShape
<1>10. NewRoyalties'
  <2> SUFFICES ASSUME NEW q \in NewOrders
               PROVE  Of(q)' = Of(q)
    BY <1>0, <1>8 DEF NewRoyalties
  <2>1. \A a \in Eligible(c) : a.order # q
    BY <1>5, DemoAssumption
  <2> QED
    BY <1>6, <1>7, <2>1 DEF Of
<1>11. (StrangeRefund \/ BatchesAddUp)'
  <2>1. StrangeRefund => StrangeRefund'
    BY <1>8 DEF StrangeRefund
  <2>2. BatchesAddUp => BatchesAddUp'
    <3>1. \A k \in DOMAIN batches : k # 0 /\ k # b
      BY <1>1, <1>4
    <3>2. \A k \in DOMAIN batches : Locked(k)' = Locked(k)
      BY <1>5, <1>6, <1>7, <3>1 DEF Locked
    <3>3. Keys(Locked(b)') = Keys(Eligible(c))
      <4>1. \A a \in accruals : a.batch # b
        BY <1>0, <1>2 DEF SaleShape, AccrualType
      <4>2. Locked(b)' = {Accrual(a.order, "SETTLEMENT_LOCKED", b, a.seeded) : a \in Eligible(c)}
        BY <1>6, <1>7, <4>1 DEF Locked
      <4>3. \A a \in Eligible(c) : /\ Accrual(a.order, "SETTLEMENT_LOCKED", b, a.seeded).order = a.order
                                /\ Accrual(a.order, "SETTLEMENT_LOCKED", b, a.seeded).seeded = a.seeded
        BY DEF Accrual
      <4> QED
        BY <4>2, <4>3 DEF Keys
    <3>4. v = SumFunction([k \in Keys(Eligible(c)) |-> 1])
      <4>1. Eligible(c) \in SUBSET AccrualType /\ \A a \in Eligible(c) : a.seeded
        BY <1>5
      <4> QED
        BY <1>3, <4>1, SeededWorth
    <3> QED
      BY <1>4, <3>2, <3>3, <3>4 DEF BatchesAddUp, Keys
  <2> QED
    BY <2>1, <2>2 DEF SaleInv
<1> QED
  BY <1>9, <1>10, <1>11 DEF SaleInv

LEMMA SaleInvNext == SaleInv /\ [DemoNext]_demoVars => SaleInv'
<1> SUFFICES ASSUME SaleInv, [DemoNext]_demoVars PROVE SaleInv'
  OBVIOUS
<1>1. CASE UNCHANGED saleVars
  BY <1>1 DEF saleVars, SaleInv, SaleShape, NewRoyalties, StrangeRefund, BatchesAddUp, Of, Locked, Keys
<1>2. CASE DealNext
  BY <1>1, <1>2 DEF DealNext, AddLabBatch, PrepareLaunch, ActivateLaunch, PauseProduct, ResumeProduct,
     DecideProduct, PapersExpire, SetLaunchGateItem, SendOffer, AcceptOffer, SignContract
<1>3. ASSUME NEW o \in NewOrders, NEW units \in 1..Price, PlaceOrder(o, units) PROVE SaleInv'
  <2>1. PICK w : w = [status |-> "PENDING_PAYMENT", units |-> units]
    OBVIOUS
  <2>2. w \in OrderType /\ w.status = "PENDING_PAYMENT"
    <3>1. units \in Int
      OBVIOUS
    <3> QED
      BY <2>1, <3>1 DEF OrderType
  <2>3. orders[o].status = "NONE" /\ o \in Orders
    BY <1>3 DEF PlaceOrder, Absent, Orders
  <2>4. orders' = [orders EXCEPT ![o] = w] /\ UNCHANGED <<accruals, batches>>
    BY <1>3, <2>1 DEF PlaceOrder
  <2> QED
    BY <2>2, <2>3, <2>4, UnpaidStep
<1>4. ASSUME NEW o \in Orders, CancelDemoOrder(o) PROVE SaleInv'
  <2>1. Absent \in OrderType /\ Absent.status = "NONE"
    BY DEF Absent, OrderType
  <2> QED
    BY <1>4, <2>1, UnpaidStep DEF CancelDemoOrder
<1>5. CASE SaleNext
  BY <1>3, <1>4, <1>5, SimulateDemoPaymentStep, RefundDemoOrderStep, ApproveSettlementBatchStep DEF SaleNext
<1> QED
  BY <1>1, <1>2, <1>5 DEF DemoNext, demoVars

(* What a demo shows of money adds up: an order the visitor placed has one  *)
(* royalty while it is paid and none otherwise, and a batch, one the        *)
(* universe comes with (demoUniverse.ts:545-566) or a new one, is worth the *)
(* royalties it carries, paid out or not, because a refund asks for both    *)
(* (store.ts:1549, 1584, 1588, 1652).  Left out are the batches that        *)
(* carried an order taken out again (demoUniverse.ts:632), and all of them  *)
(* once an order of the universe that was pending is paid and refunded.     *)
THEOREM DemoBooksAddUp == DemoSpec => []BooksOfTheDemo
BY SaleInvInit, SaleInvNext, SaleInvBooks, PTL DEF DemoSpec
=============================================================================
