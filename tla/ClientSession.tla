---------------------------- MODULE ClientSession ----------------------------
(***************************************************************************)
(* Who the browser is signed in as, and whose data it shows.  Every tab    *)
(* keeps an identity, the token that goes with its session and the data    *)
(* loaded so far; the cookie that carries the session is shared by all     *)
(* tabs, and the answers of the server arrive in any order, also after     *)
(* the account has changed.                                                *)
(*                                                                         *)
(*   src/lib/store.ts       the identity, its generation, what is loaded   *)
(*   src/App.tsx            restore, login, logout, an expired session     *)
(*   src/lib/authClient.ts  the token a tab sends with what it changes     *)
(*   server/auth.ts         the check of that token                        *)
(*                                                                         *)
(* A session is its number in the order of logins.  What is shown is kept  *)
(* as items: what was asked for, whose data came, and in which generation  *)
(* and with which session and token it was asked.                          *)
(***************************************************************************)
EXTENDS Naturals, Sequences

CONSTANTS
    Accounts,
    Admins,         \* those of them that manage accounts; the others create
    Tabs,
    NoOne,          \* the anonymous user
    MaxSessions,    \* bound: logins
    MaxCalls        \* bound: calls in flight

ASSUME AccountsAssumption == Admins \subseteq Accounts /\ NoOne \notin Accounts

VARIABLES
    logins,     \* the account of every session there has been
    ended,      \* those over: logged out, expired, revoked by the server
    cookie,     \* the session in the browser's cookie jar, 0 for none
    tabs,
    calls,      \* requests in flight
    performed   \* history: changes the server made, for whom and asked by whom

sessionVars == <<logins, ended, cookie, tabs, calls, performed>>

Closed == [me |-> NoOne, token |-> 0, generation |-> 0, status |-> "LOADING", shown |-> {}]

SessionInit ==
    /\ logins   = <<>>
    /\ ended    = {}
    /\ cookie   = 0
    /\ tabs     = [t \in Tabs |-> Closed]
    /\ calls    = {}
    /\ performed = {}

\* The session a request goes with, 0 when the server will answer 401.
Carried(jar) == IF jar \in ended THEN 0 ELSE jar

\* A request notes the identity it is made under.
Call(t, tab, kind, login, jar) ==
    [tab |-> t, kind |-> kind, login |-> login, user |-> tab.me,
     generation |-> tab.generation, token |-> tab.token, session |-> Carried(jar)]

-----------------------------------------------------------------------------
(* The identity of a tab.                                                   *)

\* setAuthenticatedUser: the data goes before the new identity is shown.
As(tab, account, n) ==
    [me |-> account, token |-> n, generation |-> tab.generation + 1,
     status |-> tab.status, shown |-> {}]

\* clearAuthenticatedUser; what App sets beside it.
Cleared(tab) ==
    [me |-> NoOne, token |-> tab.token, generation |-> tab.generation + 1,
     status |-> "ANONYMOUS", shown |-> {}]

\* Signed in: the first data is asked for, and the tab counts as authenticated
\* when that call is over, whatever came of it.
SignIn(t, account, n) ==
    LET tab == As(tabs[t], account, n) IN
    /\ tabs' = [tabs EXCEPT ![t] = tab]
    /\ calls' = calls \cup {Call(t, tab, "hydrate", TRUE, n)}

\* A tab is opened, or loaded anew: its memory and its calls are gone.
Reload(t) ==
    /\ tabs' = [tabs EXCEPT ![t] = Closed]
    /\ calls' = {c \in calls : c.tab # t}
    /\ UNCHANGED <<logins, ended, cookie, performed>>

Restore(t) ==
    /\ tabs[t].status = "LOADING" /\ tabs[t].me = NoOne
    /\ IF Carried(cookie) # 0
       THEN SignIn(t, logins[cookie], cookie)
       ELSE tabs' = [tabs EXCEPT ![t] = Cleared(@)] /\ UNCHANGED calls
    /\ UNCHANGED <<logins, ended, cookie, performed>>

\* Login, registration or a new password: a session of its own, in the jar.
Login(t, a) ==
    /\ tabs[t].status = "ANONYMOUS"
    /\ Len(logins) < MaxSessions
    /\ logins' = Append(logins, a)
    /\ cookie' = Len(logins')
    /\ SignIn(t, a, cookie')
    /\ UNCHANGED <<ended, performed>>

\* Faulty variant: the cookie alone is believed.
BelieveCookie(token, session) == session # 0

\* requireCsrf: the token is derived from the session the cookie carries.
RequireCsrf(token, session) == session # 0 /\ token = session

\* The tab forgets the account also when the server refused or was not
\* reached; the cookie and the session go only when it agreed.
Logout(t) ==
    /\ tabs[t].status = "AUTHENTICATED"
    /\ \/ /\ RequireCsrf(tabs[t].token, Carried(cookie))
          /\ ended' = ended \cup {cookie} /\ cookie' = 0
          /\ tabs' = [tabs EXCEPT ![t] = [Cleared(@) EXCEPT !.token = 0]]
       \/ /\ tabs' = [tabs EXCEPT ![t] = Cleared(@)]
          /\ UNCHANGED <<ended, cookie>>
    /\ UNCHANGED <<logins, calls, performed>>

\* Expiry, suspension, a change of role, a password reset elsewhere.
EndSession(n) ==
    /\ n \notin ended
    /\ ended' = ended \cup {n}
    /\ UNCHANGED <<logins, cookie, tabs, calls, performed>>

-----------------------------------------------------------------------------
(* Calls and their answers.                                                 *)

\* What the surfaces offer: hydrateFromServer, and loadManageableUsers and
\* searchUsers to an administrator, submitNewProduct to a creator.
Offered(a) ==
    IF a = NoOne THEN {}
    ELSE {"hydrate"} \cup IF a \in Admins THEN {"users", "search"} ELSE {"submit"}

Ask(t, kind) ==
    /\ kind \in Offered(tabs[t].me)
    /\ calls' = calls \cup {Call(t, tabs[t], kind, FALSE, cookie)}
    /\ UNCHANGED <<logins, ended, cookie, tabs, performed>>

\* Faulty variant: an answer is for whoever is signed in.
AnyGeneration(tab, c) == TRUE

\* "A request started by the previous account is not allowed to mutate the
\* current account's browser model".
SameIdentity(tab, c) == tab.generation = c.generation /\ tab.me = c.user

Item(c) == [kind |-> c.kind, owner |-> logins[c.session], sent |-> c.generation,
            session |-> c.session, token |-> c.token]

Lists == {"users", "search"}

\* hydrateFromServer replaces the domain's collections, loadManageableUsers the
\* list of accounts; the accounts a search finds, and a product submitted, are
\* added to what there is.
Replaces(kind, i) ==
    \/ kind = "hydrate" /\ i.kind \notin Lists
    \/ kind = "users" /\ i.kind \in Lists

\* The first two do nothing after the identity changed, the others do not ask.
Shown(tab, c) ==
    IF c.kind \in {"search", "submit"} \/ SameIdentity(tab, c)
    THEN {i \in tab.shown : ~Replaces(c.kind, i)} \cup {Item(c)}
    ELSE tab.shown

Filled(tab, c) == [tab EXCEPT !.shown = Shown(tab, c)]

\* The continuation of a login ends with setAuthStatus.
Settled(tab, c) == IF c.login THEN [tab EXCEPT !.status = "AUTHENTICATED"] ELSE tab

\* What it changes the server does only with the token of the session.
Allowed(c) == c.session # 0 /\ (c.kind = "submit" => RequireCsrf(c.token, c.session))

Answer(c) ==
    /\ Allowed(c)
    /\ calls' = calls \ {c}
    /\ tabs' = [tabs EXCEPT ![c.tab] = Settled(Filled(@, c), c)]
    /\ performed' = IF c.kind = "submit"
                    THEN performed \cup {[by |-> logins[c.session], asked |-> c.user]}
                    ELSE performed
    /\ UNCHANGED <<logins, ended, cookie>>

\* 401: the session is over.  The event reaches the tab whichever session the
\* call was made under, and is ignored until the tab counts as authenticated.
Unauthorized(c) ==
    /\ c.session = 0 \/ c.session \in ended
    /\ calls' = calls \ {c}
    /\ tabs' = [tabs EXCEPT ![c.tab] =
                   Settled(IF @.status = "AUTHENTICATED" THEN Cleared(@) ELSE @, c)]
    /\ UNCHANGED <<logins, ended, cookie, performed>>

\* Refused, failed or never answered: hydrateFromServer returns false and
\* serverMutation shows a notice.
Fails(c) ==
    /\ calls' = calls \ {c}
    /\ tabs' = [tabs EXCEPT ![c.tab] = Settled(@, c)]
    /\ UNCHANGED <<logins, ended, cookie, performed>>

SessionNext ==
    \/ \E t \in Tabs : \/ Reload(t) \/ Restore(t) \/ Logout(t)
                       \/ \E a \in Accounts : Login(t, a)
                       \/ \E kind \in {"hydrate", "users", "search", "submit"} : Ask(t, kind)
    \/ \E n \in DOMAIN logins : EndSession(n)
    \/ \E c \in calls : Answer(c) \/ Unauthorized(c) \/ Fails(c)

SessionSpec == SessionInit /\ [][SessionNext]_sessionVars

-----------------------------------------------------------------------------
(* Properties.                                                              *)

\* "A late response from a previous account is discarded instead of hydrating
\* the next account with stale data" (store.ts:120).  Data of another
\* account is under this one in two cases only: it came late to a search or a
\* submission, which do not look at the generation, or the call went out with
\* the session another tab had put in the cookie jar.
ForeignDataExplained ==
    \A t \in Tabs : \A i \in tabs[t].shown :
        i.owner # tabs[t].me =>
            \/ i.kind \in {"search", "submit"} /\ i.sent # tabs[t].generation
            \/ i.session # i.token

\* What the server changes at a tab's request it changes for the account that
\* tab was showing when it asked, however the cookie changed under it.
ActsAsItself == \A p \in performed : p.by = p.asked
=============================================================================
