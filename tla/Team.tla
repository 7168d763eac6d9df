-------------------------------- MODULE Team --------------------------------
(***************************************************************************)
(* The team of a host: colleagues join by a private link, the owner        *)
(* changes, suspends and removes them, moderation changes and suspends     *)
(* accounts, and every request is authenticated against all of it.         *)
(*                                                                         *)
(*   server/team.ts        invites, changes and removals by the owner      *)
(*   server/moderation.ts  roles and statuses set by the platform          *)
(*   server/auth.ts        accounts, sessions, what a request is served as *)
(*                                                                         *)
(* A handler reads, awaits and then writes what it decided: every read is  *)
(* a step of its own and a transaction is one step.  One host, whose owner *)
(* is not modelled as a person; a role outside TeamRoles is "CONSUMER".    *)
(* INVITED, which moderation may set too, is left out: like SUSPENDED it   *)
(* keeps an account out, but nothing keeps the owner from lifting it.      *)
(***************************************************************************)
EXTENDS Naturals, Sequences, FiniteSetsExt

CONSTANTS
    People,         \* the email addresses invited
    TeamRoles,
    MaxMembers,     \* MAX_MEMBERS, the owner included
    MaxInvites,     \* bound: links sent
    Slots           \* bound: calls in flight

VARIABLES
    account,    \* the row of users
    member,     \* the row of organization_memberships
    invites,    \* organization_invites, in order of creation
    sessions,   \* who has a session
    call        \* the handlers in flight, by slot

teamVars == <<account, member, invites, sessions, call>>

Roles == TeamRoles \cup {"CONSUMER"}
Statuses == {"ACTIVE", "SUSPENDED"}

NoAccount == [role |-> "NONE", ofHost |-> FALSE, status |-> "NONE"]
NoMember == [role |-> "NONE", status |-> "NONE"]
Idle == [op |-> "none"]

TeamInit ==
    /\ account  = [p \in People |-> NoAccount]
    /\ member   = [p \in People |-> NoMember]
    /\ invites  = <<>>
    /\ sessions = {}
    /\ call     = [n \in Slots |-> Idle]

At(n, op, step) == call[n].op = op /\ call[n].step = step
Begin(n, c) == call[n] = Idle /\ call' = [call EXCEPT ![n] = c]
Reach(n, step) == call' = [call EXCEPT ![n].step = step]
End(n) == call' = [call EXCEPT ![n] = Idle]

\* History: a request keeps the roles its user has held in the team meanwhile.
Held(m) == IF m.status = "ACTIVE" THEN {m.role} ELSE {}

Enrol(n, p, m) ==
    /\ member' = [member EXCEPT ![p] = m]
    /\ call' = [k \in Slots |->
                  IF k = n THEN Idle
                  ELSE IF call[k].op = "request" /\ call[k].person = p
                  THEN [call[k] EXCEPT !.held = @ \cup Held(m)]
                  ELSE call[k]]

-----------------------------------------------------------------------------
(* The links.                                                               *)

Open(i) == invites[i].state = "OPEN"
OfEmail(p) == {i \in DOMAIN invites : invites[i].email = p /\ Open(i)}
Members == {p \in People : member[p] # NoMember}
Pending == {i \in DOMAIN invites : Open(i) /\ invites[i].fresh}

\* POST /invites: the address is free, there is room, the older links of the
\* address are revoked, the new one is inserted; four statements on their own.
BeginInvite(n, p, role) ==
    /\ Len(invites) + Cardinality({k \in Slots : call[k].op = "invite"}) < MaxInvites
    /\ account[p] = NoAccount
    /\ Begin(n, [op |-> "invite", person |-> p, role |-> role, step |-> "count"])
    /\ UNCHANGED <<account, member, invites, sessions>>

CountTeam(n) ==
    /\ At(n, "invite", "count")
    /\ IF 1 + Cardinality(Members) + Cardinality(Pending) >= MaxMembers
       THEN End(n) ELSE Reach(n, "replace")
    /\ UNCHANGED <<account, member, invites, sessions>>

ReplaceInvites(n) ==
    /\ At(n, "invite", "replace")
    /\ invites' = [i \in DOMAIN invites |->
                     IF i \in OfEmail(call[n].person)
                     THEN [invites[i] EXCEPT !.state = "REVOKED"] ELSE invites[i]]
    /\ Reach(n, "insert")
    /\ UNCHANGED <<account, member, sessions>>

InsertInvite(n) ==
    /\ At(n, "invite", "insert")
    /\ invites' = Append(invites, [email |-> call[n].person, role |-> call[n].role,
                                   state |-> "OPEN", fresh |-> TRUE])
    /\ End(n)
    /\ UNCHANGED <<account, member, sessions>>

RevokeInvite(i) ==
    /\ invites[i].state # "ACCEPTED"
    /\ invites' = [invites EXCEPT ![i].state = "REVOKED"]
    /\ UNCHANGED <<account, member, sessions, call>>

\* Expiry matters while the link is open.
ExpireInvite(i) ==
    /\ Open(i)
    /\ invites' = [invites EXCEPT ![i].fresh = FALSE]
    /\ UNCHANGED <<account, member, sessions, call>>

\* POST /invites/accept: the link is valid, the address is free, then the
\* transaction uses the link up, creates the account and the membership.
BeginAccept(n, i) ==
    /\ i \in Pending
    /\ Begin(n, [op |-> "accept", link |-> i, step |-> "email"])
    /\ UNCHANGED <<account, member, invites, sessions>>

CheckEmail(n) ==
    /\ At(n, "accept", "email")
    /\ IF account[invites[call[n].link].email] = NoAccount THEN Reach(n, "join") ELSE End(n)
    /\ UNCHANGED <<account, member, invites, sessions>>

\* Mutant of UseUp: the link is used up outside the transaction.
UseUpAnyway(i, joined) == [invites EXCEPT ![i].state = "ACCEPTED"]

\* An address registered since makes the insert of the account fail, and with
\* it the transaction: the link is not used up.
UseUp(i, joined) == IF joined THEN [invites EXCEPT ![i].state = "ACCEPTED"] ELSE invites

AcceptInvite(n) ==
    LET i == call[n].link
        p == invites[i].email
        joined == Open(i) /\ account[p] = NoAccount
    IN
    /\ At(n, "accept", "join")
    /\ invites' = IF Open(i) THEN UseUp(i, joined) ELSE invites
    /\ IF joined
       THEN /\ account' = [account EXCEPT ![p] =
                             [role |-> invites[i].role, ofHost |-> TRUE, status |-> "ACTIVE"]]
            /\ Enrol(n, p, [role |-> invites[i].role, status |-> "ACTIVE"])
       ELSE End(n) /\ UNCHANGED <<account, member>>
    /\ UNCHANGED sessions

-----------------------------------------------------------------------------
(* The owner changes a member; what was read decides what is written.       *)

\* Mutant of AccountStatus: the membership's status is copied.
CopyStatus(was, status) == status

\* A suspension by the platform is not the owner's to lift: the account
\* stays suspended unless the membership was suspended too.
AccountStatus(was, status) ==
    IF was.account = "SUSPENDED" /\ was.member # "SUSPENDED" THEN "SUSPENDED" ELSE status

BeginChange(n, p, role, status) ==
    /\ p \in Members
    /\ Begin(n, [op |-> "change", person |-> p, role |-> role, status |-> status,
                 was |-> [account |-> account[p].status, member |-> member[p].status],
                 step |-> "write"])
    /\ UNCHANGED <<account, member, invites, sessions>>

ChangeMember(n) ==
    LET c == call[n]
        p == c.person
    IN
    /\ At(n, "change", "write")
    /\ IF p \in Members THEN Enrol(n, p, [role |-> c.role, status |-> c.status])
                        ELSE End(n) /\ UNCHANGED member
    /\ account' = IF account[p].ofHost
                  THEN [account EXCEPT ![p] = [role |-> c.role, ofHost |-> TRUE,
                                               status |-> AccountStatus(c.was, c.status)]]
                  ELSE account
    /\ sessions' = sessions \ {p}
    /\ UNCHANGED invites

BeginRemove(n, p) ==
    /\ p \in Members
    /\ Begin(n, [op |-> "remove", person |-> p, step |-> "write"])
    /\ UNCHANGED <<account, member, invites, sessions>>

RemoveMember(n) ==
    LET p == call[n].person IN
    /\ At(n, "remove", "write")
    /\ Enrol(n, p, NoMember)
    /\ account' = IF account[p].ofHost
                  THEN [account EXCEPT ![p] = [role |-> "CONSUMER", ofHost |-> FALSE,
                                               status |-> account[p].status]]
                  ELSE account
    /\ sessions' = sessions \ {p}
    /\ UNCHANGED invites

-----------------------------------------------------------------------------
(* Moderation changes the account and leaves the membership alone.          *)

BeginModerate(n, p, what, value) ==
    /\ account[p] # NoAccount
    /\ account[p][what] # value
    /\ Begin(n, [op |-> what, person |-> p, value |-> value, step |-> "write"])
    /\ UNCHANGED <<account, member, invites, sessions>>

SetRole(n) ==
    /\ At(n, "role", "write")
    /\ account' = [account EXCEPT ![call[n].person].role = call[n].value]
    /\ sessions' = sessions \ {call[n].person}
    /\ End(n)
    /\ UNCHANGED <<member, invites>>

SetStatus(n) ==
    /\ At(n, "status", "write")
    /\ account' = [account EXCEPT ![call[n].person].status = call[n].value]
    /\ sessions' = IF call[n].value = "ACTIVE" THEN sessions ELSE sessions \ {call[n].person}
    /\ End(n)
    /\ UNCHANGED <<member, invites>>

-----------------------------------------------------------------------------
(* Accounts, sessions and requests.                                         *)

\* A public registration takes the address: one transaction, then a session.
Register(p) ==
    /\ account[p] = NoAccount
    /\ account' = [account EXCEPT ![p] = [role |-> "CONSUMER", ofHost |-> FALSE, status |-> "ACTIVE"]]
    /\ sessions' = sessions \cup {p}
    /\ UNCHANGED <<member, invites, call>>

\* The account is read, the password checked, and the session created.
BeginLogin(n, p) ==
    /\ account[p].status = "ACTIVE"
    /\ Begin(n, [op |-> "login", person |-> p, step |-> "session"])
    /\ UNCHANGED <<account, member, invites, sessions>>

CreateSession(n) ==
    /\ At(n, "login", "session")
    /\ sessions' = sessions \cup {call[n].person}
    /\ End(n)
    /\ UNCHANGED <<account, member, invites>>

\* requireAuth reads the session with its user; the session of an account
\* that is not active is deleted.
BeginRequest(n, p) ==
    /\ p \in sessions
    /\ IF account[p].status = "ACTIVE"
       THEN /\ Begin(n, [op |-> "request", person |-> p, role |-> account[p].role,
                         ofHost |-> account[p].ofHost, held |-> Held(member[p]),
                         step |-> IF account[p].role \in TeamRoles THEN "verify" ELSE "served"])
            /\ UNCHANGED sessions
       ELSE sessions' = sessions \ {p} /\ UNCHANGED call
    /\ UNCHANGED <<account, member, invites>>

\* Mutant of Verified: the account's own columns are believed.
Believed(c, m) == c.ofHost

\* The role on the account is the role of an active membership, or else the
\* only active membership is looked up, written to the account and used.
Verified(c, m) == c.ofHost /\ m.status = "ACTIVE" /\ m.role = c.role

VerifyMembership(n) ==
    /\ At(n, "request", "verify")
    /\ Reach(n, IF Verified(call[n], member[call[n].person]) THEN "served" ELSE "lookup")
    /\ UNCHANGED <<account, member, invites, sessions>>

LookupMembership(n) ==
    LET m == member[call[n].person] IN
    /\ At(n, "request", "lookup")
    /\ call' = [call EXCEPT ![n] =
                   IF m.status = "ACTIVE"
                   THEN [@ EXCEPT !.role = m.role, !.ofHost = TRUE, !.step = "repair"]
                   ELSE [@ EXCEPT !.ofHost = FALSE, !.step = "served"]]
    /\ UNCHANGED <<account, member, invites, sessions>>

RepairAccount(n) ==
    LET c == call[n] IN
    /\ At(n, "request", "repair")
    /\ account' = [account EXCEPT ![c.person] = [role |-> c.role, ofHost |-> TRUE, status |-> @.status]]
    /\ Reach(n, "served")
    /\ UNCHANGED <<member, invites, sessions>>

EndRequest(n) ==
    /\ At(n, "request", "served")
    /\ End(n)
    /\ UNCHANGED <<account, member, invites, sessions>>

-----------------------------------------------------------------------------

OwnerNext(n) ==
    \/ \E p \in People, role \in TeamRoles :
          BeginInvite(n, p, role) \/ \E status \in Statuses : BeginChange(n, p, role, status)
    \/ \E p \in People : BeginRemove(n, p)
    \/ CountTeam(n) \/ ReplaceInvites(n) \/ InsertInvite(n)
    \/ ChangeMember(n) \/ RemoveMember(n)

InviteeNext(n) ==
    \/ \E i \in DOMAIN invites : BeginAccept(n, i)
    \/ CheckEmail(n) \/ AcceptInvite(n)

ModerationNext(n) ==
    \/ \E p \in People, role \in Roles : BeginModerate(n, p, "role", role)
    \/ \E p \in People, status \in Statuses : BeginModerate(n, p, "status", status)
    \/ SetRole(n) \/ SetStatus(n)

RequestNext(n) ==
    \/ \E p \in People : BeginLogin(n, p) \/ BeginRequest(n, p)
    \/ CreateSession(n)
    \/ VerifyMembership(n) \/ LookupMembership(n) \/ RepairAccount(n) \/ EndRequest(n)

TeamNext ==
    \/ \E n \in Slots : OwnerNext(n) \/ InviteeNext(n) \/ ModerationNext(n) \/ RequestNext(n)
    \/ \E i \in DOMAIN invites : RevokeInvite(i) \/ ExpireInvite(i)
    \/ \E p \in People : Register(p)

TeamSpec == TeamInit /\ [][TeamNext]_teamVars

-----------------------------------------------------------------------------
(* Properties.                                                              *)

\* A link makes one account and an account is made by one link at most:
\* however many links an address was sent, by whomever they are opened and
\* whoever registers the address meanwhile, a member has used up exactly one
\* link of the address, and a link is only used up by an account that exists
\* (team.ts:73, auth.ts:371 createUser).
Used(p) == {i \in DOMAIN invites : invites[i].email = p /\ invites[i].state = "ACCEPTED"}

OneLinkOneAccount ==
    \A p \in People :
        /\ Cardinality(Used(p)) <= 1
        /\ p \in Members => Used(p) # {}
        /\ Used(p) # {} => account[p] # NoAccount

\* Only moderation lifts a suspension it gave to a member the owner had not
\* suspended, except that an owner's change decided before the suspension
\* still writes what it read (team.ts:147).
LiftedBy(p, c) ==
    \/ c.op = "status" /\ c.person = p
    \/ c.op = "change" /\ c.person = p /\ (c.was.account # "SUSPENDED" \/ c.was.member = "SUSPENDED")

SuspensionHolds ==
    [][\A p \in People :
          account[p].status = "SUSPENDED" /\ account'[p].status = "ACTIVE"
            => \E n \in Slots : call'[n] # call[n] /\ LiftedBy(p, call[n])]_teamVars

\* A request is never served for the host with a role its user has not held
\* as an active member at some moment of that very request, whatever the
\* owner, moderation and the repair of other requests do to the account's
\* role and host meanwhile (auth.ts:618 requireAuth).
ServedAsMember ==
    \A n \in Slots :
        LET c == call[n] IN
        At(n, "request", "served") /\ c.ofHost /\ c.role \in TeamRoles => c.role \in c.held
=============================================================================
