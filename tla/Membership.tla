---------------------------- MODULE Membership ----------------------------
(***************************************************************************)
(* The internal team of one organization and its sessions.                 *)
(*                                                                         *)
(* A session is a signed cookie that carries the role of its user and a    *)
(* sessionVersion; nothing about it is stored.  A request is accepted when *)
(* the user's row is not archived and has the version of the cookie, and   *)
(* from then on the handler works with the role in the cookie.  A request  *)
(* authenticates, reads, and writes in separate statements, which          *)
(* interleave with those of other requests; a request may stop between any *)
(* two of them.                                                            *)
(***************************************************************************)
EXTENDS Integers, Sequences, FiniteSets

CONSTANTS
    Accounts,        \* Cognito accounts, each with one e-mail address
    Founder,         \* the account whose first login made the organization
    Clients,         \* browsers, each with at most one session cookie
    Requests,        \* requests that may be in flight at the same time
    MaxVersion,      \* bound: no sessionVersion rises above it
    MaxInvitations   \* bound on the invitations ever made

ASSUME FounderAssumption == Founder \in Accounts
ASSUME BoundsAssumption  == MaxVersion \in Nat \ {0} /\ MaxInvitations \in Nat

VARIABLES
    team,         \* the row of users of each account
    invitations,  \* INTERNAL_USER invitations, oldest first
    cookie,       \* the session cookie in each browser: none or one
    requests,     \* authenticated requests in flight
    signups       \* first logins in flight that accept an invitation

vars == <<team, invitations, cookie, requests, signups>>

-----------------------------------------------------------------------------
(* Data *)

Role       == {"OWNER", "ADMIN", "MEMBER"}
Version    == 1..MaxVersion
Operation  == {"LOGOUT", "ONBOARD", "CHANGE_ROLE", "REMOVE", "INVITE"}

\* cognitoUserId is unique and rows are never deleted: an account has no
\* row, is or was a member here, or has its row in another organization.
Row        == [status : {"none", "member", "removed", "elsewhere"}, role : Role,
               version : 0..MaxVersion, named : BOOLEAN]
Session    == [account : Accounts, role : Role, version : Version, named : BOOLEAN]
Invitation == [account : Accounts, role : Role, accepted : BOOLEAN, expired : BOOLEAN]
Request    == [id : Requests, client : Clients, op : Operation, actor : Accounts,
               role : Role, pc : {"authenticated", "loaded", "counted"},
               target : Accounts, old : Role, new : Role]
SignUp     == [id : Requests, client : Clients, account : Accounts,
               invitation : 1..MaxInvitations]

NoRow      == [status |-> "none", role |-> "MEMBER", version |-> 0, named |-> FALSE]
\* A faulty variant: versions start at zero.
NewRowAtZero(r) == [status |-> "member", role |-> r, version |-> 0, named |-> FALSE]

NewRow(r)  == [status |-> "member", role |-> r, version |-> 1, named |-> FALSE]

Member(a)  == team[a].status = "member"
Owners     == {a \in Accounts : Member(a) /\ team[a].role = "OWNER"}
InFlight   == {q.id : q \in requests \cup signups}

\* The session that is signed from a row, and its acceptance later.
SessionOf(a, row) == [account |-> a, role |-> row.role, version |-> row.version,
                      named |-> row.named]

\* A faulty variant: the version is not compared.
ValidMember(s) == Member(s.account)

Valid(s) == Member(s.account) /\ team[s.account].version = s.version

\* The Set-Cookie header of a response reaches browser c, or is lost.
SetCookie(c, sessions) == cookie' \in {cookie, [cookie EXCEPT ![c] = sessions]}

Leave(q)    == requests' = requests \ {q}
Become(q, r) == requests' = (requests \ {q}) \cup {r}

Init ==
    /\ team = [a \in Accounts |-> IF a = Founder THEN NewRow("OWNER") ELSE NoRow]
    /\ invitations = <<>>
    /\ cookie = [c \in Clients |-> {}]
    /\ requests = {} /\ signups = {}

-----------------------------------------------------------------------------
(* Logging in and signing up *)

\* The role and the version come from one read of the row.
LogIn(c, a) ==
    /\ Member(a)
    /\ cookie' = [cookie EXCEPT ![c] = {SessionOf(a, team[a])}]
    /\ UNCHANGED <<team, invitations, requests, signups>>

Pending(a) == {i \in DOMAIN invitations :
                 /\ invitations[i].account = a
                 /\ ~invitations[i].accepted /\ ~invitations[i].expired}

\* An account without an active row takes its newest pending invitation.  Who
\* is a reviewer of some project logs in without one and may send the token of
\* any of them along (acceptInvitationAfterSession); the answer has the session
\* of the reviewer then, which is none of those kept here: it is lost here.
FindInvitation(r, c, a) ==
    /\ r \notin InFlight
    /\ team[a].status \in {"none", "removed"}
    /\ \E i \in Pending(a) :
         signups' = signups \cup {[id |-> r, client |-> c, account |-> a, invitation |-> i]}
    /\ UNCHANGED <<team, invitations, cookie, requests>>

\* A faulty variant: an existing row is reused.
AcceptAgain(s) ==
    /\ signups' = signups \ {s}
    /\ invitations' = [invitations EXCEPT ![s.invitation].accepted = TRUE]
    /\ LET row == NewRow(invitations[s.invitation].role)
       IN  /\ team' = [team EXCEPT ![s.account] = row]
           /\ SetCookie(s.client, {SessionOf(s.account, row)})
    /\ UNCHANGED requests

\* One transaction creates the row, unless the account has one, and marks
\* the invitation, unless somebody has: otherwise it rolls back.  Whether it
\* has expired was checked before.
AcceptInvitation(s) ==
    /\ signups' = signups \ {s}
    /\ IF team[s.account].status = "none" /\ ~invitations[s.invitation].accepted
         THEN LET row == NewRow(invitations[s.invitation].role)
              IN  /\ team' = [team EXCEPT ![s.account] = row]
                  /\ invitations' = [invitations EXCEPT ![s.invitation].accepted = TRUE]
                  /\ SetCookie(s.client, {SessionOf(s.account, row)})
         ELSE UNCHANGED <<team, invitations, cookie>>
    /\ UNCHANGED requests

\* A first login that found no invitation makes an organization of its own, also
\* when one was made since: the unique index only asks that there is no row.
FoundOrganization(a) ==
    /\ team[a].status = "none"
    /\ team' = [team EXCEPT ![a].status = "elsewhere"]
    /\ UNCHANGED <<invitations, cookie, requests, signups>>

\* Seven days pass.
Expire(i) ==
    /\ invitations' = [invitations EXCEPT ![i].expired = TRUE]
    /\ UNCHANGED <<team, cookie, requests, signups>>

-----------------------------------------------------------------------------
(* Authenticated requests *)

\* The role-based rules and the onboarding guard, on the cookie alone.
Authorized(op, s) ==
    CASE op = "LOGOUT"               -> TRUE
      [] op = "ONBOARD"              -> ~s.named
      [] op = "CHANGE_ROLE"          -> s.named /\ s.role = "OWNER"
      [] op \in {"REMOVE", "INVITE"} -> s.named /\ s.role \in {"OWNER", "ADMIN"}

Authenticate(r, c) ==
    /\ r \notin InFlight
    /\ \E s \in cookie[c], op \in Operation, target \in Accounts, new \in Role :
         /\ Valid(s) /\ Authorized(op, s)
         /\ op \in {"LOGOUT", "ONBOARD"} => target = s.account
         /\ op \in {"LOGOUT", "ONBOARD", "REMOVE"} => new = s.role
         /\ requests' = requests \cup
              {[id |-> r, client |-> c, op |-> op, actor |-> s.account, role |-> s.role,
                pc |-> "authenticated", target |-> target, old |-> s.role, new |-> new]}
    /\ UNCHANGED <<team, invitations, cookie, signups>>

\* A user may be removed by an owner, and by an admin if it is a member.
MayRemove(role, target) == target.role \in {"OWNER", "ADMIN"} => role = "OWNER"

\* The row of the target is read, outside the transaction.
LoadTarget(q) ==
    /\ q.pc = "authenticated" /\ q.op \in {"CHANGE_ROLE", "REMOVE"}
    /\ IF Member(q.target) /\ (q.op = "REMOVE" => MayRemove(q.role, team[q.target]))
         THEN Become(q, [q EXCEPT !.pc = "loaded", !.old = team[q.target].role])
         ELSE Leave(q)
    /\ UNCHANGED <<team, invitations, cookie, signups>>

\* An owner who leaves counts the owners first.
CountsOwners(q) == q.op = "REMOVE" /\ q.old = "OWNER" /\ q.target = q.actor

CountOwners(q) ==
    /\ q.pc = "loaded" /\ CountsOwners(q)
    /\ IF Cardinality(Owners) > 1 THEN Become(q, [q EXCEPT !.pc = "counted"]) ELSE Leave(q)
    /\ UNCHANGED <<team, invitations, cookie, signups>>

\* The update has no condition on the role or on archivedAt.
RemoveUser(q) ==
    /\ q.op = "REMOVE" /\ q.pc = (IF CountsOwners(q) THEN "counted" ELSE "loaded")
    /\ team[q.target].version < MaxVersion
    /\ team' = [team EXCEPT ![q.target].status = "removed", ![q.target].version = @ + 1]
    /\ Leave(q)
    /\ UNCHANGED <<invitations, cookie, signups>>

\* The owners are counted with an aggregate FOR UPDATE, which PostgreSQL
\* refuses: no owner is ever demoted.
DemotionCounted(q) == ~(q.old = "OWNER" /\ q.new # "OWNER")

\* Faulty variants of the update's condition.
RoleUpdateOfMember(q) == Member(q.target)
RoleUpdateOfAnyRow(q) == team[q.target].role = q.old

\* UPDATE ... WHERE role = oldRole AND archivedAt IS NULL matches.
RoleUpdateMatches(q) == Member(q.target) /\ team[q.target].role = q.old

\* A faulty variant: the sessions keep the old role.
UpdateRoleOnly(q) ==
    /\ q.op = "CHANGE_ROLE" /\ q.pc = "loaded"
    /\ IF DemotionCounted(q) /\ RoleUpdateMatches(q)
         THEN team' = [team EXCEPT ![q.target].role = q.new]
         ELSE UNCHANGED team
    /\ Leave(q)
    /\ UNCHANGED <<invitations, cookie, signups>>

UpdateUserRole(q) ==
    /\ q.op = "CHANGE_ROLE" /\ q.pc = "loaded"
    /\ IF DemotionCounted(q) /\ RoleUpdateMatches(q)
         THEN /\ team[q.target].version < MaxVersion
              /\ team' = [team EXCEPT ![q.target].role = q.new, ![q.target].version = @ + 1]
         ELSE UNCHANGED team
    /\ Leave(q)
    /\ UNCHANGED <<invitations, cookie, signups>>

\* The address must not be that of an active user of any organization.
CheckInvitee(q) ==
    /\ q.pc = "authenticated" /\ q.op = "INVITE"
    /\ IF team[q.target].status \in {"member", "elsewhere"}
         THEN Leave(q)
         ELSE Become(q, [q EXCEPT !.pc = "loaded"])
    /\ UNCHANGED <<team, invitations, cookie, signups>>

CreateInvitation(q) ==
    /\ q.op = "INVITE" /\ q.pc = "loaded"
    /\ Len(invitations) < MaxInvitations
    /\ invitations' = Append(invitations, [account |-> q.target, role |-> q.new,
                                           accepted |-> FALSE, expired |-> FALSE])
    /\ Leave(q)
    /\ UNCHANGED <<team, cookie, signups>>

\* Logging out ends the sessions of the user in every browser.
LogOut(q) ==
    /\ q.op = "LOGOUT"
    /\ team[q.target].version < MaxVersion
    /\ team' = [team EXCEPT ![q.target].version = @ + 1]
    /\ SetCookie(q.client, {})
    /\ Leave(q)
    /\ UNCHANGED <<invitations, signups>>

\* The user gets a name and a new session, signed from the updated row.
CompleteOnboarding(q) ==
    /\ q.op = "ONBOARD"
    /\ team[q.target].version < MaxVersion
    /\ LET row == [team[q.target] EXCEPT !.named = TRUE, !.version = @ + 1]
       IN  /\ team' = [team EXCEPT ![q.target] = row]
           /\ SetCookie(q.client, {SessionOf(q.target, row)})
    /\ Leave(q)
    /\ UNCHANGED <<invitations, signups>>

\* A request fails or is cut off between two statements.
Abandon(r) ==
    /\ r \in InFlight
    /\ requests' = {q \in requests : q.id # r}
    /\ signups' = {s \in signups : s.id # r}
    /\ UNCHANGED <<team, invitations, cookie>>

-----------------------------------------------------------------------------
Next ==
    \/ \E c \in Clients, a \in Accounts : LogIn(c, a)
    \/ \E r \in Requests, c \in Clients, a \in Accounts : FindInvitation(r, c, a)
    \/ \E s \in signups : AcceptInvitation(s)
    \/ \E a \in Accounts : FoundOrganization(a)
    \/ \E i \in DOMAIN invitations : Expire(i)
    \/ \E r \in Requests, c \in Clients : Authenticate(r, c)
    \/ \E q \in requests : \/ LoadTarget(q) \/ CountOwners(q) \/ RemoveUser(q)
                           \/ UpdateUserRole(q) \/ CheckInvitee(q) \/ CreateInvitation(q)
                           \/ LogOut(q) \/ CompleteOnboarding(q)
    \/ \E r \in Requests : Abandon(r)

Spec == Init /\ [][Next]_vars

-----------------------------------------------------------------------------
(* Properties *)

\* Rows, invitations, cookies and requests have the types of their columns
\* and fields.
TypeOK ==
    /\ team \in [Accounts -> Row]
    /\ \A a \in Accounts : team[a].version > 0 <=> team[a].status \in {"member", "removed"}
    /\ invitations \in Seq(Invitation) /\ Len(invitations) <= MaxInvitations
    /\ cookie \in [Clients -> SUBSET Session]
    /\ requests \subseteq Request
    /\ signups \subseteq SignUp

Sessions == UNION {cookie[c] : c \in Clients}

\* A session with the current version tells the truth: nobody is accepted
\* with a role, or an onboarding status, that the row does not have.
SessionsStayFresh ==
    \A s \in Sessions :
        LET row == team[s.account]
        IN  /\ s.version <= row.version
            /\ s.version = row.version => s.role = row.role /\ s.named = row.named

\* A session that was revoked - by a logout, a change of role, a removal, a
\* completed onboarding - is never accepted again.
RevocationIsFinal ==
    [][\A s \in Sessions : ~Valid(s) => ~Valid(s)']_vars

\* Everyone but the founder came by one invitation, and an invitation lets
\* one account in, however many were pending and whoever races with them.
OneInvitationPerMember ==
    \A a \in Accounts :
        Cardinality({i \in DOMAIN invitations : invitations[i].accepted
                                                /\ invitations[i].account = a})
          = IF a # Founder /\ team[a].status \in {"member", "removed"} THEN 1 ELSE 0

\* Removal is final: no request that was under way gives a removed user
\* another role or a place in the team.
RemovalIsFinal ==
    [][\A a \in Accounts : team[a].status = "removed" =>
         team'[a].status = "removed" /\ team'[a].role = team[a].role]_vars

\* A change of role never takes the last owner away, also when the role it
\* read is no longer the one it changes.
OwnersAreNotDemotedAway ==
    [][Owners # {} /\ Owners' = {} =>
         \E a \in Owners : team'[a].status = "removed"]_vars

\* The sessions that would be accepted, and what they say.
InForce(c) == {[account |-> s.account, role |-> s.role, named |-> s.named] :
                  s \in {t \in cookie[c] : Valid(t)}}
Person(a) == [status |-> team[a].status, role |-> team[a].role, named |-> team[a].named]

\* Cookies that nobody keeps track of behave like a table of sessions on the server,
\* from which every change of a row deletes the sessions of its user.
Table == INSTANCE SessionTable WITH
            Roles <- Role, Founders <- {Founder},
            people <- [a \in Accounts |-> Person(a)],
            table <- [c \in Clients |-> InForce(c)]
ImplementsSessionTable == Table!Spec

\* "Cannot remove the last OWNER from the organization": there is always an
\* owner.
AnOwnerRemains == Owners # {}

=============================================================================
