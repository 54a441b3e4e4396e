------------------------- MODULE Membership_proofs -------------------------
(***************************************************************************)
(* Proofs about Membership, for any set of accounts, browsers and requests *)
(* and any bounds.                                                         *)
(***************************************************************************)
EXTENDS Membership, FiniteSetTheorems, TLAPS

USE DEF vars, Leave, Become, Version

Joined(a) == team[a].status \in {"member", "removed"}

\* What the requests in flight rely on: a user who acted has a row here, and
\* so has a user who is changed or removed; a signup knows its invitation.
InFlightOK ==
    /\ \A q \in requests :
         /\ Joined(q.actor)
         /\ q.op \in {"LOGOUT", "ONBOARD"} => q.target = q.actor
         /\ q.op \in {"CHANGE_ROLE", "REMOVE"} /\ q.pc # "authenticated" => Joined(q.target)
    /\ \A s \in signups : /\ s.invitation \in DOMAIN invitations
                          /\ invitations[s.invitation].account = s.account

\* The invariant of the sessions.
SessionInv == TypeOK /\ InFlightOK /\ SessionsStayFresh

-----------------------------------------------------------------------------
(* What a step may do to a row *)

\* The three ways in which a row changes: an account without a row gets one
\* elsewhere, or one here, and a row here takes its next version.
Appears(r, s) == r.status = "none" /\ s = [r EXCEPT !.status = "elsewhere"]
Joins(r, s)   == r.status = "none" /\ \E role \in Role : s = NewRow(role)
Advances(r, s) ==
    /\ r.status \in {"member", "removed"}
    /\ s \in Row
    /\ s.version = r.version + 1
    /\ s.status = "removed" \/ s.status = r.status
    /\ r.status = "removed" => s.status = "removed" /\ s.role = r.role
    /\ r.role = "OWNER" => s.role = "OWNER"
    /\ r.named => s.named
RowStep(r, s) == Appears(r, s) \/ Joins(r, s) \/ Advances(r, s)

\* A step changes one row, in one of these ways, or none.
TeamStep ==
    \/ team' = team
    \/ \E a \in Accounts : \E row : team' = [team EXCEPT ![a] = row] /\ RowStep(team[a], row)

\* A removal, a logout, an onboarding and a change of role advance a row.
LEMMA Advancing ==
    ASSUME NEW r \in Row, r.status \in {"member", "removed"}, r.version < MaxVersion
    PROVE  /\ Advances(r, [r EXCEPT !.status = "removed", !.version = @ + 1])
           /\ Advances(r, [r EXCEPT !.version = @ + 1])
           /\ Advances(r, [r EXCEPT !.named = TRUE, !.version = @ + 1])
           /\ \A role \in Role : r.status = "member" /\ (r.role = "OWNER" => role = "OWNER") =>
                 Advances(r, [r EXCEPT !.role = role, !.version = @ + 1])
<1>1. r.version + 1 \in 0..MaxVersion
  BY BoundsAssumption DEF Row
<1> QED BY <1>1 DEF Advances, Row

\* The rows that the steps write are rows.
LEMMA RowStepTypes ==
    ASSUME NEW r \in Row, NEW s, RowStep(r, s)
    PROVE  s \in Row
<1>1. CASE Appears(r, s)  BY <1>1 DEF Appears, Row
<1>2. CASE Joins(r, s)    BY <1>2, BoundsAssumption DEF Joins, NewRow, Row
<1>3. CASE Advances(r, s) BY <1>3 DEF Advances
<1> QED BY <1>1, <1>2, <1>3 DEF RowStep

\* The fields of the requests, the signups and the invitations in a state.
LEMMA Fields ==
    ASSUME TypeOK
    PROVE  /\ \A a \in Accounts : team[a] \in Row
           /\ \A q \in requests : q.target \in Accounts /\ q.new \in Role
           /\ \A s \in signups : s.account \in Accounts
           /\ \A i \in DOMAIN invitations : invitations[i] \in Invitation
  BY DEF TypeOK, Request, SignUp

\* A request that changes a row lets it take its next version, and at most
\* replaces the cookie of its browser by one of that row.
LEMMA RowChanges ==
    ASSUME TypeOK, InFlightOK, NEW q \in requests,
           RemoveUser(q) \/ UpdateUserRole(q) \/ LogOut(q) \/ CompleteOnboarding(q)
    PROVE  \/ UNCHANGED <<team, cookie>>
           \/ \E row :
                /\ team' = [team EXCEPT ![q.target] = row]
                /\ Advances(team[q.target], row)
                /\ \/ cookie' = cookie
                   \/ cookie' = [cookie EXCEPT ![q.client] = {}]
                   \/ cookie' = [cookie EXCEPT ![q.client] = {SessionOf(q.target, row)}]
<1> DEFINE Goal == \/ UNCHANGED <<team, cookie>>
                   \/ \E row :
                        /\ team' = [team EXCEPT ![q.target] = row]
                        /\ Advances(team[q.target], row)
                        /\ \/ cookie' = cookie
                           \/ cookie' = [cookie EXCEPT ![q.client] = {}]
                           \/ cookie' = [cookie EXCEPT ![q.client] =
                                            {SessionOf(q.target, row)}]
<1>1. CASE RemoveUser(q)
  <2> DEFINE row == [team[q.target] EXCEPT !.status = "removed", !.version = @ + 1]
  <2>1. Joined(q.target)
    BY <1>1 DEF RemoveUser, InFlightOK
  <2>2. team' = [team EXCEPT ![q.target] = row] /\ cookie' = cookie
    BY <1>1, Fields DEF RemoveUser, TypeOK
  <2>3. Advances(team[q.target], row)
    BY <1>1, <2>1, Fields, Advancing DEF RemoveUser, Joined
  <2> HIDE DEF row
  <2> QED BY <2>2, <2>3
<1>2. CASE UpdateUserRole(q)
  <2> DEFINE row == [team[q.target] EXCEPT !.role = q.new, !.version = @ + 1]
  <2>1. cookie' = cookie
    BY <1>2 DEF UpdateUserRole
  <2>2. CASE UNCHANGED team
    BY <2>1, <2>2
  <2>3. CASE ~UNCHANGED team
    <3>1. /\ Member(q.target) /\ team[q.target].version < MaxVersion
          /\ team[q.target].role = "OWNER" => q.new = "OWNER"
          /\ team' = [team EXCEPT ![q.target].role = q.new, ![q.target].version = @ + 1]
      BY <1>2, <2>3 DEF UpdateUserRole, RoleUpdateMatches, DemotionCounted
    <3>2. team' = [team EXCEPT ![q.target] = row]
      BY <3>1, Fields DEF TypeOK
    <3>3. Advances(team[q.target], row)
      BY <3>1, Fields, Advancing DEF Member
    <3> HIDE DEF row
    <3> QED BY <2>1, <3>2, <3>3
  <2> QED BY <2>2, <2>3
<1>3. CASE LogOut(q)
  <2> DEFINE row == [team[q.target] EXCEPT !.version = @ + 1]
  <2>1. Joined(q.target)
    BY <1>3 DEF LogOut, InFlightOK
  <2>2. /\ team' = [team EXCEPT ![q.target] = row]
        /\ cookie' = cookie \/ cookie' = [cookie EXCEPT ![q.client] = {}]
    BY <1>3, Fields DEF LogOut, SetCookie, TypeOK
  <2>3. Advances(team[q.target], row)
    BY <1>3, <2>1, Fields, Advancing DEF LogOut, Joined
  <2> HIDE DEF row
  <2> QED BY <2>2, <2>3
<1>4. CASE CompleteOnboarding(q)
  <2> DEFINE row == [team[q.target] EXCEPT !.named = TRUE, !.version = @ + 1]
  <2>1. Joined(q.target)
    BY <1>4 DEF CompleteOnboarding, InFlightOK
  <2>2. /\ team' = [team EXCEPT ![q.target] = row]
        /\ \/ cookie' = cookie
           \/ cookie' = [cookie EXCEPT ![q.client] = {SessionOf(q.target, row)}]
    BY <1>4 DEF CompleteOnboarding, SetCookie
  <2>3. Advances(team[q.target], row)
    BY <1>4, <2>1, Fields, Advancing DEF CompleteOnboarding, Joined
  <2> HIDE DEF row
  <2> QED BY <2>2, <2>3
<1> QED BY <1>1, <1>2, <1>3, <1>4

\* Every step of the specification is a step of the rows.
LEMMA TeamSteps ==
    ASSUME TypeOK, InFlightOK, [Next]_vars
    PROVE  TeamStep
<1>1. ASSUME NEW s \in signups, AcceptInvitation(s)  PROVE TeamStep
  <2>1. invitations[s.invitation].role \in Role
    BY Fields DEF InFlightOK, Invitation
  <2>2. CASE /\ team[s.account].status = "none"
             /\ team' = [team EXCEPT ![s.account] = NewRow(invitations[s.invitation].role)]
    <3>1. RowStep(team[s.account], NewRow(invitations[s.invitation].role))
      BY <2>1, <2>2 DEF RowStep, Joins
    <3> QED BY <2>2, <3>1, Fields DEF TeamStep
  <2> QED BY <1>1, <2>2 DEF AcceptInvitation, TeamStep
<1>2. ASSUME NEW a \in Accounts, FoundOrganization(a)  PROVE TeamStep
  <2>1. team' = [team EXCEPT ![a] = [team[a] EXCEPT !.status = "elsewhere"]]
    BY <1>2 DEF FoundOrganization
  <2>2. RowStep(team[a], [team[a] EXCEPT !.status = "elsewhere"])
    BY <1>2 DEF FoundOrganization, RowStep, Appears
  <2> QED BY <2>1, <2>2 DEF TeamStep
<1>3. ASSUME NEW q \in requests,
             RemoveUser(q) \/ UpdateUserRole(q) \/ LogOut(q) \/ CompleteOnboarding(q)
      PROVE  TeamStep
  BY <1>3, RowChanges, Fields DEF TeamStep, RowStep
<1>4. CASE UNCHANGED team
  BY <1>4 DEF TeamStep
<1> QED
  BY <1>1, <1>2, <1>3, <1>4
     DEF Next, LogIn, FindInvitation, Expire, Authenticate, LoadTarget, CountOwners,
         CheckInvitee, CreateInvitation, Abandon

\* The rows stay rows, accounts that joined stay joined, and no version falls.
LEMMA RowsGrow ==
    ASSUME TypeOK, TeamStep
    PROVE  /\ team' \in [Accounts -> Row]
           /\ \A a \in Accounts :
                /\ team'[a].version > 0 <=> Joined(a)'
                /\ Joined(a) => Joined(a)'
                /\ team[a].version <= team'[a].version
                /\ team'[a] = team[a] \/ RowStep(team[a], team'[a])
<1>1. CASE team' = team
  BY <1>1 DEF TypeOK, Joined, Row
<1>2. ASSUME NEW a \in Accounts, NEW row, team' = [team EXCEPT ![a] = row],
             RowStep(team[a], row)
      PROVE  /\ team' \in [Accounts -> Row]
             /\ \A b \in Accounts :
                  /\ team'[b].version > 0 <=> Joined(b)'
                  /\ Joined(b) => Joined(b)'
                  /\ team[b].version <= team'[b].version
                  /\ team'[b] = team[b] \/ RowStep(team[b], team'[b])
  <2>1. row \in Row
    BY <1>2, Fields, RowStepTypes
  <2>2. team' \in [Accounts -> Row]
    BY <1>2, <2>1 DEF TypeOK
  <2>3. /\ row.version > 0 <=> row.status \in {"member", "removed"}
        /\ Joined(a) => row.status \in {"member", "removed"}
        /\ team[a].version <= row.version
    <3>1. CASE Appears(team[a], row)
      BY <3>1 DEF Appears, Joined, TypeOK, Row
    <3>2. CASE Joins(team[a], row)
      <4>1. PICK role \in Role : row = NewRow(role)
        BY <3>2 DEF Joins
      <4>2. row.status = "member" /\ row.version = 1
        BY <4>1 DEF NewRow
      <4>3. team[a].version = 0 /\ ~Joined(a)
        BY <3>2 DEF Joins, Joined, TypeOK, Row
      <4> QED BY <4>2, <4>3
    <3>3. CASE Advances(team[a], row)
      BY <3>3 DEF Advances, Joined, TypeOK, Row
    <3> QED BY <1>2, <3>1, <3>2, <3>3 DEF RowStep
  <2> QED BY <1>2, <2>2, <2>3 DEF TypeOK, Joined, Row
<1> QED BY <1>1, <1>2 DEF TeamStep

-----------------------------------------------------------------------------
(* What a step may do to the cookies, the requests and the invitations *)

\* A cookie that is new was signed from a row of a user as the step left it.
NewCookie(s) == \E a \in Accounts : Joined(a)' /\ s = SessionOf(a, team'[a])

LEMMA CookieSteps ==
    ASSUME TypeOK, InFlightOK, [Next]_vars, TeamStep
    PROVE  /\ cookie' \in [Clients -> SUBSET Session]
           /\ \A c \in Clients : \A s \in cookie'[c] : s \in cookie[c] \/ NewCookie(s)
<1> DEFINE Goal == /\ cookie' \in [Clients -> SUBSET Session]
                   /\ \A c \in Clients : \A s \in cookie'[c] : s \in cookie[c] \/ NewCookie(s)
<1>1. ASSUME NEW c \in Clients, NEW a \in Accounts, Joined(a)',
             \/ cookie' = cookie
             \/ cookie' = [cookie EXCEPT ![c] = {SessionOf(a, team'[a])}]
      PROVE  Goal
  <2>1. SessionOf(a, team'[a]) \in Session
    BY <1>1, RowsGrow DEF SessionOf, Session, Row
  <2>2. NewCookie(SessionOf(a, team'[a]))
    BY <1>1 DEF NewCookie
  <2> QED BY <1>1, <2>1, <2>2 DEF TypeOK
<1>2. CASE cookie' = cookie
  BY <1>2 DEF TypeOK
<1>3. ASSUME NEW c \in Clients, NEW a \in Accounts, LogIn(c, a)  PROVE Goal
  <2>1. Joined(a)' /\ cookie' = [cookie EXCEPT ![c] = {SessionOf(a, team'[a])}]
    BY <1>3 DEF LogIn, Member, Joined
  <2> QED BY <1>1, <2>1
<1>4. ASSUME NEW s \in signups, AcceptInvitation(s), cookie' # cookie  PROVE Goal
  <2>1. s.client \in Clients /\ s.account \in Accounts
    BY DEF TypeOK, SignUp
  <2>2. /\ team' = [team EXCEPT ![s.account] = NewRow(invitations[s.invitation].role)]
        /\ cookie' = [cookie EXCEPT ![s.client] =
                        {SessionOf(s.account, NewRow(invitations[s.invitation].role))}]
    BY <1>4 DEF AcceptInvitation, SetCookie
  <2>3. team'[s.account] = NewRow(invitations[s.invitation].role)
    BY <2>1, <2>2 DEF TypeOK
  <2>4. Joined(s.account)'
    BY <2>3 DEF Joined, NewRow
  <2> QED BY <1>1, <2>1, <2>2, <2>3, <2>4
<1>5. ASSUME NEW q \in requests, LogOut(q)  PROVE Goal
  <2>1. q.client \in Clients
    BY DEF TypeOK, Request
  <2> QED BY <1>5, <2>1 DEF LogOut, SetCookie, TypeOK
<1>6. ASSUME NEW q \in requests, CompleteOnboarding(q)  PROVE Goal
  <2> DEFINE row == [team[q.target] EXCEPT !.named = TRUE, !.version = @ + 1]
  <2>1. q.client \in Clients /\ q.target \in Accounts /\ Joined(q.target)
    BY <1>6 DEF CompleteOnboarding, InFlightOK, TypeOK, Request
  <2>2. /\ team' = [team EXCEPT ![q.target] = row]
        /\ \/ cookie' = cookie
           \/ cookie' = [cookie EXCEPT ![q.client] = {SessionOf(q.target, row)}]
    BY <1>6 DEF CompleteOnboarding, SetCookie
  <2>3. team'[q.target] = row
    BY <2>1, <2>2 DEF TypeOK
  <2>4. Joined(q.target)'
    BY <2>1, RowsGrow
  <2> HIDE DEF row
  <2> QED BY <1>1, <2>1, <2>2, <2>3, <2>4
<1> QED
  BY <1>2, <1>3, <1>4, <1>5, <1>6
     DEF Next, FindInvitation, FoundOrganization, Expire, Authenticate, LoadTarget,
         CountOwners, RemoveUser, UpdateUserRole, CheckInvitee, CreateInvitation, Abandon

\* A request that is new was authenticated by a cookie, or is one that moved
\* on, with the same fields, after reading the row that it is to change.
Authenticated(q) ==
    /\ \E c \in Clients : \E s \in cookie[c] : Valid(s) /\ q.actor = s.account
    /\ q.op \in {"LOGOUT", "ONBOARD"} => q.target = q.actor
    /\ q.pc = "authenticated"
MovedOn(q) ==
    \E p \in requests :
        /\ q.actor = p.actor /\ q.op = p.op /\ q.target = p.target
        /\ q.op \in {"CHANGE_ROLE", "REMOVE"} => Member(q.target) \/ p.pc # "authenticated"

LEMMA RequestSteps ==
    ASSUME TypeOK, [Next]_vars
    PROVE  \A q \in requests' :
             \/ q \in requests
             \/ /\ UNCHANGED <<team, invitations, signups>>
                /\ q \in Request
                /\ Authenticated(q) \/ MovedOn(q)
<1> DEFINE Goal == \A q \in requests' :
             \/ q \in requests
             \/ /\ UNCHANGED <<team, invitations, signups>>
                /\ q \in Request
                /\ Authenticated(q) \/ MovedOn(q)
<1>1. CASE requests' \subseteq requests
  BY <1>1
<1>2. ASSUME NEW r \in Requests, NEW c \in Clients, Authenticate(r, c)  PROVE Goal
  <2>1. PICK s \in cookie[c], op \in Operation, target \in Accounts, new \in Role :
          /\ Valid(s)
          /\ op \in {"LOGOUT", "ONBOARD"} => target = s.account
          /\ requests' = requests \cup
               {[id |-> r, client |-> c, op |-> op, actor |-> s.account, role |-> s.role,
                 pc |-> "authenticated", target |-> target, old |-> s.role, new |-> new]}
    BY <1>2 DEF Authenticate
  <2>2. s.account \in Accounts /\ s.role \in Role
    BY DEF TypeOK, Session
  <2>3. [id |-> r, client |-> c, op |-> op, actor |-> s.account, role |-> s.role,
         pc |-> "authenticated", target |-> target, old |-> s.role, new |-> new] \in Request
    BY <2>2 DEF Request
  <2> QED BY <1>2, <2>1, <2>3 DEF Authenticate, Authenticated
<1>3. ASSUME NEW p \in requests, LoadTarget(p)  PROVE Goal
  <2>1. team[p.target].role \in Role
    BY Fields DEF Row
  <2>2. [p EXCEPT !.pc = "loaded", !.old = team[p.target].role] \in Request
    BY <2>1 DEF TypeOK, Request
  <2>3. p \in Request
    BY DEF TypeOK
  <2>4. Member(p.target) => MovedOn([p EXCEPT !.pc = "loaded", !.old = team[p.target].role])
    BY <2>3 DEF MovedOn, Request
  <2> QED BY <1>3, <2>2, <2>4 DEF LoadTarget
<1>4. ASSUME NEW p \in requests, CountOwners(p)  PROVE Goal
  <2>1. [p EXCEPT !.pc = "counted"] \in Request
    BY DEF TypeOK, Request
  <2>2. p.pc # "authenticated" => MovedOn([p EXCEPT !.pc = "counted"])
    BY DEF MovedOn, TypeOK, Request
  <2> QED BY <1>4, <2>1, <2>2 DEF CountOwners
<1>5. ASSUME NEW p \in requests, CheckInvitee(p)  PROVE Goal
  <2>1. [p EXCEPT !.pc = "loaded"] \in Request
    BY DEF TypeOK, Request
  <2>2. p.op = "INVITE" => MovedOn([p EXCEPT !.pc = "loaded"])
    BY DEF MovedOn, TypeOK, Request
  <2> QED BY <1>5, <2>1, <2>2 DEF CheckInvitee
<1> QED
  BY <1>1, <1>2, <1>3, <1>4, <1>5
     DEF Next, LogIn, FindInvitation, AcceptInvitation, FoundOrganization, Expire,
         RemoveUser, UpdateUserRole, CreateInvitation, LogOut, CompleteOnboarding, Abandon

\* Invitations are only added, and keep their account; signups know theirs.
LEMMA InvitationSteps ==
    ASSUME TypeOK, InFlightOK, [Next]_vars
    PROVE  /\ invitations' \in Seq(Invitation) /\ Len(invitations') <= MaxInvitations
           /\ Len(invitations) <= Len(invitations')
           /\ \A i \in DOMAIN invitations :
                invitations'[i].account = invitations[i].account
           /\ signups' \subseteq SignUp
           /\ \A s \in signups' : /\ s.invitation \in DOMAIN invitations
                                  /\ invitations[s.invitation].account = s.account
<1> DEFINE Invites == /\ invitations' \in Seq(Invitation) /\ Len(invitations') <= MaxInvitations
                      /\ Len(invitations) <= Len(invitations')
                      /\ \A i \in DOMAIN invitations :
                           invitations'[i].account = invitations[i].account
           Signs   == /\ signups' \subseteq SignUp
                      /\ \A s \in signups' : /\ s.invitation \in DOMAIN invitations
                                             /\ invitations[s.invitation].account = s.account
<1>1. ASSUME UNCHANGED invitations  PROVE Invites
  BY <1>1 DEF TypeOK
<1>2. ASSUME NEW s \in signups, AcceptInvitation(s)  PROVE Invites
  <2>1. s.invitation \in DOMAIN invitations
    BY DEF InFlightOK
  <2>2. [invitations[s.invitation] EXCEPT !.accepted = TRUE] \in Invitation
    BY <2>1, Fields DEF Invitation
  <2> QED BY <1>2, <2>1, <2>2 DEF AcceptInvitation, TypeOK, Invitation
<1>3. ASSUME NEW i \in DOMAIN invitations, Expire(i)  PROVE Invites
  <2>1. [invitations[i] EXCEPT !.expired = TRUE] \in Invitation
    BY Fields DEF Invitation
  <2> QED BY <1>3, <2>1 DEF Expire, TypeOK, Invitation
<1>4. ASSUME NEW q \in requests, CreateInvitation(q)  PROVE Invites
  <2>1. [account |-> q.target, role |-> q.new, accepted |-> FALSE, expired |-> FALSE]
          \in Invitation
    BY Fields DEF Invitation
  <2> QED BY <1>4, <2>1, BoundsAssumption DEF CreateInvitation, TypeOK
<1>5. ASSUME signups' \subseteq signups  PROVE Signs
  BY <1>5 DEF TypeOK, InFlightOK
<1>6. ASSUME NEW r \in Requests, NEW c \in Clients, NEW a \in Accounts,
             FindInvitation(r, c, a)
      PROVE  Signs
  <2>1. PICK i \in Pending(a) :
          signups' = signups \cup {[id |-> r, client |-> c, account |-> a, invitation |-> i]}
    BY <1>6 DEF FindInvitation
  <2>2. i \in DOMAIN invitations /\ invitations[i].account = a
    BY DEF Pending
  <2>3. i \in 1..MaxInvitations
    BY <2>2, BoundsAssumption DEF TypeOK
  <2>4. [id |-> r, client |-> c, account |-> a, invitation |-> i] \in SignUp
    BY <2>3 DEF SignUp
  <2> QED BY <2>1, <2>2, <2>4 DEF TypeOK, InFlightOK
<1>7. Invites
  BY <1>1, <1>2, <1>3, <1>4
     DEF Next, LogIn, FindInvitation, FoundOrganization, Authenticate, LoadTarget,
         CountOwners, RemoveUser, UpdateUserRole, CheckInvitee, LogOut,
         CompleteOnboarding, Abandon
<1>8. Signs
  BY <1>5, <1>6
     DEF Next, LogIn, AcceptInvitation, FoundOrganization, Expire, Authenticate,
         LoadTarget, CountOwners, RemoveUser, UpdateUserRole, CheckInvitee,
         CreateInvitation, LogOut, CompleteOnboarding, Abandon
<1> QED BY <1>7, <1>8

-----------------------------------------------------------------------------
(* The invariant of the sessions *)

LEMMA InitialSessions == Init => SessionInv
<1> SUFFICES ASSUME Init PROVE SessionInv
  OBVIOUS
<1>1. NewRow("OWNER") \in Row /\ NoRow \in Row
  BY BoundsAssumption DEF NewRow, NoRow, Row, Role
<1>2. TypeOK
  BY <1>1, BoundsAssumption DEF Init, TypeOK, NewRow, NoRow
<1>3. InFlightOK
  BY DEF Init, InFlightOK
<1>4. SessionsStayFresh
  BY DEF Init, SessionsStayFresh, Sessions
<1> QED BY <1>2, <1>3, <1>4 DEF SessionInv

\* A cookie says what its row says, or an older version of it.
Fresh(s, row) ==
    /\ s.version <= row.version
    /\ s.version = row.version => s.role = row.role /\ s.named = row.named

LEMMA NextSessions ==
    ASSUME SessionInv, [Next]_vars
    PROVE  SessionInv'
<1>1. TypeOK /\ InFlightOK /\ TeamStep
  BY TeamSteps DEF SessionInv
<1>2. TypeOK'
  <2>1. requests' \subseteq Request
    BY <1>1, RequestSteps DEF TypeOK
  <2> QED BY <1>1, <2>1, RowsGrow, CookieSteps, InvitationSteps DEF TypeOK, Joined
<1>3. ASSUME NEW s \in Session, s \in Sessions
      PROVE  /\ s.account \in Accounts
             /\ Joined(s.account)
             /\ Fresh(s, team'[s.account])
  <2>1. s.account \in Accounts /\ s.version \in Nat /\ s.version > 0
    BY BoundsAssumption DEF Session
  <2>2. Fresh(s, team[s.account])
    BY <1>3 DEF SessionInv, SessionsStayFresh, Fresh
  <2>3. team[s.account] \in Row /\ team'[s.account] \in Row
    BY <1>1, <2>1, RowsGrow DEF TypeOK
  <2>4. Joined(s.account)
    BY <1>1, <2>1, <2>2, <2>3 DEF Fresh, TypeOK, Joined, Row
  <2>5. team'[s.account] = team[s.account]
        \/ team'[s.account].version = team[s.account].version + 1
    BY <1>1, <2>1, <2>4, RowsGrow DEF RowStep, Appears, Joins, Advances, Joined
  <2> QED BY <2>1, <2>2, <2>3, <2>4, <2>5 DEF Fresh, Row
<1>4. SessionsStayFresh'
  <2> SUFFICES ASSUME NEW c \in Clients, NEW s \in cookie'[c]
               PROVE  Fresh(s, team'[s.account])
    BY DEF SessionsStayFresh, Sessions, Fresh
  <2>1. CASE s \in cookie[c]
    BY <1>1, <1>3, <2>1 DEF TypeOK, Sessions
  <2>2. CASE NewCookie(s)
    BY <1>1, <2>2, RowsGrow DEF NewCookie, SessionOf, Fresh, Row
  <2> QED BY <1>1, <2>1, <2>2, CookieSteps
<1>5. InFlightOK'
  <2>1. ASSUME NEW q \in requests'
        PROVE  /\ Joined(q.actor)'
               /\ q.op \in {"LOGOUT", "ONBOARD"} => q.target = q.actor
               /\ q.op \in {"CHANGE_ROLE", "REMOVE"} /\ q.pc # "authenticated"
                    => Joined(q.target)'
    <3>1. CASE q \in requests
      <4>1. q.actor \in Accounts /\ q.target \in Accounts
        BY <1>1, <3>1 DEF TypeOK, Request
      <4> QED BY <1>1, <3>1, <4>1, RowsGrow DEF InFlightOK
    <3>2. CASE UNCHANGED team /\ Authenticated(q)
      BY <3>2 DEF Authenticated, Valid, Member, Joined
    <3>3. CASE UNCHANGED team /\ MovedOn(q)
      BY <1>1, <3>3 DEF MovedOn, InFlightOK, Member, Joined
    <3> QED BY <1>1, <3>1, <3>2, <3>3, RequestSteps
  <2>2. ASSUME NEW s \in signups'
        PROVE  s.invitation \in DOMAIN invitations'
               /\ invitations'[s.invitation].account = s.account
    BY <1>1, InvitationSteps DEF TypeOK
  <2> QED BY <2>1, <2>2 DEF InFlightOK
<1> QED BY <1>2, <1>4, <1>5 DEF SessionInv

\* Rows, invitations, cookies and requests keep the types of their columns.
THEOREM TypeCorrect == Spec => []TypeOK
<1>1. SessionInv => TypeOK
  BY DEF SessionInv
<1> QED BY <1>1, InitialSessions, NextSessions, PTL DEF Spec

\* verifyInternalUserSession compares versions only: that is enough for a
\* session never to be accepted with a role its user does not have.
THEOREM Freshness == Spec => []SessionsStayFresh
<1>1. SessionInv => SessionsStayFresh
  BY DEF SessionInv
<1> QED BY <1>1, InitialSessions, NextSessions, PTL DEF Spec

\* A session that was revoked is never accepted again: the version of its
\* row only grows, and a removed user stays removed.
THEOREM RevocationFinal == Spec => RevocationIsFinal
<1>1. ASSUME SessionInv, [Next]_vars
      PROVE  \A s \in Sessions : ~Valid(s) => ~Valid(s)'
  <2> SUFFICES ASSUME NEW s \in Sessions, ~Valid(s), Valid(s)'
               PROVE  FALSE
    OBVIOUS
  <2>1. TypeOK /\ TeamStep
    BY <1>1, TeamSteps DEF SessionInv
  <2>2. s \in Session
    BY <2>1 DEF Sessions, TypeOK
  <2>3. s.account \in Accounts /\ s.version \in Nat /\ s.version > 0
    BY <2>2, BoundsAssumption DEF Session
  <2>4. s.version <= team[s.account].version
    BY <1>1 DEF SessionInv, SessionsStayFresh
  <2>5. /\ team[s.account] \in Row
        /\ team[s.account].version > 0 <=> Joined(s.account)
    BY <2>1, <2>3 DEF TypeOK, Joined
  <2>6. Joined(s.account)
    BY <2>3, <2>4, <2>5 DEF Row
  <2>7. Advances(team[s.account], team'[s.account])
    BY <2>1, <2>3, <2>6, RowsGrow DEF RowStep, Appears, Joins, Joined, Valid, Member
  <2>8. team[s.account].status = "member" /\ team'[s.account].version = s.version
    BY <2>6, <2>7 DEF Advances, Joined, Valid, Member
  <2> QED BY <2>3, <2>4, <2>5, <2>7, <2>8 DEF Advances, Row
<1> QED BY <1>1, InitialSessions, NextSessions, PTL DEF Spec, RevocationIsFinal

\* A removed user stays removed, with the role it had: the update of a role
\* asks for archivedAt = null, and an account has one row for good.
THEOREM RemovalFinal == Spec => RemovalIsFinal
<1>1. ASSUME SessionInv, [Next]_vars
      PROVE  \A a \in Accounts : team[a].status = "removed" =>
               team'[a].status = "removed" /\ team'[a].role = team[a].role
  <2>1. TypeOK /\ TeamStep
    BY <1>1, TeamSteps DEF SessionInv
  <2> QED BY <2>1, RowsGrow DEF RowStep, Appears, Joins, Advances
<1> QED BY <1>1, InitialSessions, NextSessions, PTL DEF Spec, RemovalIsFinal

\* Only a removal takes the last owner away: the update of a role asks for
\* the role that was read, so that a stale request cannot demote an owner.
THEOREM NoDemotionOfLastOwner == Spec => OwnersAreNotDemotedAway
<1>1. ASSUME SessionInv, [Next]_vars, Owners # {}, Owners' = {}
      PROVE  \E a \in Owners : team'[a].status = "removed"
  <2>1. TypeOK /\ TeamStep
    BY <1>1, TeamSteps DEF SessionInv
  <2>2. PICK a \in Owners : TRUE
    BY <1>1
  <2>3. a \in Accounts /\ team[a].status = "member" /\ team[a].role = "OWNER"
    BY DEF Owners, Member
  <2>4. team'[a] # team[a]
    BY <1>1, <2>3 DEF Owners, Member
  <2>5. Advances(team[a], team'[a])
    BY <2>1, <2>3, <2>4, RowsGrow DEF RowStep, Appears, Joins
  <2>6. team'[a].status = "removed"
    BY <1>1, <2>3, <2>5 DEF Advances, Owners, Member
  <2> QED BY <2>6
<1> QED BY <1>1, InitialSessions, NextSessions, PTL DEF Spec, OwnersAreNotDemotedAway

-----------------------------------------------------------------------------
(* The cookies implement a table of sessions *)

Says(s) == [account |-> s.account, role |-> s.role, named |-> s.named]

\* A cookie that is accepted says what its row says.
LEMMA InForceTrue ==
    ASSUME SessionInv, NEW c \in Clients, NEW s \in cookie[c]
    PROVE  /\ s \in Session /\ s.account \in Accounts
           /\ s.version \in Nat /\ s.version <= team[s.account].version
<1>1. s \in Session /\ s \in Sessions
  BY DEF SessionInv, TypeOK, Sessions
<1>2. s.account \in Accounts /\ s.version \in Nat
  BY <1>1, BoundsAssumption DEF Session
<1> QED BY <1>1, <1>2 DEF SessionInv, SessionsStayFresh

\* When the row of a takes its next version, the cookies of a are out of force, and
\* those of others are not touched.
LEMMA RowEndsSessions ==
    ASSUME SessionInv, NEW a \in Accounts, NEW row, team' = [team EXCEPT ![a] = row],
           Advances(team[a], row)
    PROVE  /\ \A c \in Clients : \A s \in cookie[c] :
                Valid(s)' <=> Valid(s) /\ s.account # a
           /\ Valid(SessionOf(a, row))' <=> row.status = "member"
<1>1. TypeOK /\ team[a] \in Row /\ row \in Row /\ team'[a] = row
  BY DEF SessionInv, TypeOK, Advances
<1>2. ASSUME NEW c \in Clients, NEW s \in cookie[c]
      PROVE  Valid(s)' <=> Valid(s) /\ s.account # a
  <2>1. s.account \in Accounts /\ s.version \in Nat
        /\ s.version <= team[s.account].version
    BY InForceTrue
  <2>2. CASE s.account = a
    <3>1. row.version = team[a].version + 1 /\ team[a].version \in Nat
      BY <1>1, BoundsAssumption DEF Advances, Row
    <3>2. team'[s.account].version # s.version
      BY <1>1, <2>1, <2>2, <3>1
    <3> QED BY <2>2, <3>2 DEF Valid
  <2>3. CASE s.account # a
    <3>1. team'[s.account] = team[s.account]
      BY <1>1, <2>1, <2>3 DEF TypeOK
    <3> QED BY <2>3, <3>1 DEF Valid, Member
  <2> QED BY <2>2, <2>3
<1>3. Valid(SessionOf(a, row))' <=> row.status = "member"
  BY <1>1 DEF Valid, Member, SessionOf
<1> QED BY <1>2, <1>3

\* What is in force of a browser with one cookie.
LEMMA OneCookie ==
    ASSUME NEW c \in Clients, NEW s, cookie'[c] = {s}
    PROVE  /\ Valid(s)' => InForce(c)' = {Says(s)}
           /\ ~Valid(s)' => InForce(c)' = {}
<1>1. CASE Valid(s)'
  <2>1. {t \in cookie'[c] : Valid(t)'} = {s}
    BY <1>1
  <2>2. InForce(c)' = {Says(t) : t \in {u \in cookie'[c] : Valid(u)'}}
    BY DEF InForce, Says
  <2>3. InForce(c)' = {Says(t) : t \in {s}}
    BY <2>1, <2>2
  <2> QED BY <1>1, <2>3
<1>2. CASE ~Valid(s)'
  <2>1. {t \in cookie'[c] : Valid(t)'} = {}
    BY <1>2
  <2>2. InForce(c)' = {Says(t) : t \in {u \in cookie'[c] : Valid(u)'}}
    BY DEF InForce, Says
  <2>3. InForce(c)' = {Says(t) : t \in {}}
    BY <2>1, <2>2
  <2> QED BY <1>2, <2>3
<1> QED BY <1>1, <1>2

People == [a \in Accounts |-> Person(a)]
Standing == [c \in Clients |-> InForce(c)]

\* What the step of a row does to the table.
LEMMA ChangeSteps ==
    ASSUME SessionInv, NEW a \in Accounts, NEW row, team' = [team EXCEPT ![a] = row],
           Advances(team[a], row), NEW c \in Clients,
           \/ cookie' = cookie
           \/ cookie' = [cookie EXCEPT ![c] = {}]
           \/ cookie' = [cookie EXCEPT ![c] = {SessionOf(a, row)}]
    PROVE  Table!Change(a)
<1> DEFINE Rest == [d \in Clients |-> {s \in Standing[d] : s.account # a}]
           e == [account |-> a, role |-> row.role, named |-> row.named]
<1>1. TypeOK /\ team[a] \in Row /\ row \in Row /\ team'[a] = row
  BY DEF SessionInv, TypeOK, Advances
<1>2. /\ Person(a)' = [status |-> row.status, role |-> row.role, named |-> row.named]
      /\ \A b \in Accounts : b # a => Person(b)' = Person(b)
  BY <1>1 DEF Person, TypeOK
<1>3. People' = [People EXCEPT ![a] = [status |-> row.status, role |-> row.role,
                                      named |-> row.named]]
  BY <1>2 DEF People
<1>4. /\ row.status \in {Person(a).status, "removed"}
      /\ row.named \in {Person(a).named, TRUE}
      /\ row.role \in IF Person(a).status = "removed" \/ Person(a).role = "OWNER"
                    THEN {Person(a).role} ELSE Role
      /\ Person(a).status \in {"member", "removed"}
  BY <1>1 DEF Person, Advances, Row
<1>5. ASSUME NEW d \in Clients, cookie'[d] = cookie[d]
      PROVE  InForce(d)' = Rest[d]
  <2>1. \A s \in cookie[d] : Valid(s)' <=> Valid(s) /\ s.account # a
    BY RowEndsSessions
  <2>2. InForce(d)' = {Says(s) : s \in {t \in cookie[d] : Valid(t) /\ t.account # a}}
    BY <1>5, <2>1 DEF InForce, Says
  <2>3. InForce(d) = {Says(s) : s \in {t \in cookie[d] : Valid(t)}}
    BY DEF InForce, Says
  <2>4. \A s : Says(s).account = s.account
    BY DEF Says
  <2>5. Rest[d] = {s \in InForce(d) : s.account # a}
    BY DEF Standing
  <2> QED BY <2>2, <2>3, <2>4, <2>5
<1>6. cookie'[c] = {} => InForce(c)' = {}
  BY DEF InForce
<1>7. cookie'[c] = {SessionOf(a, row)} =>
        InForce(c)' = IF row.status = "member" THEN {e} ELSE {}
  <2> SUFFICES ASSUME cookie'[c] = {SessionOf(a, row)}
               PROVE  InForce(c)' = IF row.status = "member" THEN {e} ELSE {}
    OBVIOUS
  <2>1. Valid(SessionOf(a, row))' <=> row.status = "member"
    BY RowEndsSessions
  <2>2. Says(SessionOf(a, row)) = e
    BY DEF Says, SessionOf
  <2> HIDE DEF e
  <2> QED BY <2>1, <2>2, OneCookie
<1>8. e = [account |-> a, role |-> People'[a].role, named |-> People'[a].named]
  BY <1>3 DEF People
<1>9. \A d \in Clients : d # c => cookie'[d] = cookie[d]
  BY <1>1 DEF TypeOK
<1> HIDE DEF e
<1>10. \/ Standing' = Rest
       \/ Standing' = [Rest EXCEPT ![c] = {}]
       \/ row.status = "member" /\ Standing' = [Rest EXCEPT ![c] = {e}]
  <2>1. CASE cookie' = cookie
    BY <1>5, <2>1 DEF Standing
  <2>2. CASE cookie' = [cookie EXCEPT ![c] = {}]
    <3>1. cookie'[c] = {}
      BY <1>1, <2>2 DEF TypeOK
    <3> QED BY <1>5, <1>6, <1>9, <3>1 DEF Standing
  <2>3. CASE cookie' = [cookie EXCEPT ![c] = {SessionOf(a, row)}]
    <3>1. cookie'[c] = {SessionOf(a, row)}
      BY <1>1, <2>3 DEF TypeOK
    <3> QED BY <1>5, <1>7, <1>9, <3>1 DEF Standing
  <2> QED BY <2>1, <2>2, <2>3
<1>11. People[a] = Person(a) /\ People'[a].status = row.status
  BY <1>3 DEF People
<1> QED
  <2>1. \E status \in {People[a].status, "removed"}, named \in {People[a].named, TRUE},
           role \in IF People[a].status = "removed" \/ People[a].role = "OWNER"
                    THEN {People[a].role} ELSE Role :
           People' = [People EXCEPT ![a] = [status |-> status, role |-> role,
                                            named |-> named]]
    BY <1>3, <1>4, <1>11
  <2>2. \/ Standing' = Rest
        \/ \E d \in Clients : Standing' = [Rest EXCEPT ![d] = {}]
        \/ /\ People'[a].status = "member"
           /\ \E d \in Clients : Standing' = [Rest EXCEPT ![d] = {e}]
    BY <1>10, <1>11
  <2>3. People[a].status \in {"member", "removed"}
    BY <1>4, <1>11
  <2> HIDE DEF Rest
  <2>4. Rest = Table!Without(a) /\ e = Table!Entry(a)'
    BY <1>8 DEF Rest, Table!Without, Table!Entry, Standing, People
  <2> QED BY <2>1, <2>2, <2>3, <2>4 DEF Table!Change, Standing, People

LEMMA TableSteps ==
    ASSUME SessionInv, [Next]_vars
    PROVE  [Table!Next]_(Table!vars)
<1>1. TypeOK /\ InFlightOK
  BY DEF SessionInv
<1>2. ASSUME NEW c \in Clients, NEW a \in Accounts, LogIn(c, a)  PROVE Table!Enter(c, a)
  <2>1. /\ Member(a) /\ UNCHANGED team
        /\ cookie' = [cookie EXCEPT ![c] = {SessionOf(a, team[a])}]
    BY <1>2 DEF LogIn
  <2>2. InForce(c)' = {Says(SessionOf(a, team[a]))}
    <3>1. PICK s : s = SessionOf(a, team[a])
      OBVIOUS
    <3>2. cookie'[c] = {s} /\ Valid(s)'
      BY <1>1, <2>1, <3>1 DEF TypeOK, Valid, Member, SessionOf
    <3> QED BY <3>1, <3>2, OneCookie
  <2>3. \A d \in Clients : d # c => InForce(d)' = InForce(d)
    BY <1>1, <2>1 DEF TypeOK, InForce, Valid, Member
  <2>4. Says(SessionOf(a, team[a])) = Table!Entry(a)
    BY DEF Says, SessionOf, Table!Entry, Person
  <2>5. Standing' = [Standing EXCEPT ![c] = {Table!Entry(a)}]
    BY <2>2, <2>3, <2>4 DEF Standing
  <2>6. People' = People /\ People[a].status = "member"
    BY <2>1 DEF People, Person, Member
  <2> QED BY <2>5, <2>6 DEF Table!Enter, Standing, People
<1>3. ASSUME NEW s \in signups, AcceptInvitation(s), ~UNCHANGED <<team, cookie>>
      PROVE  Table!Join(s.account)
  <2>0. PICK row : row = NewRow(invitations[s.invitation].role)
    OBVIOUS
  <2>1. PICK a \in Accounts, role \in Role :
          /\ a = s.account /\ s.client \in Clients /\ row = NewRow(role)
          /\ team[a].status = "none"
          /\ team' = [team EXCEPT ![a] = row]
          /\ cookie' = cookie \/ cookie' = [cookie EXCEPT ![s.client] = {SessionOf(a, row)}]
    BY <1>1, <1>3, <2>0, Fields
       DEF AcceptInvitation, SetCookie, TypeOK, SignUp, InFlightOK, Invitation
  <2>2. team'[a] = row /\ \A b \in Accounts : b # a => team'[b] = team[b]
    BY <1>1, <2>1 DEF TypeOK
  <2>3. People' = [People EXCEPT ![a] = Table!Newcomer(role)]
    <3>1. Person(a)' = Table!Newcomer(role)
      <4>1. team'[a] = [status |-> "member", role |-> role, version |-> 1, named |-> FALSE]
        BY <2>1, <2>2 DEF NewRow
      <4> QED BY <4>1 DEF Person, Table!Newcomer
    <3>2. \A b \in Accounts : b # a => Person(b)' = Person(b)
      BY <2>2 DEF Person
    <3> QED BY <3>1, <3>2 DEF People
  <2>4. \A d \in Clients : cookie'[d] = cookie[d] => InForce(d)' = InForce(d)
    <3> SUFFICES ASSUME NEW d \in Clients, NEW t \in cookie[d]
                 PROVE  Valid(t)' <=> Valid(t)
      BY DEF InForce
    <3>1. /\ t.account \in Accounts /\ t.version \in Nat /\ t.version > 0
          /\ t.version <= team[t.account].version
      BY InForceTrue, BoundsAssumption DEF Session
    <3>2. t.account # a
      BY <1>1, <2>1, <3>1 DEF TypeOK, Row
    <3> QED BY <2>2, <3>1, <3>2 DEF Valid, Member
  <2>5. ASSUME cookie'[s.client] = {SessionOf(a, row)}
        PROVE  InForce(s.client)' = {Table!Entry(a)'}
    <3>1. Valid(SessionOf(a, row))'
      BY <2>1, <2>2 DEF Valid, Member, SessionOf, NewRow
    <3>2. InForce(s.client)' = {Says(SessionOf(a, row))}
      BY <2>1, <2>5, <3>1, OneCookie
    <3>3. Says(SessionOf(a, row)) = Table!Entry(a)'
      BY <2>1, <2>2 DEF Says, SessionOf, Table!Entry, Person
    <3> QED BY <3>2, <3>3
  <2>6. Standing' = Standing \/ Standing' = [Standing EXCEPT ![s.client] = {Table!Entry(a)'}]
    <3>1. CASE cookie' = cookie
      BY <2>4, <3>1 DEF Standing
    <3>2. CASE cookie' = [cookie EXCEPT ![s.client] = {SessionOf(a, row)}]
      <4>1. /\ cookie'[s.client] = {SessionOf(a, row)}
            /\ \A d \in Clients : d # s.client => cookie'[d] = cookie[d]
        BY <1>1, <2>1, <3>2 DEF TypeOK
      <4> QED BY <2>4, <2>5, <4>1 DEF Standing
    <3> QED BY <2>1, <3>1, <3>2
  <2>7. People[a].status = "none"
    BY <2>1 DEF People, Person
  <2>8. Table!Join(a)
    BY <2>1, <2>3, <2>6, <2>7 DEF Table!Join, Standing, People
  <2> QED BY <2>1, <2>8
<1>4. ASSUME NEW a \in Accounts, FoundOrganization(a)  PROVE Table!GoElsewhere(a)
  <2>1. /\ team[a].status = "none" /\ UNCHANGED cookie
        /\ team' = [team EXCEPT ![a].status = "elsewhere"]
    BY <1>4 DEF FoundOrganization
  <2>2. /\ team'[a] = [team[a] EXCEPT !.status = "elsewhere"]
        /\ \A b \in Accounts : b # a => team'[b] = team[b]
    BY <1>1, <2>1 DEF TypeOK
  <2>3. People' = [People EXCEPT ![a].status = "elsewhere"]
    <3>1. team[a] \in Row
      BY <1>1 DEF TypeOK
    <3>2. Person(a)' = [Person(a) EXCEPT !.status = "elsewhere"]
      BY <2>2, <3>1 DEF Person, Row
    <3> QED BY <2>2, <3>2 DEF People, Person
  <2>4. ASSUME NEW d \in Clients, NEW t \in cookie[d]  PROVE Valid(t)' <=> Valid(t)
    <3>1. t.account \in Accounts
      BY InForceTrue
    <3>2. CASE t.account = a
      BY <1>1, <2>1, <2>2, <3>2 DEF Valid, Member, TypeOK, Row
    <3>3. CASE t.account # a
      BY <2>2, <3>1, <3>3 DEF Valid, Member
    <3> QED BY <3>2, <3>3
  <2>5. Standing' = Standing
    BY <2>1, <2>4 DEF Standing, InForce
  <2>6. People[a].status = "none"
    BY <2>1 DEF People, Person
  <2> QED BY <2>3, <2>5, <2>6 DEF Table!GoElsewhere, Standing, People
<1>5. ASSUME NEW q \in requests, ~UNCHANGED <<team, cookie>>,
             RemoveUser(q) \/ UpdateUserRole(q) \/ LogOut(q) \/ CompleteOnboarding(q)
      PROVE  Table!Change(q.target)
  <2>1. q.target \in Accounts /\ q.client \in Clients
    BY <1>1 DEF TypeOK, Request
  <2> QED BY <1>1, <1>5, <2>1, RowChanges, ChangeSteps
<1>6. CASE UNCHANGED <<team, cookie>>
  BY <1>6 DEF Table!vars, Person, InForce, Valid, Member
<1>7. ASSUME NEW q \in requests  PROVE q.target \in Accounts
  BY <1>1 DEF TypeOK, Request
<1>8. ASSUME NEW s \in signups  PROVE s.account \in Accounts
  BY <1>1 DEF TypeOK, SignUp
<1> QED
  BY <1>2, <1>3, <1>4, <1>5, <1>6, <1>7, <1>8
     DEF Next, FindInvitation, Expire, Authenticate, LoadTarget, CountOwners, CheckInvitee,
         CreateInvitation, Abandon, Table!Next

\* Cookies that nobody keeps track of, with a version in each, implement a table of
\* sessions on the server, for any number of browsers and requests at a time: every
\* change of a user ends that user's sessions everywhere, and a session in force says
\* what the row says (verifyInternalUserSession, incrementSessionVersion).
THEOREM Implementation == Spec => ImplementsSessionTable
<1>1. Init => Table!Init
  <2> SUFFICES ASSUME Init PROVE Table!Init
    OBVIOUS
  <2>1. \A a \in Accounts :
          Person(a) = IF a \in {Founder} THEN Table!Newcomer("OWNER")
                      ELSE [Table!Newcomer("MEMBER") EXCEPT !.status = "none"]
    BY DEF Init, Person, NewRow, NoRow, Table!Newcomer
  <2>2. \A c \in Clients : InForce(c) = {}
    BY DEF Init, InForce
  <2> QED BY <2>1, <2>2 DEF Table!Init
<1>2. SessionInv /\ [Next]_vars => [Table!Next]_(Table!vars)
  BY TableSteps
<1> QED BY <1>1, <1>2, InitialSessions, NextSessions, PTL
        DEF Spec, ImplementsSessionTable, Table!Spec

-----------------------------------------------------------------------------
(* Invitations *)

Accepted(i) == i \in DOMAIN invitations /\ invitations[i].accepted

\* An account is in the team, or was, if and only if it is the founder or
\* exactly one of its invitations was accepted.
InvitationInv ==
    /\ Joined(Founder)
    /\ \A i \in DOMAIN invitations, a \in Accounts :
         Accepted(i) /\ invitations[i].account = a => a # Founder /\ Joined(a)
    /\ \A i, j \in DOMAIN invitations :
         Accepted(i) /\ Accepted(j) /\ invitations[i].account = invitations[j].account => i = j
    /\ \A a \in Accounts \ {Founder} :
         Joined(a) => \E i \in DOMAIN invitations : Accepted(i) /\ invitations[i].account = a

\* A step that accepts no invitation marks none and lets nobody in.
LEMMA OnlyAcceptanceLetsIn ==
    ASSUME SessionInv, [Next]_vars,
           \/ UNCHANGED vars
           \/ \E c \in Clients, a \in Accounts : LogIn(c, a)
           \/ \E r \in Requests, c \in Clients, a \in Accounts : FindInvitation(r, c, a)
           \/ \E s \in signups : AcceptInvitation(s) /\ UNCHANGED <<team, invitations>>
           \/ \E a \in Accounts : FoundOrganization(a)
           \/ \E i \in DOMAIN invitations : Expire(i)
           \/ \E r \in Requests, c \in Clients : Authenticate(r, c)
           \/ \E q \in requests : \/ LoadTarget(q) \/ CountOwners(q) \/ RemoveUser(q)
                                  \/ UpdateUserRole(q) \/ CheckInvitee(q) \/ CreateInvitation(q)
                                  \/ LogOut(q) \/ CompleteOnboarding(q)
           \/ \E r \in Requests : Abandon(r)
    PROVE  /\ \A a \in Accounts : Joined(a)' <=> Joined(a)
           /\ \A i \in DOMAIN invitations' : Accepted(i)' <=> Accepted(i)
<1>1. TypeOK /\ InFlightOK /\ TeamStep
  BY TeamSteps DEF SessionInv
<1>2. \A a \in Accounts : Joined(a)' <=> Joined(a)
  <2>1. ASSUME NEW q \in requests,
               RemoveUser(q) \/ UpdateUserRole(q) \/ LogOut(q) \/ CompleteOnboarding(q)
        PROVE  \A a \in Accounts : Joined(a)' <=> Joined(a)
    <3>1. /\ q.target \in Accounts
          /\ team' = team \/ Joined(q.target)
      BY <1>1, <2>1, Fields
         DEF RemoveUser, UpdateUserRole, LogOut, CompleteOnboarding, InFlightOK,
             RoleUpdateMatches, Member, Joined
    <3>2. \A a \in Accounts \ {q.target} : team'[a] = team[a]
      BY <1>1, <2>1, <3>1
         DEF RemoveUser, UpdateUserRole, LogOut, CompleteOnboarding, TypeOK
    <3> QED BY <1>1, <3>1, <3>2, RowsGrow DEF Joined
  <2>2. ASSUME NEW b \in Accounts, FoundOrganization(b)
        PROVE  \A a \in Accounts : Joined(a)' <=> Joined(a)
    BY <1>1, <2>2 DEF FoundOrganization, Joined, TypeOK
  <2>3. ASSUME UNCHANGED team
        PROVE  \A a \in Accounts : Joined(a)' <=> Joined(a)
    BY <2>3 DEF Joined
  <2> QED BY <2>1, <2>2, <2>3
          DEF LogIn, FindInvitation, Expire, Authenticate, LoadTarget, CountOwners,
              CheckInvitee, CreateInvitation, Abandon
<1>3. \A i \in DOMAIN invitations' : Accepted(i)' <=> Accepted(i)
  <2>1. ASSUME UNCHANGED invitations
        PROVE  \A i \in DOMAIN invitations' : Accepted(i)' <=> Accepted(i)
    BY <2>1 DEF Accepted
  <2>2. ASSUME NEW j \in DOMAIN invitations, Expire(j)
        PROVE  \A i \in DOMAIN invitations' : Accepted(i)' <=> Accepted(i)
    <3>1. invitations[j] \in Invitation
      BY <1>1, Fields
    <3> QED BY <1>1, <2>2, <3>1 DEF Expire, Accepted, TypeOK, Invitation
  <2>3. ASSUME NEW q \in requests, CreateInvitation(q)
        PROVE  \A i \in DOMAIN invitations' : Accepted(i)' <=> Accepted(i)
    BY <1>1, <2>3 DEF CreateInvitation, Accepted, TypeOK
  <2> QED BY <2>1, <2>2, <2>3
          DEF LogIn, FindInvitation, FoundOrganization, Authenticate, LoadTarget,
              CountOwners, RemoveUser, UpdateUserRole, CheckInvitee, LogOut,
              CompleteOnboarding, Abandon
<1> QED BY <1>2, <1>3

LEMMA NextInvitations ==
    ASSUME SessionInv, InvitationInv, [Next]_vars
    PROVE  InvitationInv'
<1>1. TypeOK /\ InFlightOK /\ TeamStep
  BY TeamSteps DEF SessionInv
<1>2. ASSUME NEW s \in signups, AcceptInvitation(s), ~UNCHANGED <<team, invitations>>
      PROVE  InvitationInv'
  <2> DEFINE n == s.invitation
             b == s.account
  <2>1. /\ n \in DOMAIN invitations /\ invitations[n].account = b
        /\ b \in Accounts /\ invitations[n] \in Invitation
    BY <1>1, Fields DEF InFlightOK
  <2>2. /\ team[b].status = "none" /\ ~invitations[n].accepted
        /\ team' = [team EXCEPT ![b] = NewRow(invitations[n].role)]
        /\ invitations' = [invitations EXCEPT ![n].accepted = TRUE]
    BY <1>2 DEF AcceptInvitation
  <2>3. /\ ~Joined(b) /\ Joined(b)'
        /\ \A a \in Accounts \ {b} : Joined(a)' <=> Joined(a)
    BY <1>1, <2>1, <2>2 DEF Joined, NewRow, TypeOK
  <2>4. /\ DOMAIN invitations' = DOMAIN invitations
        /\ Accepted(n)'
        /\ \A i \in DOMAIN invitations :
             /\ invitations[i].account \in Accounts
             /\ invitations'[i].account = invitations[i].account
             /\ i # n => (Accepted(i)' <=> Accepted(i))
    BY <1>1, <2>1, <2>2, Fields DEF Accepted, TypeOK, Invitation
  <2>5. b # Founder
    BY <2>3 DEF InvitationInv
  <2>6. \A i \in DOMAIN invitations : Accepted(i) => invitations[i].account # b
    BY <2>1, <2>3 DEF InvitationInv
  <2> HIDE DEF n, b
  <2>7. Joined(Founder)'
    BY <2>3, <2>5, FounderAssumption DEF InvitationInv
  <2>8. \A i \in DOMAIN invitations', a \in Accounts :
          Accepted(i)' /\ invitations'[i].account = a => a # Founder /\ Joined(a)'
    BY <2>1, <2>3, <2>4, <2>5 DEF InvitationInv
  <2>9. \A i, j \in DOMAIN invitations' :
          Accepted(i)' /\ Accepted(j)' /\ invitations'[i].account = invitations'[j].account
            => i = j
    BY <2>1, <2>4, <2>6 DEF InvitationInv
  <2>10. \A a \in Accounts \ {Founder} : Joined(a)' =>
           \E i \in DOMAIN invitations' : Accepted(i)' /\ invitations'[i].account = a
    BY <2>1, <2>3, <2>4, <2>6 DEF InvitationInv
  <2> QED BY <2>7, <2>8, <2>9, <2>10 DEF InvitationInv
<1>3. ASSUME /\ \A a \in Accounts : Joined(a)' <=> Joined(a)
             /\ \A i \in DOMAIN invitations' : Accepted(i)' <=> Accepted(i)
      PROVE  InvitationInv'
  <2>1. /\ DOMAIN invitations \subseteq DOMAIN invitations'
        /\ \A i \in DOMAIN invitations : /\ invitations[i].account \in Accounts
                                         /\ invitations'[i].account = invitations[i].account
    BY <1>1, InvitationSteps, Fields DEF TypeOK, Invitation
  <2>2. \A i : Accepted(i) => i \in DOMAIN invitations
    BY DEF Accepted
  <2>3. Joined(Founder)'
    BY <1>3, FounderAssumption DEF InvitationInv
  <2>4. \A i \in DOMAIN invitations', a \in Accounts :
          Accepted(i)' /\ invitations'[i].account = a => a # Founder /\ Joined(a)'
    BY <1>3, <2>1, <2>2 DEF InvitationInv
  <2>5. \A i, j \in DOMAIN invitations' :
          Accepted(i)' /\ Accepted(j)' /\ invitations'[i].account = invitations'[j].account
            => i = j
    BY <1>3, <2>1, <2>2 DEF InvitationInv
  <2>6. \A a \in Accounts \ {Founder} : Joined(a)' =>
          \E i \in DOMAIN invitations' : Accepted(i)' /\ invitations'[i].account = a
    BY <1>3, <2>1, <2>2 DEF InvitationInv
  <2> QED BY <2>3, <2>4, <2>5, <2>6 DEF InvitationInv
<1> QED BY <1>2, <1>3, OnlyAcceptanceLetsIn DEF Next

\* Everyone but the founder came by exactly one invitation: cognitoUserId is
\* unique, and the row is made in the transaction that marks the invitation.
THEOREM OneInvitation == Spec => []OneInvitationPerMember
<1>1. Init => InvitationInv
  <2> SUFFICES ASSUME Init PROVE InvitationInv
    OBVIOUS
  <2>1. DOMAIN invitations = {}
    BY DEF Init
  <2>2. \A a \in Accounts : Joined(a) <=> a = Founder
    BY DEF Init, Joined, NewRow, NoRow
  <2> QED BY <2>1, <2>2, FounderAssumption DEF InvitationInv
<1>2. ASSUME SessionInv, InvitationInv  PROVE OneInvitationPerMember
  <2> SUFFICES ASSUME NEW a \in Accounts
               PROVE  Cardinality({i \in DOMAIN invitations :
                          invitations[i].accepted /\ invitations[i].account = a})
                        = IF a # Founder /\ Joined(a) THEN 1 ELSE 0
    BY DEF OneInvitationPerMember, Joined
  <2> DEFINE mine == {i \in DOMAIN invitations :
                        invitations[i].accepted /\ invitations[i].account = a}
  <2>1. CASE a # Founder /\ Joined(a)
    <3>1. PICK i \in DOMAIN invitations : Accepted(i) /\ invitations[i].account = a
      BY <1>2, <2>1 DEF InvitationInv
    <3>2. mine = {i}
      BY <1>2, <3>1 DEF InvitationInv, Accepted
    <3> QED BY <2>1, <3>2, FS_Singleton
  <2>2. CASE ~(a # Founder /\ Joined(a))
    <3>1. mine = {}
      BY <1>2, <2>2 DEF InvitationInv, Accepted
    <3> QED BY <2>2, <3>1, FS_EmptySet
  <2> QED BY <2>1, <2>2
<1> QED
  BY <1>1, <1>2, InitialSessions, NextSessions, NextInvitations, PTL DEF Spec

=============================================================================
