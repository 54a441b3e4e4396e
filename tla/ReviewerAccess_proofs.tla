----------------------- MODULE ReviewerAccess_proofs -----------------------
(***************************************************************************)
(* Proofs about ReviewerAccess, for any projects, people and requests and  *)
(* any bound on the versions.                                              *)
(***************************************************************************)
EXTENDS ReviewerAccess, TLAPS

USE DEF vars, Enter, Leave, Start

\* A request to remove a reviewer was let in by a link, and no link goes back
\* to having never been there.
RemovalsHaveLinks ==
    \A q \in requests : q.op = "REMOVE" => links[q.project][q.person] # "none"

Inv == TypeOK /\ RemovalsHaveLinks /\ LinksFollowInvitations /\ ReviewersFollowLinks

-----------------------------------------------------------------------------
(* What a step may do to the three tables *)

\* A step leaves links and invitations alone, or changes those of one project
\* and one person, and the version of that person.
Untouched == UNCHANGED <<version, links, invitations>>

Invited(p, x) ==
    /\ invitations[p][x] # "accepted"
    /\ \E s \in {"pending", "expired"} :
         invitations' = [invitations EXCEPT ![p][x] = s]
    /\ UNCHANGED <<version, links>>

Joined(p, x) ==
    /\ links[p][x] # "archived"
    /\ version' = [version EXCEPT ![x] = IF @ = 0 THEN 1 ELSE @]
    /\ links' = [links EXCEPT ![p][x] = "active"]
    /\ invitations' = [invitations EXCEPT ![p][x] = "accepted"]

Removed(p, x) ==
    /\ links[p][x] # "none"
    /\ links' = [links EXCEPT ![p][x] = "archived"]
    /\ \/ UNCHANGED version
       \/ version[x] < MaxVersion /\ version' = [version EXCEPT ![x] = @ + 1]
    /\ UNCHANGED invitations

TableStep ==
    \/ Untouched
    \/ \E p \in Projects, x \in People : Invited(p, x) \/ Joined(p, x) \/ Removed(p, x)

LEMMA RequestFields ==
    ASSUME TypeOK
    PROVE  \A q \in requests : q.project \in Projects /\ q.person \in People
  BY DEF TypeOK, Request

\* Every step of the specification is one of these.
LEMMA TableSteps ==
    ASSUME TypeOK, RemovalsHaveLinks, [Next]_vars
    PROVE  TableStep
<1>1. ASSUME NEW q \in requests, CreateInvitation(q)  PROVE TableStep
  <2> DEFINE p == q.project  x == q.person
  <2>1. p \in Projects /\ x \in People  BY RequestFields
  <2>2. CASE invitations[p][x] = "none"
    <3>1. invitations' = [invitations EXCEPT ![p][x] = "pending"]
      BY <1>1, <2>1, <2>2 DEF CreateInvitation, TypeOK
    <3>2. Invited(p, x)
      BY <1>1, <2>2, <3>1 DEF CreateInvitation, Invited
    <3> HIDE DEF p, x
    <3> QED BY <2>1, <3>2 DEF TableStep
  <2>3. CASE invitations[p][x] # "none"
    <3>1. invitations' = invitations
      BY <1>1, <2>1, <2>3 DEF CreateInvitation, TypeOK
    <3> QED BY <1>1, <3>1 DEF CreateInvitation, TableStep, Untouched
  <2> QED BY <2>2, <2>3
<1>2. ASSUME NEW p \in Projects, NEW x \in People, Expire(p, x)  PROVE TableStep
  BY <1>2 DEF Expire, TableStep, Invited
<1>3. ASSUME NEW q \in requests, AcceptInvitation(q)  PROVE TableStep
  BY <1>3, RequestFields DEF AcceptInvitation, TableStep, Joined, Untouched
<1>4. ASSUME NEW q \in requests, RemoveReviewer(q)  PROVE TableStep
  <2>1. Removed(q.project, q.person)
    BY <1>4 DEF RemoveReviewer, RemovalsHaveLinks, Removed
  <2> QED BY <2>1, RequestFields DEF TableStep
<1>5. CASE \/ \E p \in Projects, x \in People, r \in Requests :
                CheckInvitee(r, p, x) \/ LoadInvitation(r, p, x) \/ LoadLink(r, p, x)
           \/ \E q \in requests : CountLinks(q) \/ Abandon(q)
           \/ \E x \in People : LogIn(x)
           \/ \E p \in Projects : ArchiveProject(p)
           \/ UNCHANGED vars
  BY <1>5 DEF CheckInvitee, LoadInvitation, LoadLink, CountLinks, Abandon, LogIn,
              ArchiveProject, TableStep, Untouched
<1> QED BY <1>1, <1>2, <1>3, <1>4, <1>5 DEF Next

-----------------------------------------------------------------------------
(* Types *)

LEMMA NewRequest ==
    ASSUME NEW r \in Requests, NEW p \in Projects, NEW x \in People,
           NEW op \in {"INVITE", "ACCEPT", "REMOVE"}
    PROVE  [id |-> r, op |-> op, project |-> p, person |-> x,
            pc |-> "loaded", last |-> FALSE] \in Request
  BY DEF Request

LEMMA TablesTyped ==
    ASSUME TypeOK, TableStep
    PROVE  /\ version' \in [People -> 0..MaxVersion]
           /\ links' \in [Projects -> [People -> LinkStatus]]
           /\ invitations' \in [Projects -> [People -> InvitationStatus]]
<1>1. CASE Untouched
  BY <1>1 DEF Untouched, TypeOK
<1>2. ASSUME NEW p \in Projects, NEW x \in People, Invited(p, x)
      PROVE  /\ version' \in [People -> 0..MaxVersion]
             /\ links' \in [Projects -> [People -> LinkStatus]]
             /\ invitations' \in [Projects -> [People -> InvitationStatus]]
  BY <1>2 DEF Invited, TypeOK, InvitationStatus
<1>3. ASSUME NEW p \in Projects, NEW x \in People, Joined(p, x)
      PROVE  /\ version' \in [People -> 0..MaxVersion]
             /\ links' \in [Projects -> [People -> LinkStatus]]
             /\ invitations' \in [Projects -> [People -> InvitationStatus]]
  BY <1>3, MaxVersionAssumption DEF Joined, TypeOK, InvitationStatus, LinkStatus
<1>4. ASSUME NEW p \in Projects, NEW x \in People, Removed(p, x)
      PROVE  /\ version' \in [People -> 0..MaxVersion]
             /\ links' \in [Projects -> [People -> LinkStatus]]
             /\ invitations' \in [Projects -> [People -> InvitationStatus]]
  BY <1>4, MaxVersionAssumption DEF Removed, TypeOK, LinkStatus
<1> QED BY <1>1, <1>2, <1>3, <1>4 DEF TableStep

LEMMA TypesPreserved ==
    ASSUME TypeOK, RemovalsHaveLinks, [Next]_vars
    PROVE  TypeOK'
<1>1. /\ version' \in [People -> 0..MaxVersion]
      /\ links' \in [Projects -> [People -> LinkStatus]]
      /\ invitations' \in [Projects -> [People -> InvitationStatus]]
  BY TableSteps, TablesTyped
<1> DEFINE Others == /\ open' \subseteq Projects
                     /\ users' \subseteq People
                     /\ cookie' \in [People -> SUBSET Session]
                     /\ requests' \subseteq Request
<1>2. ASSUME NEW r \in Requests, NEW p \in Projects, NEW x \in People,
             CheckInvitee(r, p, x) \/ LoadInvitation(r, p, x) \/ LoadLink(r, p, x)
      PROVE  Others
  BY <1>2, NewRequest DEF CheckInvitee, LoadInvitation, LoadLink, TypeOK
<1>3. ASSUME NEW p \in Projects, NEW x \in People, Expire(p, x)  PROVE Others
  BY <1>3 DEF Expire, TypeOK
<1>4. ASSUME NEW q \in requests,
             \/ CreateInvitation(q) \/ AcceptInvitation(q) \/ RemoveReviewer(q) \/ Abandon(q)
      PROVE  Others
  BY <1>4 DEF CreateInvitation, AcceptInvitation, RemoveReviewer, Abandon, TypeOK
<1>5. ASSUME NEW q \in requests, CountLinks(q)  PROVE Others
  <2>1. IsLastLink(q) \in BOOLEAN
    BY DEF IsLastLink
  <2>2. [q EXCEPT !.pc = "counted", !.last = IsLastLink(q)] \in Request
    <3> DEFINE b == IsLastLink(q)
    <3>1. q \in Request /\ b \in BOOLEAN  BY <2>1 DEF TypeOK
    <3> HIDE DEF b
    <3>2. [q EXCEPT !.pc = "counted", !.last = b] \in Request  BY <3>1 DEF Request
    <3> QED BY <3>2 DEF b
  <2> QED BY <1>5, <2>2 DEF CountLinks, TypeOK
<1>6. ASSUME NEW x \in People, LogIn(x)  PROVE Others
  <2>1. [actor |-> "INTERNAL"] \in Session
    BY DEF Session
  <2>2. version[x] > 0 => ReviewerSession(x) \in Session
    BY MaxVersionAssumption DEF TypeOK, Session, ReviewerSession
  <2> QED BY <1>6, <2>1, <2>2 DEF LogIn, TypeOK
<1>7. ASSUME NEW p \in Projects, ArchiveProject(p)  PROVE Others
  BY <1>7 DEF ArchiveProject, TypeOK
<1>8. ASSUME UNCHANGED vars  PROVE Others
  BY <1>8 DEF TypeOK
<1> HIDE DEF Others
<1>9. Others
  BY <1>2, <1>3, <1>4, <1>5, <1>6, <1>7, <1>8 DEF Next
<1> QED BY <1>1, <1>9 DEF TypeOK, Others

-----------------------------------------------------------------------------
(* The story of the three tables *)

\* A link that was there is there after every step.
LEMMA LinksRemain ==
    ASSUME TypeOK, TableStep, NEW p \in Projects, NEW x \in People
    PROVE  /\ links[p][x] # "none" => links'[p][x] # "none"
           /\ links[p][x] = "archived" => links'[p][x] = "archived"
<1>1. CASE Untouched
  BY <1>1 DEF Untouched
<1>2. ASSUME NEW o \in Projects, NEW y \in People, Invited(o, y) \/ Joined(o, y) \/ Removed(o, y)
      PROVE  /\ links[p][x] # "none" => links'[p][x] # "none"
             /\ links[p][x] = "archived" => links'[p][x] = "archived"
  BY <1>2 DEF Invited, Joined, Removed, TypeOK
<1> QED BY <1>1, <1>2 DEF TableStep

LEMMA RemovalsPreserved ==
    ASSUME TypeOK, RemovalsHaveLinks, [Next]_vars
    PROVE  RemovalsHaveLinks'
<1> SUFFICES ASSUME NEW q \in requests', q.op = "REMOVE"
             PROVE  links'[q.project][q.person] # "none"
  BY DEF RemovalsHaveLinks
<1>1. TableStep
  BY TableSteps
<1>2. CASE \E o \in requests : q.op = o.op /\ q.project = o.project /\ q.person = o.person
  BY <1>1, <1>2, LinksRemain, RequestFields DEF RemovalsHaveLinks
<1>3. CASE \E r \in Requests, p \in Projects, x \in People : LoadLink(r, p, x)
  <2>1. PICK r \in Requests, p \in Projects, x \in People : LoadLink(r, p, x)
    BY <1>3
  <2>2. CASE q \in requests
    BY <1>2, <2>2
  <2>3. CASE q \notin requests
    <3>1. q.project = p /\ q.person = x
      BY <2>1, <2>3 DEF LoadLink
    <3> QED BY <2>1, <3>1 DEF LoadLink
  <2> QED BY <2>2, <2>3
<1>4. CASE \E c \in requests : CountLinks(c)
  <2>1. PICK c \in requests : CountLinks(c)
    BY <1>4
  <2>2. CASE q \in requests
    BY <1>2, <2>2
  <2>3. CASE q \notin requests
    <3>1. q = [c EXCEPT !.pc = "counted", !.last = IsLastLink(c)]
      BY <2>1, <2>3 DEF CountLinks
    <3>2. c \in Request
      BY DEF TypeOK
    <3>3. q.op = c.op /\ q.project = c.project /\ q.person = c.person
      BY <3>1, <3>2 DEF Request
    <3> QED BY <1>2, <3>3
  <2> QED BY <2>2, <2>3
<1>5. CASE \E r \in Requests, p \in Projects, x \in People :
             CheckInvitee(r, p, x) \/ LoadInvitation(r, p, x)
  <2>1. PICK r \in Requests, p \in Projects, x \in People :
             CheckInvitee(r, p, x) \/ LoadInvitation(r, p, x)
    BY <1>5
  <2>2. q \in requests
    BY <2>1 DEF CheckInvitee, LoadInvitation
  <2> QED BY <1>2, <2>2
<1>6. CASE \/ \E p \in Projects, x \in People : Expire(p, x)
           \/ \E c \in requests : CreateInvitation(c) \/ AcceptInvitation(c)
                                  \/ RemoveReviewer(c) \/ Abandon(c)
           \/ \E x \in People : LogIn(x)
           \/ \E p \in Projects : ArchiveProject(p)
           \/ UNCHANGED vars
  <2>1. requests' \subseteq requests
    BY <1>6 DEF Expire, CreateInvitation, AcceptInvitation, RemoveReviewer, Abandon,
                LogIn, ArchiveProject
  <2> QED BY <1>2, <2>1
<1> QED BY <1>3, <1>4, <1>5, <1>6 DEF Next

LEMMA StoryPreserved ==
    ASSUME Inv, TableStep
    PROVE  LinksFollowInvitations' /\ ReviewersFollowLinks'
<1> USE DEF Inv
<1>1. CASE Untouched
  BY <1>1 DEF Untouched, LinksFollowInvitations, ReviewersFollowLinks
<1>2. ASSUME NEW p \in Projects, NEW x \in People, Invited(p, x) \/ Joined(p, x) \/ Removed(p, x)
      PROVE  LinksFollowInvitations' /\ ReviewersFollowLinks'
  <2>1. LinksFollowInvitations'
    BY <1>2 DEF Invited, Joined, Removed, TypeOK, LinksFollowInvitations
  <2>2. ASSUME NEW y \in People
        PROVE  version'[y] > 0 <=> \E o \in Projects : links'[o][y] # "none"
    <3>1. CASE y # x
      <4>1. version'[y] = version[y] /\ \A o \in Projects : links'[o][y] = links[o][y]
        BY <1>2, <3>1 DEF Invited, Joined, Removed, TypeOK
      <4> QED BY <4>1 DEF ReviewersFollowLinks
    <3>2. CASE y = x /\ Invited(p, x)
      BY <3>2 DEF Invited, ReviewersFollowLinks
    <3>3. CASE y = x /\ (Joined(p, x) \/ Removed(p, x))
      <4>1. links'[p][x] # "none"
        BY <3>3 DEF Joined, Removed, TypeOK
      <4>2. version[x] \in Nat /\ (Removed(p, x) => version[x] > 0)
        BY MaxVersionAssumption DEF TypeOK, Removed, ReviewersFollowLinks
      <4>3. version'[x] > 0
        BY <3>3, <4>2 DEF Joined, Removed, TypeOK
      <4> QED BY <3>3, <4>1, <4>3
    <3> QED BY <1>2, <3>1, <3>2, <3>3
  <2> QED BY <2>1, <2>2 DEF ReviewersFollowLinks
<1> QED BY <1>1, <1>2 DEF TableStep

LEMMA Invariance == Spec => []Inv
<1>1. Init => Inv
  BY MaxVersionAssumption DEF Init, Inv, TypeOK, RemovalsHaveLinks, LinksFollowInvitations,
        ReviewersFollowLinks, LinkStatus, InvitationStatus
<1>2. Inv /\ [Next]_vars => Inv'
  BY TypesPreserved, RemovalsPreserved, TableSteps, StoryPreserved DEF Inv
<1> QED BY <1>1, <1>2, PTL DEF Spec

-----------------------------------------------------------------------------
(* Theorems *)

\* Rows, sessions and requests are well typed in every reachable state: above
\* all, no session of a reviewer carries the version of a missing row.
THEOREM TypeCorrect == Spec => []TypeOK
<1>1. Inv => TypeOK
  BY DEF Inv
<1> QED BY <1>1, Invariance, PTL

\* The three tables agree, however invitations, logins, acceptances, expiries
\* and removals interleave.
THEOREM OneStory == Spec => []TablesAgree
<1>1. Inv => TablesAgree
  BY DEF Inv, TablesAgree
<1> QED BY <1>1, Invariance, PTL

\* A person has a reviewer's row exactly when a project has, or had, a link to them.
THEOREM RowsFollowLinks == Spec => []ReviewersFollowLinks
<1>1. Inv => ReviewersFollowLinks
  BY DEF Inv
<1> QED BY <1>1, Invariance, PTL

\* Every session of a reviewer is made by a login, names no project, and so is
\* refused by every request, before and after any change of links.
THEOREM RefusedForGood == Spec => []ReviewersAreRefused
<1> DEFINE NoProjects ==
      \A x \in People : \A s \in cookie[x] : s.actor = "REVIEWER" => s.projects = {}
<1>1. Init => NoProjects
  BY DEF Init
<1>2. TypeOK /\ NoProjects /\ [Next]_vars => NoProjects'
  <2> SUFFICES ASSUME TypeOK, NoProjects, [Next]_vars
               PROVE  NoProjects'
    OBVIOUS
  <2>1. ASSUME NEW x \in People, LogIn(x)  PROVE NoProjects'
    <3>1. \A y \in People \ {x} : cookie'[y] = cookie[y]
      BY <2>1 DEF LogIn, TypeOK
    <3>2. cookie'[x] \in {{ReviewerSession(x)}, {[actor |-> "INTERNAL"]}}
      BY <2>1 DEF LogIn, TypeOK
    <3>3. \A s \in cookie'[x] : s.actor = "REVIEWER" => s.projects = {}
      BY <3>2 DEF ReviewerSession
    <3> QED BY <3>1, <3>3
  <2>2. CASE UNCHANGED cookie
    BY <2>2
  <2>3. CASE ~\E x \in People : LogIn(x)
    <3>1. UNCHANGED cookie
      BY <2>3 DEF Next, CheckInvitee, LoadInvitation, LoadLink, CreateInvitation, Expire,
                  AcceptInvitation, CountLinks, RemoveReviewer, Abandon, ArchiveProject
    <3> QED BY <2>2, <3>1
  <2> QED BY <2>1, <2>3
<1>3. NoProjects => ReviewersAreRefused
  BY DEF ReviewersAreRefused, Accepted
<1> HIDE DEF NoProjects
<1> QED BY <1>1, <1>2, <1>3, TypeCorrect, PTL DEF Spec

\* No request under way and no later one undoes the removal of a reviewer.
THEOREM RemovalFinal == Spec => RemovalIsFinal
<1>1. Inv /\ [Next]_vars =>
        [\A p \in Projects, x \in People :
           links[p][x] = "archived" => links'[p][x] = "archived"]_vars
  BY TableSteps, LinksRemain DEF Inv
<1> QED BY <1>1, Invariance, PTL DEF Spec, RemovalIsFinal

=============================================================================
