-------------------------- MODULE ReviewerAccess --------------------------
(***************************************************************************)
(* The reviewers of an organization's projects: how they are invited, how  *)
(* they join, the sessions they get, and how they are removed.             *)
(*                                                                         *)
(* An invitation belongs to one project and one e-mail address, a reviewer *)
(* to an address, and a link to a project and a reviewer; each of the      *)
(* three has a unique index and no row is ever deleted.  A removal keeps   *)
(* its transaction open between the update of the link and COMMIT: others  *)
(* still see the link, and wait if they update it.                         *)
(***************************************************************************)
EXTENDS Naturals, FiniteSets

CONSTANTS
    Projects,    \* projects of the organization
    People,      \* people invited as reviewers, one address and account each
    Requests,    \* requests that may be in flight at the same time
    MaxVersion   \* bound: no sessionVersion rises above it

ASSUME MaxVersionAssumption == MaxVersion \in Nat \ {0}

VARIABLES
    open,          \* projects with archivedAt = null
    users,         \* people with a row in users, of whatever organization
    version,       \* sessionVersion of the row in reviewers, 0 without one
    links,         \* rows of project_reviewers
    invitations,   \* REVIEWER invitations
    cookie,        \* the session cookie of each person: none or one
    requests       \* requests in flight

vars == <<open, users, version, links, invitations, cookie, requests>>

-----------------------------------------------------------------------------
(* Data *)

LinkStatus       == {"none", "active", "archived"}
InvitationStatus == {"none", "pending", "expired", "accepted"}

\* A session of a user, or one of a reviewer with the project it is for.
Session == [actor : {"INTERNAL"}] \cup
           [actor : {"REVIEWER"}, version : 1..MaxVersion, projects : SUBSET Projects]
Request == [id : Requests, op : {"INVITE", "ACCEPT", "REMOVE"}, project : Projects,
            person : People, pc : {"loaded", "counted"}, last : BOOLEAN]

InFlight    == {q.id : q \in requests}
Enter(q)    == requests' = requests \cup {q}
Leave(q)    == requests' = requests \ {q}
Start(r, op, p, x) == Enter([id |-> r, op |-> op, project |-> p, person |-> x,
                             pc |-> "loaded", last |-> FALSE])

Init ==
    /\ open = Projects
    /\ users \in SUBSET People
    /\ version = [x \in People |-> 0]
    /\ links = [p \in Projects |-> [x \in People |-> "none"]]
    /\ invitations = [p \in Projects |-> [x \in People |-> "none"]]
    /\ cookie = [x \in People |-> {}]
    /\ requests = {}

-----------------------------------------------------------------------------
(* Inviting *)

\* The project is open, and nobody has a reviewer with this address.
CheckInvitee(r, p, x) ==
    /\ r \notin InFlight
    /\ p \in open /\ links[p][x] # "active" /\ version[x] = 0
    /\ Start(r, "INVITE", p, x)
    /\ UNCHANGED <<open, users, version, links, invitations, cookie>>

\* A faulty variant: an earlier invitation is replaced.
CreateInvitationAnew(q) ==
    /\ q.op = "INVITE"
    /\ invitations' = [invitations EXCEPT ![q.project][q.person] = "pending"]
    /\ Leave(q)
    /\ UNCHANGED <<open, users, version, links, cookie>>

\* The unique index refuses a second invitation to the same project.
CreateInvitation(q) ==
    /\ q.op = "INVITE"
    /\ invitations' = [invitations EXCEPT ![q.project][q.person] =
                         IF @ = "none" THEN "pending" ELSE @]
    /\ Leave(q)
    /\ UNCHANGED <<open, users, version, links, cookie>>

\* Seven days pass.
Expire(p, x) ==
    /\ invitations[p][x] = "pending"
    /\ invitations' = [invitations EXCEPT ![p][x] = "expired"]
    /\ UNCHANGED <<open, users, version, links, cookie, requests>>

-----------------------------------------------------------------------------
(* Joining *)

\* The invitation is found by its token, before or after the person logged
\* in, and is neither accepted nor expired; the project is not looked at.
LoadInvitation(r, p, x) ==
    /\ r \notin InFlight
    /\ invitations[p][x] = "pending"
    /\ Start(r, "ACCEPT", p, x)
    /\ UNCHANGED <<open, users, version, links, invitations, cookie>>

\* A faulty variant: the invitation is not marked under a condition, and an
\* archived link is taken for one that can be used again.
AcceptAnyway(q) ==
    /\ q.op = "ACCEPT"
    /\ version' = [version EXCEPT ![q.person] = IF @ = 0 THEN 1 ELSE @]
    /\ links' = [links EXCEPT ![q.project][q.person] = "active"]
    /\ invitations' = [invitations EXCEPT ![q.project][q.person] = "accepted"]
    /\ Leave(q)
    /\ UNCHANGED <<open, users, cookie>>

\* One transaction finds or creates the reviewer and the link and marks the
\* invitation; it rolls back when the link is archived, because the index
\* refuses a second row, or when the invitation is already marked.
AcceptInvitation(q) ==
    /\ q.op = "ACCEPT"
    /\ IF links[q.project][q.person] # "archived" /\ invitations[q.project][q.person] # "accepted"
         THEN /\ version' = [version EXCEPT ![q.person] = IF @ = 0 THEN 1 ELSE @]
              /\ links' = [links EXCEPT ![q.project][q.person] = "active"]
              /\ invitations' = [invitations EXCEPT ![q.project][q.person] = "accepted"]
         ELSE UNCHANGED <<version, links, invitations>>
    /\ Leave(q)
    /\ UNCHANGED <<open, users, cookie>>

-----------------------------------------------------------------------------
(* Sessions *)

\* The actor is resolved without an organization: the session of a reviewer
\* names no project.
ReviewerSession(x) == [actor |-> "REVIEWER", version |-> version[x], projects |-> {}]

\* A faulty variant: who has an invitation is taken for a reviewer.
LogInInvited(x) ==
    /\ IF x \notin users /\ \E p \in Projects : invitations[p][x] # "none"
         THEN cookie' = [cookie EXCEPT ![x] = {ReviewerSession(x)}] /\ UNCHANGED users
         ELSE cookie' = [cookie EXCEPT ![x] = {[actor |-> "INTERNAL"]}] /\ users' = users \cup {x}
    /\ UNCHANGED <<open, version, links, invitations, requests>>

\* A user's row comes first; who has neither row becomes a user, by an
\* invitation to a team or as the owner of a new organization.
LogIn(x) ==
    /\ IF x \notin users /\ version[x] > 0
         THEN cookie' = [cookie EXCEPT ![x] = {ReviewerSession(x)}] /\ UNCHANGED users
         ELSE cookie' = [cookie EXCEPT ![x] = {[actor |-> "INTERNAL"]}] /\ users' = users \cup {x}
    /\ UNCHANGED <<open, version, links, invitations, requests>>

\* verifyReviewerSession: the session names a project that is open and
\* linked, and has the current version.
Accepted(x, s) == /\ \E p \in s.projects : p \in open /\ links[p][x] = "active"
                  /\ s.version = version[x]

-----------------------------------------------------------------------------
(* Removing *)

LoadLink(r, p, x) ==
    /\ r \notin InFlight
    /\ p \in open /\ links[p][x] = "active"
    /\ Start(r, "REMOVE", p, x)
    /\ UNCHANGED <<open, users, version, links, invitations, cookie>>

\* The transaction archives the link, waiting for any other that does the
\* same, and counts the reviewer's other links to open projects.
Locked(q)     == \E o \in requests : /\ o.pc = "counted"
                                     /\ o.project = q.project /\ o.person = q.person
IsLastLink(q) == \A p \in open \ {q.project} : links[p][q.person] # "active"

CountLinks(q) ==
    /\ q.op = "REMOVE" /\ q.pc = "loaded" /\ ~Locked(q)
    /\ requests' = (requests \ {q}) \cup {[q EXCEPT !.pc = "counted", !.last = IsLastLink(q)]}
    /\ UNCHANGED <<open, users, version, links, invitations, cookie>>

\* A faulty variant: the link is taken back instead of archived.
DeleteLink(q) ==
    /\ q.op = "REMOVE" /\ q.pc = "counted"
    /\ links' = [links EXCEPT ![q.project][q.person] = "none"]
    /\ IF q.last THEN /\ version[q.person] < MaxVersion
                      /\ version' = [version EXCEPT ![q.person] = @ + 1]
                 ELSE UNCHANGED version
    /\ Leave(q)
    /\ UNCHANGED <<open, users, invitations, cookie>>

\* COMMIT; the removal of the last link ends the reviewer's sessions.
RemoveReviewer(q) ==
    /\ q.op = "REMOVE" /\ q.pc = "counted"
    /\ links' = [links EXCEPT ![q.project][q.person] = "archived"]
    /\ IF q.last THEN /\ version[q.person] < MaxVersion
                      /\ version' = [version EXCEPT ![q.person] = @ + 1]
                 ELSE UNCHANGED version
    /\ Leave(q)
    /\ UNCHANGED <<open, users, invitations, cookie>>

\* Archiving a project leaves its links as they are.
ArchiveProject(p) ==
    /\ p \in open
    /\ open' = open \ {p}
    /\ UNCHANGED <<users, version, links, invitations, cookie, requests>>

\* A request fails or is cut off; its transaction is rolled back.
Abandon(q) ==
    /\ Leave(q)
    /\ UNCHANGED <<open, users, version, links, invitations, cookie>>

-----------------------------------------------------------------------------
Next ==
    \/ \E p \in Projects, x \in People :
         \/ \E r \in Requests : CheckInvitee(r, p, x) \/ LoadInvitation(r, p, x)
                                \/ LoadLink(r, p, x)
         \/ Expire(p, x)
    \/ \E q \in requests : \/ CreateInvitation(q) \/ AcceptInvitation(q)
                           \/ CountLinks(q) \/ RemoveReviewer(q) \/ Abandon(q)
    \/ \E x \in People : LogIn(x)
    \/ \E p \in Projects : ArchiveProject(p)

Spec == Init /\ [][Next]_vars

-----------------------------------------------------------------------------
(* Properties *)

\* Rows, sessions and requests have the types of their columns and fields.
TypeOK ==
    /\ open \subseteq Projects
    /\ users \subseteq People
    /\ version \in [People -> 0..MaxVersion]
    /\ links \in [Projects -> [People -> LinkStatus]]
    /\ invitations \in [Projects -> [People -> InvitationStatus]]
    /\ cookie \in [People -> SUBSET Session]
    /\ requests \subseteq Request

LinksFollowInvitations ==
    \A p \in Projects, x \in People :
        (links[p][x] # "none") <=> (invitations[p][x] = "accepted")
ReviewersFollowLinks ==
    \A x \in People : version[x] > 0 <=> \E p \in Projects : links[p][x] # "none"

\* Three tables tell the same story, whoever accepts, expires or removes at
\* the same time: a person has, or had, a link to exactly the projects whose
\* invitation was accepted, and a reviewer's row if there is one.
TablesAgree == LinksFollowInvitations /\ ReviewersFollowLinks

\* A reviewer who was removed from a project never comes back to it, by no
\* invitation that was under way and by no new one.
RemovalIsFinal ==
    [][\A p \in Projects, x \in People :
         links[p][x] = "archived" => links'[p][x] = "archived"]_vars

\* What comes of the session that names no project: no request of a reviewer is
\* accepted, whatever links and invitations there are (buildCanonicalSession).
ReviewersAreRefused ==
    \A x \in People : \A s \in cookie[x] : s.actor = "REVIEWER" => ~Accepted(x, s)

=============================================================================
