---------------------------- MODULE ReviewItem ----------------------------
(***************************************************************************)
(* One review item under the requests that change it: the workflow actions *)
(* (send, approve, request changes), the upload of a new file (presign and *)
(* confirm), the removal of an attachment and the archiving of the item.   *)
(*                                                                         *)
(* A request is a sequence of database statements, and PostgreSQL runs the *)
(* transactions of concurrent requests at READ COMMITTED: each statement   *)
(* sees what is committed when it starts.  A request is therefore modelled *)
(* by its steps - load, check, commit - which interleave with those of the *)
(* other requests; a conditional UPDATE and what follows it up to COMMIT   *)
(* is one step, because the row stays locked.  A request may also stop     *)
(* between any two steps (error, Lambda timeout): its transaction is       *)
(* rolled back and nothing remains of it.                                  *)
(***************************************************************************)
EXTENDS Integers, Sequences, FiniteSets

CONSTANTS
    Requests,      \* requests that may be in flight at the same time
    Users,         \* internal users of the organization
    Reviewers,     \* external reviewers of the project
    UploadIds,     \* the random "<uuid>-<file name>" tails of S3 keys
    MadeUp,        \* tails of keys that a client makes up
    LeadingInt,    \* LeadingInt[t]: what parseInt makes of tail t, 0 for NaN (signs
                   \* are left out)
    MaxVersion     \* bound: no request raises the version above it

ASSUME RequestsAssumption   == LeadingInt \in [UploadIds \cup MadeUp -> Nat]
ASSUME MaxVersionAssumption == MaxVersion \in Nat \ {0}

VARIABLES
    item,           \* the row of review_items: status, version, archivedAt
    attachments,    \* the rows of attachments of the item
    issued,         \* S3 keys the clients have received from presign
    log,            \* activity_logs rows of the workflow actions, oldest first
    ahead,          \* versions taken by decisions whose body named a version that
                    \* the item read by their request did not have yet (for the
                    \* properties)
    users,          \* users of the organization with archivedAt = null
    reviewers,      \* reviewers with an active link to the active project
    decisions,      \* workflow actions in flight
    uploads,        \* presign requests in flight
    confirmations,  \* confirm requests in flight
    deletions       \* attachment deletions in flight

vars == <<item, attachments, issued, log, ahead, users, reviewers,
          decisions, uploads, confirmations, deletions>>
people  == <<users, reviewers>>
history == <<log, ahead>>

-----------------------------------------------------------------------------
(* Data *)

Status  == {"DRAFT", "PENDING_REVIEW", "CHANGES_REQUESTED", "APPROVED", "ARCHIVED"}
Version == 1..MaxVersion

\* The edges of TRANSITION_MAP.
Edge(from, action, to) == [from |-> from, action |-> action, to |-> to]
TransitionMap ==
    { Edge("DRAFT", "SEND_FOR_REVIEW", "PENDING_REVIEW"),
      Edge("PENDING_REVIEW", "APPROVE", "APPROVED"),
      Edge("PENDING_REVIEW", "REQUEST_CHANGES", "CHANGES_REQUESTED"),
      Edge("PENDING_REVIEW", "UPLOAD_NEW_VERSION", "PENDING_REVIEW"),
      Edge("CHANGES_REQUESTED", "UPLOAD_NEW_VERSION", "PENDING_REVIEW"),
      Edge("APPROVED", "UPLOAD_NEW_VERSION", "PENDING_REVIEW") }

\* The actions a route reaches; no handler passes UPLOAD_NEW_VERSION.
InternalActions == {"SEND_FOR_REVIEW"}
ReviewerActions == {"APPROVE", "REQUEST_CHANGES"}
RoutedEdges == {e \in TransitionMap : e.action \in InternalActions \cup ReviewerActions}

Key == [version : Version, tail : UploadIds \cup MadeUp]

Item         == [status : Status, version : Version, archived : BOOLEAN]
Attachment   == [key : Key, version : Nat]
LogEntry     == [action : InternalActions \cup ReviewerActions, from : Status,
                 to : Status, version : Version]
Decision     == [id : Requests, pc : {"loaded", "checked"}, edge : RoutedEdges,
                 previous : Status, seen : Version, expected : Version]
Upload       == [id : Requests, pc : {"loaded", "checked"}, status : Status,
                 version : Version, isNew : BOOLEAN]
Confirmation == [id : Requests, key : Key, version : Nat]
Deletion     == [id : Requests]

InFlight == {q.id : q \in decisions \cup uploads \cup confirmations \cup deletions}

\* Request id q enters a set of requests, moves on, or leaves it.
Enter(set, q)   == set \cup {q}
Move(set, q, r) == (set \ {q}) \cup {r}
Leave(set, q)   == set \ {q}

-----------------------------------------------------------------------------
(* Notification recipients of a workflow action.  Everybody resolved has an *)
(* id and an e-mail address, and the validation demands exactly one of the  *)
(* three identifying fields.                                                *)

Recipients(action) ==
    IF action = "SEND_FOR_REVIEW"
      THEN {[person |-> p, fields |-> {"reviewerId", "email"}] : p \in reviewers}
      ELSE {[person |-> p, fields |-> {"userId", "email"}] : p \in users}

ValidRecipient(r) == Cardinality(r.fields) = 1

NotificationsAccepted(action) == \A r \in Recipients(action) : ValidRecipient(r)

-----------------------------------------------------------------------------
Init ==
    /\ item = [status |-> "DRAFT", version |-> 1, archived |-> FALSE]
    /\ attachments = {} /\ issued = {} /\ log = <<>> /\ ahead = {}
    /\ users = Users /\ reviewers \in SUBSET Reviewers
    /\ decisions = {} /\ uploads = {} /\ confirmations = {} /\ deletions = {}

(***************************************************************************)
(* Workflow actions.                                                       *)
(***************************************************************************)

\* The handler loads the item and the service derives the new status from
\* it, outside the transaction.  The body may name any version; it is compared
\* in the transaction only.
LoadDecision(r) ==
    /\ r \notin InFlight
    /\ ~item.archived
    /\ \E e \in RoutedEdges, v \in Version :
         /\ e.from = item.status
         /\ e.action \in InternalActions => users # {}
         /\ e.action \in ReviewerActions => reviewers # {}
         /\ decisions' = Enter(decisions,
              [id |-> r, pc |-> "loaded", edge |-> e, previous |-> item.status,
               seen |-> item.version, expected |-> v])
    /\ UNCHANGED <<item, attachments, issued, history, people,
                   uploads, confirmations, deletions>>

\* The transaction reloads the row, keeps its status for the log, and
\* validates its version and the attachments.
DecisionValid(d) ==
    /\ ~item.archived
    /\ item.version = d.expected
    /\ d.edge.action = "SEND_FOR_REVIEW" => attachments # {}

CheckDecision(d) ==
    /\ d.pc = "loaded"
    /\ decisions' = IF DecisionValid(d)
                      THEN Move(decisions, d, [d EXCEPT !.pc = "checked",
                                                        !.previous = item.status])
                      ELSE Leave(decisions, d)
    /\ UNCHANGED <<item, attachments, issued, history, people,
                   uploads, confirmations, deletions>>

\* Faulty variants of the update's condition, for the properties below.
UpdateWithoutVersion(d) == ~item.archived
UpdateWithoutArchive(d) == item.version = d.expected

\* UPDATE ... WHERE version = expectedVersion AND archivedAt IS NULL matches.
UpdateMatches(d) == item.version = d.expected /\ ~item.archived

\* The update, the activity log, the notifications and COMMIT; a failed
\* update and a refused notification both roll the transaction back.
CommitDecision(d) ==
    /\ d.pc = "checked"
    /\ decisions' = Leave(decisions, d)
    /\ IF UpdateMatches(d) /\ NotificationsAccepted(d.edge.action)
         THEN /\ item.version < MaxVersion
              /\ item' = [item EXCEPT !.status = d.edge.to, !.version = @ + 1]
              /\ log' = Append(log, [action |-> d.edge.action, from |-> d.previous,
                                     to |-> d.edge.to, version |-> item.version])
              /\ ahead' = IF d.expected > d.seen THEN ahead \cup {item.version} ELSE ahead
         ELSE UNCHANGED <<item, history>>
    /\ UNCHANGED <<attachments, issued, people, uploads, confirmations, deletions>>

(***************************************************************************)
(* Uploading a file: presign moves the item, confirm records the file.     *)
(***************************************************************************)

\* generatePresignedUpload reads the item through the shared client ...
LoadUpload(r) ==
    /\ r \notin InFlight
    /\ users # {} /\ ~item.archived
    /\ uploads' = Enter(uploads, [id |-> r, pc |-> "loaded", status |-> item.status,
                                  version |-> item.version, isNew |-> FALSE])
    /\ UNCHANGED <<item, attachments, issued, history, people,
                   decisions, confirmations, deletions>>

\* The response with the key for version v reaches the client, or is lost.
IssueKey(v) ==
    \/ UNCHANGED issued
    \/ \E t \in UploadIds : /\ \A k \in issued : k.tail # t
                           /\ issued' = issued \cup {[version |-> v, tail |-> t]}

\* ... then looks for an attachment, inside the transaction ...
IsNewVersion(u) == u.status \in {"CHANGES_REQUESTED", "APPROVED"} \/ attachments # {}

\* A faulty variant: the key is sent while the transaction is still open.
CheckUploadAndAnswer(u) ==
    /\ u.pc = "loaded"
    /\ uploads' = Move(uploads, u, [u EXCEPT !.pc = "checked", !.isNew = IsNewVersion(u)])
    /\ IF IsNewVersion(u) /\ u.version < MaxVersion THEN IssueKey(u.version + 1)
                                                   ELSE IssueKey(u.version)
    /\ UNCHANGED <<item, attachments, history, people, decisions, confirmations, deletions>>

\* The count of attachments; nothing is answered before COMMIT.
CheckUpload(u) ==
    /\ u.pc = "loaded"
    /\ uploads' = Move(uploads, u, [u EXCEPT !.pc = "checked", !.isNew = IsNewVersion(u)])
    /\ UNCHANGED <<item, attachments, issued, history, people,
                   decisions, confirmations, deletions>>

StatusAfterUpload(s) == IF s \in {"CHANGES_REQUESTED", "APPROVED"} THEN "PENDING_REVIEW" ELSE s

\* A faulty variant: the item is reopened under the version it has.
CommitUploadSilently(u) ==
    /\ u.pc = "checked"
    /\ uploads' = Leave(uploads, u)
    /\ IssueKey(u.version)
    /\ item' = IF u.isNew /\ item.version = u.version
                 THEN [item EXCEPT !.status = StatusAfterUpload(u.status)]
                 ELSE item
    /\ UNCHANGED <<attachments, history, people, decisions, confirmations, deletions>>

\* ... and moves the item if the version it read is still the current one;
\* otherwise the update finds no row and the request fails.  The update has
\* no condition on archivedAt.
CommitUpload(u) ==
    /\ u.pc = "checked"
    /\ uploads' = Leave(uploads, u)
    /\ \/ /\ u.isNew /\ item.version = u.version
          /\ item.version < MaxVersion
          /\ item' = [item EXCEPT !.status = StatusAfterUpload(u.status), !.version = @ + 1]
          /\ IssueKey(item.version + 1)
       \/ /\ u.isNew /\ item.version # u.version
          /\ UNCHANGED <<item, issued>>
       \/ /\ ~u.isNew
          /\ IssueKey(u.version)
          /\ UNCHANGED item
    /\ UNCHANGED <<attachments, history, people, decisions, confirmations, deletions>>

\* A faulty variant: NaN, here -1, is used as the version.
VersionFromKeyUnchecked(k) == IF LeadingInt[k.tail] # 0 THEN LeadingInt[k.tail] ELSE -1

\* The fifth segment of the key is its random tail, the version is the
\* fourth: the tail is parsed, and the item's version is the fallback.
VersionFromKey(k) == IF LeadingInt[k.tail] # 0 THEN LeadingInt[k.tail] ELSE item.version

\* The body of a confirmation may name any key: one that was issued, or one that
\* the client makes up.  The version in a key is never read; 1 stands for what a
\* client writes there.
ConfirmableKeys == issued \cup [version : {1}, tail : MadeUp]

\* confirmUpload reads the item twice, for archivedAt and for the version.
LoadConfirmation(r) ==
    /\ r \notin InFlight
    /\ users # {} /\ ~item.archived
    /\ \E k \in ConfirmableKeys :
         confirmations' = Enter(confirmations,
             [id |-> r, key |-> k, version |-> VersionFromKey(k)])
    /\ UNCHANGED <<item, attachments, issued, history, people,
                   decisions, uploads, deletions>>

\* A second row with the same key breaks the unique index: nothing changes.
CommitConfirmation(c) ==
    /\ confirmations' = Leave(confirmations, c)
    /\ attachments' = IF \E a \in attachments : a.key = c.key
                        THEN attachments
                        ELSE attachments \cup {[key |-> c.key, version |-> c.version]}
    /\ UNCHANGED <<item, issued, history, people, decisions, uploads, deletions>>

(***************************************************************************)
(* Deleting an attachment and archiving the item.                          *)
(***************************************************************************)

LoadDeletion(r) ==
    /\ r \notin InFlight
    /\ users # {} /\ ~item.archived
    /\ deletions' = Enter(deletions, [id |-> r])
    /\ UNCHANGED <<item, attachments, issued, history, people,
                   decisions, uploads, confirmations>>

CommitDeletion(d) ==
    /\ deletions' = Leave(deletions, d)
    /\ \E a \in attachments : attachments' = attachments \ {a}
    /\ UNCHANGED <<item, issued, history, people, decisions, uploads, confirmations>>

\* The only condition is that of the final updateMany; the version stays.
ArchiveReviewItem ==
    /\ users # {} /\ ~item.archived
    /\ item' = [item EXCEPT !.archived = TRUE]
    /\ UNCHANGED <<attachments, issued, history, people,
                   decisions, uploads, confirmations, deletions>>

(***************************************************************************)
(* The surroundings.                                                       *)
(***************************************************************************)

\* A request stops between two steps, or fails one of its other checks.
Abandon(r) ==
    /\ r \in InFlight
    /\ decisions'     = {q \in decisions : q.id # r}
    /\ uploads'       = {q \in uploads : q.id # r}
    /\ confirmations' = {q \in confirmations : q.id # r}
    /\ deletions'     = {q \in deletions : q.id # r}
    /\ UNCHANGED <<item, attachments, issued, history, people>>

\* Users join (invitation accepted) and leave (removed from the team).
TeamChanges ==
    /\ \E u \in Users : users' = IF u \in users THEN users \ {u} ELSE users \cup {u}
    /\ UNCHANGED <<item, attachments, issued, history, reviewers,
                   decisions, uploads, confirmations, deletions>>

\* Reviewers are linked to the project (invitation accepted) and unlinked.
ReviewersChange ==
    /\ \E p \in Reviewers :
         reviewers' = IF p \in reviewers THEN reviewers \ {p} ELSE reviewers \cup {p}
    /\ UNCHANGED <<item, attachments, issued, history, users,
                   decisions, uploads, confirmations, deletions>>

-----------------------------------------------------------------------------
Next ==
    \/ \E r \in Requests : \/ LoadDecision(r) \/ LoadUpload(r) \/ LoadConfirmation(r)
                           \/ LoadDeletion(r) \/ Abandon(r)
    \/ \E d \in decisions : CheckDecision(d) \/ CommitDecision(d)
    \/ \E u \in uploads : CheckUpload(u) \/ CommitUpload(u)
    \/ \E c \in confirmations : CommitConfirmation(c)
    \/ \E d \in deletions : CommitDeletion(d)
    \/ ArchiveReviewItem \/ TeamChanges \/ ReviewersChange

Spec == Init /\ [][Next]_vars

-----------------------------------------------------------------------------
(* Properties *)

\* Every variable has the type of its column or message; a request id is in
\* flight once.
TypeOK ==
    /\ item \in Item
    /\ attachments \subseteq Attachment
    /\ issued \subseteq Key
    /\ log \in Seq(LogEntry) /\ ahead \subseteq Version
    /\ users \subseteq Users /\ reviewers \subseteq Reviewers
    /\ decisions \subseteq Decision
    /\ uploads \subseteq Upload
    /\ confirmations \subseteq Confirmation
    /\ deletions \subseteq Deletion

\* What a request read before its transaction is still true as long as the
\* version it read is the current one: the status, on which a decision has
\* chosen its edge and an upload its next status, never changes under an
\* unchanged version.
DecisionsStayFresh ==
    \A d \in decisions :
        /\ d.seen <= item.version
        /\ d.seen = item.version => d.edge.from = item.status
        /\ d.pc = "checked" => /\ d.expected <= item.version
                               /\ d.expected = item.version => d.previous = item.status
UploadsStayFresh ==
    \A u \in uploads : /\ u.version <= item.version
                       /\ u.version = item.version => u.status = item.status
ReadsStayFresh == DecisionsStayFresh /\ UploadsStayFresh

\* A client never holds a key for a version that the item has not reached:
\* the key is sent after COMMIT only.
KeysFollowCommits == \A k \in issued : k.version <= item.version

\* What requests have read and what clients have been told agrees with the item
\* (executeTransition, incrementVersionIfNeeded, generatePresignedUpload).
RequestsStayFresh == ReadsStayFresh /\ KeysFollowCommits

\* The activity log tells one story, whatever versions the clients send: it
\* begins with the sending of the draft; no two decisions were taken on the same
\* version; consecutive decisions connect unless a new version of the file came
\* between them; the last one led to the present status unless such a version
\* came after it; and each is an edge of the map, except where a client was ahead
\* of the item that its request had read (createActivityLog).
AuditTrail ==
    /\ IF log = <<>> THEN item.status = "DRAFT"
                     ELSE log[1].action = "SEND_FOR_REVIEW" /\ log[1].from = "DRAFT"
    /\ \A i \in DOMAIN log :
         /\ log[i].version \in ahead
              \/ Edge(log[i].from, log[i].action, log[i].to) \in TransitionMap
         /\ log[i].version < item.version
         /\ i < Len(log) =>
              /\ log[i].version < log[i + 1].version
              /\ log[i + 1].version = log[i].version + 1 => log[i + 1].from = log[i].to
    /\ log # <<>> /\ log[Len(log)].version + 1 = item.version
         => log[Len(log)].to = item.status

\* Once the item is archived no workflow decision takes effect, those that
\* passed all their checks before it included.
NoDecisionAfterArchive == [][item.archived => UNCHANGED log]_vars

\* The interleaved requests implement the atomic lifecycle, whatever versions the
\* clients send (executeTransition, incrementVersionIfNeeded).
Lifecycle == INSTANCE ReviewLifecycle WITH Edges <- TransitionMap,
    status <- item.status, version <- item.version, archived <- item.archived
ImplementsLifecycle == Lifecycle!Spec

\* isValidRecipient asks for one identifying field at least: a workflow
\* action that passed its checks on a row that has not changed takes effect.
CheckedDecisionsSucceed ==
    \A d \in decisions :
        d.pc = "checked" /\ UpdateMatches(d) => NotificationsAccepted(d.edge.action)

=============================================================================
