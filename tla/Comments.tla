---------------------------- MODULE Comments ----------------------------
(***************************************************************************)
(* The comments of one review item: adding, deleting, listing them page by  *)
(* page, while the item is archived and people come and go.                 *)
(*                                                                          *)
(* A request runs statement by statement.  Adding a comment is one          *)
(* transaction: the comment is visible to others at its commit, and its     *)
(* createdAt is older than that.  Deleting is not: deleteScoped runs on the *)
(* shared client, outside of the transaction that writes the log entry.  A  *)
(* request may stop between any two statements; its open transaction is     *)
(* rolled back then, and what it did on the shared client stays.            *)
(***************************************************************************)
EXTENDS Pagination

CONSTANTS
    Requests,    \* requests that may be in flight at the same time
    Users,       \* internal users that exist in the organization
    Role,        \* Role[u]: OWNER, ADMIN or MEMBER
    Reviewers,   \* reviewers that have been linked to the project
    Nobody,      \* no person
    CommentIds,  \* ids of comments; numbers, for their order
    MaxTime,     \* bound on the clock
    PageSize     \* the limit a client lists with

ASSUME RoleAssumption  == Role \in [Users -> {"OWNER", "ADMIN", "MEMBER"}]
ASSUME PeopleAreApart  == Users \cap Reviewers = {} /\ Nobody \notin Users \cup Reviewers
ASSUME IdsAssumption   == CommentIds \subseteq Nat /\ IsFiniteSet(CommentIds)
ASSUME TimeAssumption  == MaxTime \in Nat
ASSUME LimitAssumption == PageSize \in Limits

VARIABLES
    archived,  \* archivedAt of the item is set
    users,     \* users with archivedAt = null
    linked,    \* reviewers with an active link to the project
    now,       \* the clock of the database
    comments,  \* rows of comments, committed or inserted by an open transaction
    log,       \* number of COMMENT_ADDED and COMMENT_DELETED entries by comment
    requests,  \* requests in flight
    walk       \* a client that lists the comments page after page; "stayed" is for
               \* the properties: the comments it could see all along

vars   == <<archived, users, linked, now, comments, log, requests, walk>>
people == <<users, linked>>

-----------------------------------------------------------------------------
(* Data *)

People == Users \cup Reviewers

\* "open": inserted by a transaction that has not committed; "free": the id has
\* not been drawn, or its transaction was rolled back.
Comment == [state : {"free", "open", "live", "deleted"},
            author : People \cup {Nobody}, createdAt : 0..MaxTime]
NoComment == [state |-> "free", author |-> Nobody, createdAt |-> 0]

Adding   == [id : Requests, pc : {"add"}, by : People]
Added    == [id : Requests, pc : {"commit"}, by : People, comment : CommentIds]
Deleting == [id : Requests, pc : {"check", "delete", "log"}, by : People,
             comment : CommentIds]
Walk == [phase : {"idle", "walking", "done"}, by : People \cup {Nobody},
         cursor : SUBSET [createdAt : 0..MaxTime, id : CommentIds],
         seen : [CommentIds -> Nat], stayed : SUBSET CommentIds]
Idle == [phase |-> "idle", by |-> Nobody, cursor |-> {},
         seen |-> [c \in CommentIds |-> 0], stayed |-> {}]

Live    == {c \in CommentIds : comments[c].state = "live"}
Row(c)  == [createdAt |-> comments[c].createdAt, id |-> c]
\* listByReviewItem: the rows of the item every statement of others sees.
Rows    == {Row(c) : c \in Live}
Free(q) == \A r \in requests : r.id # q

\* The actor reaches the item: an internal user of the organization, whose role
\* was read when the request was authenticated, or a reviewer who is still
\* linked to the project; and findByIdScoped hides an archived item.
Reaches(a) == ~archived /\ a \in users \cup linked
MayFind(a) == ~archived /\ (a \in Users \/ a \in linked)

\* A faulty variant: any internal user may delete any comment.
MayDeleteAny(a, c) == comments[c].author = a \/ a \in Users
\* The rule of the RBAC policies for the action the handler picks.
MayDelete(a, c) == \/ comments[c].author = a                 \* DELETE_OWN_COMMENT
                   \/ a \in Users /\ Role[a] \in {"OWNER", "ADMIN"}

\* resolveRecipients for COMMENT_ADDED: the other side.
Audience(a) == IF a \in Reviewers THEN users ELSE linked

-----------------------------------------------------------------------------
Init ==
    /\ archived = FALSE
    /\ users = Users
    /\ linked \in SUBSET Reviewers
    /\ now = 0
    /\ comments = [c \in CommentIds |-> NoComment]
    /\ log = [added |-> [c \in CommentIds |-> 0], deleted |-> [c \in CommentIds |-> 0]]
    /\ requests = {}
    /\ walk = Idle

(* Adding a comment *)

\* handlePostComment: the item is found and any actor may comment.
RequestComment(q, a) ==
    /\ Free(q)
    /\ Reaches(a)
    /\ requests' = requests \cup {[id |-> q, pc |-> "add", by |-> a]}
    /\ UNCHANGED <<archived, people, now, comments, log, walk>>

\* A faulty variant: the log entry is written on the shared client.
InsertCommentLogged(r, c) ==
    /\ r.pc = "add"
    /\ MayFind(r.by)
    /\ comments[c].state = "free"
    /\ comments' = [comments EXCEPT ![c] =
                       [state |-> "open", author |-> r.by, createdAt |-> now]]
    /\ log' = [log EXCEPT !.added[c] = @ + 1]
    /\ requests' = (requests \ {r})
                       \cup {[id |-> r.id, pc |-> "commit", by |-> r.by, comment |-> c]}
    /\ UNCHANGED <<archived, people, now, walk>>

\* A faulty variant: the insertion is tried again while the first one is under way.
InsertCommentAgain(r, c) ==
    /\ r.pc = "add"
    /\ MayFind(r.by)
    /\ comments[c].state = "free"
    /\ comments' = [comments EXCEPT ![c] =
                       [state |-> "open", author |-> r.by, createdAt |-> now]]
    /\ requests' = requests
                       \cup {[id |-> r.id, pc |-> "commit", by |-> r.by, comment |-> c]}
    /\ UNCHANGED <<archived, people, now, log, walk>>

\* addComment: the item is loaded again, the comment and its log entry inserted.
InsertComment(r, c) ==
    /\ r.pc = "add"
    /\ MayFind(r.by)
    /\ comments[c].state = "free"
    /\ comments' = [comments EXCEPT ![c] =
                       [state |-> "open", author |-> r.by, createdAt |-> now]]
    /\ requests' = (requests \ {r})
                       \cup {[id |-> r.id, pc |-> "commit", by |-> r.by, comment |-> c]}
    /\ UNCHANGED <<archived, people, now, log, walk>>

\* The event is dispatched.  No recipient passes validateRecipientInvariant (each
\* carries an id and an address), so that the transaction commits only with
\* nobody to notify, or when the item has been archived since it was loaded.
CommitComment(r) ==
    /\ r.pc = "commit"
    /\ archived \/ Audience(r.by) = {}
    /\ comments' = [comments EXCEPT ![r.comment].state = "live"]
    /\ log' = [log EXCEPT !.added[r.comment] = @ + 1]
    /\ requests' = requests \ {r}
    /\ UNCHANGED <<archived, people, now, walk>>

(* Deleting a comment *)

\* handleDeleteComment: the comment is found and the actor may delete it.
RequestDeletion(q, a, c) ==
    /\ Free(q)
    /\ a \in users \cup linked
    /\ c \in Live
    /\ MayDelete(a, c)
    /\ requests' = requests \cup {[id |-> q, pc |-> "check", by |-> a, comment |-> c]}
    /\ UNCHANGED <<archived, people, now, comments, log, walk>>

\* deleteComment: the item and the comment are loaded again; a reviewer deletes
\* only a comment of their own.
CheckDeletion(r) ==
    /\ r.pc = "check"
    /\ MayFind(r.by)
    /\ r.comment \in Live
    /\ r.by \in Reviewers => comments[r.comment].author = r.by
    /\ requests' = (requests \ {r}) \cup {[r EXCEPT !.pc = "delete"]}
    /\ UNCHANGED <<archived, people, now, comments, log, walk>>

\* deleteScoped: DELETE on the shared client, which commits by itself; it matches
\* no row, and raises no error, when another request was first.
DeleteRow(r) ==
    /\ r.pc = "delete"
    /\ comments' = [comments EXCEPT ![r.comment].state = "deleted"]
    /\ requests' = (requests \ {r}) \cup {[r EXCEPT !.pc = "log"]}
    /\ walk' = [walk EXCEPT !.stayed = @ \ {r.comment}]
    /\ UNCHANGED <<archived, people, now, log>>

\* The log entry is inserted and the transaction commits.
LogDeletion(r) ==
    /\ r.pc = "log"
    /\ log' = [log EXCEPT !.deleted[r.comment] = @ + 1]
    /\ requests' = requests \ {r}
    /\ UNCHANGED <<archived, people, now, comments, walk>>

\* An error, a check that fails or a Lambda that is stopped: the transaction is
\* rolled back, with the comment it has inserted.
Abandon(r) ==
    /\ requests' = requests \ {r}
    /\ comments' = IF r.pc = "commit" THEN [comments EXCEPT ![r.comment] = NoComment]
                                      ELSE comments
    /\ UNCHANGED <<archived, people, now, log, walk>>

-----------------------------------------------------------------------------
(* Listing *)

\* What a page adds to the walk: listComments checks the item again each time.
\* Without a next cursor the list has ended.
Read(a, rows, cursor, seen, stayed) ==
    LET page == Page(rows, cursor, PageSize)
        next == NextCursor(page, PageSize) IN
    walk' = [phase  |-> IF next = {} THEN "done" ELSE "walking",
             by     |-> a,
             cursor |-> next,
             seen   |-> [c \in CommentIds |->
                            IF \E row \in page : row.id = c THEN seen[c] + 1 ELSE seen[c]],
             stayed |-> stayed]

FirstPage(a) ==
    /\ walk.phase = "idle"
    /\ Reaches(a)
    /\ Read(a, Rows, {}, [c \in CommentIds |-> 0], Live)
    /\ UNCHANGED <<archived, people, now, comments, log, requests>>

FollowingPage ==
    /\ walk.phase = "walking"
    /\ Reaches(walk.by)
    /\ Read(walk.by, Rows, walk.cursor, walk.seen, walk.stayed)
    /\ UNCHANGED <<archived, people, now, comments, log, requests>>

\* The client gives up, or the item is hidden from it, or it starts over.
EndWalk ==
    /\ walk.phase # "idle"
    /\ walk' = Idle
    /\ UNCHANGED <<archived, people, now, comments, log, requests>>

-----------------------------------------------------------------------------
(* The rest of the system *)

Archive ==
    /\ ~archived
    /\ archived' = TRUE
    /\ UNCHANGED <<people, now, comments, log, requests, walk>>

\* A user is removed from the team (archiveUser), for good.
UserLeaves(u) ==
    /\ u \in users
    /\ users' = users \ {u}
    /\ UNCHANGED <<archived, linked, now, comments, log, requests, walk>>

\* A reviewer is removed from the project, or invited to it again.
ReviewersChange(v) ==
    /\ linked' = IF v \in linked THEN linked \ {v} ELSE linked \cup {v}
    /\ UNCHANGED <<archived, users, now, comments, log, requests, walk>>

Tick ==
    /\ now < MaxTime
    /\ now' = now + 1
    /\ UNCHANGED <<archived, people, comments, log, requests, walk>>

Next ==
    \/ \E q \in Requests, a \in People : RequestComment(q, a)
    \/ \E r \in requests, c \in CommentIds : InsertComment(r, c)
    \/ \E r \in requests : CommitComment(r)
    \/ \E q \in Requests, a \in People, c \in CommentIds : RequestDeletion(q, a, c)
    \/ \E r \in requests :
           CheckDeletion(r) \/ DeleteRow(r) \/ LogDeletion(r) \/ Abandon(r)
    \/ \E a \in People : FirstPage(a)
    \/ FollowingPage \/ EndWalk
    \/ Archive \/ Tick
    \/ \E u \in Users : UserLeaves(u)
    \/ \E v \in Reviewers : ReviewersChange(v)

Spec == Init /\ [][Next]_vars

-----------------------------------------------------------------------------
(* Properties *)

\* Types; a request is in one place at a time, and what an open transaction has
\* inserted is there as long as the transaction is (addComment).
TypeOK ==
    /\ archived \in BOOLEAN
    /\ users \subseteq Users
    /\ linked \subseteq Reviewers
    /\ now \in 0..MaxTime
    /\ comments \in [CommentIds -> Comment]
    /\ log \in [added : [CommentIds -> Nat], deleted : [CommentIds -> Nat]]
    /\ requests \subseteq Adding \cup Added \cup Deleting
    /\ \A r, s \in requests : r.id = s.id => r = s
    /\ walk \in Walk

\* A client that follows nextCursor to the end is shown every comment that was
\* there all along, and no comment twice, whatever is added and deleted while it
\* reads and however many comments share a createdAt (listByReviewItem).
WalksAreComplete ==
    /\ \A c \in CommentIds : walk.seen[c] <= 1
    /\ walk.phase = "done" => \A c \in walk.stayed : walk.seen[c] = 1

\* The activity log tells the truth about comments: exactly one COMMENT_ADDED for
\* each that was ever visible, none for one that was rolled back, and a
\* COMMENT_DELETED only for one that is gone, even though the deletion and its
\* entry do not commit together (addComment, deleteComment).
AuditIsTrue ==
    \A c \in CommentIds :
        /\ log.added[c] = IF comments[c].state \in {"live", "deleted"} THEN 1 ELSE 0
        /\ log.deleted[c] > 0 => comments[c].state = "deleted"

\* A comment disappears only at the request of its author or of an owner or
\* admin: the check is made in the handler, on a comment that is loaded again
\* afterwards (handleDeleteComment, validateCommentDeletionPermission).
OnlyTheirs(r, c) ==
    r.by = comments[c].author \/ (r.by \in Users /\ Role[r.by] # "MEMBER")
DeletionsAreTheirs ==
    [][\A c \in Live : comments'[c] # comments[c] =>
           \E r \in requests : r.pc = "delete" /\ r.comment = c /\ OnlyTheirs(r, c)]_vars
=============================================================================
