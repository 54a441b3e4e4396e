-------------------------- MODULE Comments_proofs --------------------------
(***************************************************************************)
(* Proofs about Comments, and about the pages of Pagination: for any number *)
(* of comments, people and requests, any clock and any page size, the log  *)
(* tells the truth, only who may deletes, and a client that follows the    *)
(* cursors to the end has seen every comment once.                         *)
(***************************************************************************)
EXTENDS Comments, FiniteSetTheorems, WellFoundedInduction, TLAPS

-----------------------------------------------------------------------------
(* Pages of rows *)

AllRows == [createdAt : 0..MaxTime, id : CommentIds]

\* Rows are ordered: Newer is irreflexive, transitive and total.
LEMMA Ordered ==
    ASSUME NEW r \in AllRows, NEW s \in AllRows, NEW t \in AllRows
    PROVE  /\ ~Newer(r, r)
           /\ Newer(r, s) /\ Newer(s, t) => Newer(r, t)
           /\ r # s => Newer(r, s) \/ Newer(s, r)
<1>1. /\ r.createdAt \in Int /\ s.createdAt \in Int /\ t.createdAt \in Int
      /\ r.id \in Int /\ s.id \in Int /\ t.id \in Int
  <2>1. \A x \in AllRows : x.createdAt \in 0..MaxTime /\ x.id \in CommentIds
        BY DEF AllRows
  <2>2. \A i \in 0..MaxTime : i \in Int
        BY TimeAssumption
  <2>3. \A i \in CommentIds : i \in Int
        BY IdsAssumption
  <2>4. QED BY <2>1, <2>2, <2>3
<1>2. r.createdAt = s.createdAt /\ r.id = s.id => r = s
      BY DEF AllRows
<1>3. QED BY <1>1, <1>2 DEF Newer

\* A part of a finite set that leaves something out has fewer elements.
LEMMA Smaller ==
    ASSUME NEW S, IsFiniteSet(S), NEW T \in SUBSET S, NEW x \in S, x \notin T
    PROVE  /\ Cardinality(T) \in Nat /\ Cardinality(S) \in Nat
           /\ Cardinality(T) < Cardinality(S)
<1>1. IsFiniteSet(T) /\ Cardinality(T) <= Cardinality(S)
      BY FS_Subset
<1>2. Cardinality(T) \in Nat /\ Cardinality(S) \in Nat
      BY <1>1, FS_CardinalityType
<1>3. T # S
      OBVIOUS
<1>4. Cardinality(T) # Cardinality(S)
      BY <1>3, FS_Subset
<1>5. QED BY <1>1, <1>2, <1>4

\* A set of rows that is not empty has a newest and an oldest row: the sets of rows
\* before, respectively after, a row are smallest there.
LEMMA Newest ==
    ASSUME NEW S \in SUBSET AllRows, IsFiniteSet(S), S # {}
    PROVE  \E r \in S : \A s \in S : ~Newer(s, r)
<1> DEFINE Before(r) == {s \in S : Newer(s, r)}
           Sets == {Before(r) : r \in S}
<1>1. IsWellFoundedOn(StrictSubsetOrdering(S), FiniteSubsetsOf(S))
      BY FS_StrictSubsetOrderingWellFounded
<1>2. Sets \subseteq FiniteSubsetsOf(S) /\ Sets # {}
  <2>1. FiniteSubsetsOf(S) = SUBSET S
        BY FS_FiniteSubsetsOfFinite
  <2>2. Sets \subseteq SUBSET S /\ Sets # {}
        OBVIOUS
  <2>3. QED BY <2>1, <2>2
<1>3. PICK X \in Sets : \A Y \in Sets : <<Y, X>> \notin StrictSubsetOrdering(S)
      BY <1>1, <1>2, WFMin
<1>4. PICK r \in S : X = Before(r)
      OBVIOUS
<1>5. ASSUME NEW s \in S, Newer(s, r) PROVE FALSE
  <2>1. /\ Before(s) \subseteq Before(r) /\ s \in Before(r) /\ s \notin Before(s)
        /\ Before(s) \in Sets /\ Before(s) \subseteq S /\ Before(r) \subseteq S
        BY <1>5, Ordered
  <2> HIDE DEF Before, Sets
  <2>2. <<Before(s), Before(r)>> \in StrictSubsetOrdering(S)
        BY <2>1 DEF StrictSubsetOrdering
  <2>3. QED BY <1>3, <1>4, <2>1, <2>2
<1>6. QED BY <1>5

LEMMA Oldest ==
    ASSUME NEW S \in SUBSET AllRows, IsFiniteSet(S), S # {}
    PROVE  \E r \in S : \A s \in S : ~Newer(r, s)
<1> DEFINE Behind(r) == {s \in S : Newer(r, s)}
           Sets == {Behind(r) : r \in S}
<1>1. IsWellFoundedOn(StrictSubsetOrdering(S), FiniteSubsetsOf(S))
      BY FS_StrictSubsetOrderingWellFounded
<1>2. Sets \subseteq FiniteSubsetsOf(S) /\ Sets # {}
  <2>1. FiniteSubsetsOf(S) = SUBSET S
        BY FS_FiniteSubsetsOfFinite
  <2>2. Sets \subseteq SUBSET S /\ Sets # {}
        OBVIOUS
  <2>3. QED BY <2>1, <2>2
<1>3. PICK X \in Sets : \A Y \in Sets : <<Y, X>> \notin StrictSubsetOrdering(S)
      BY <1>1, <1>2, WFMin
<1>4. PICK r \in S : X = Behind(r)
      OBVIOUS
<1>5. ASSUME NEW s \in S, Newer(r, s) PROVE FALSE
  <2>1. /\ Behind(s) \subseteq Behind(r) /\ s \in Behind(r) /\ s \notin Behind(s)
        /\ Behind(s) \in Sets /\ Behind(s) \subseteq S /\ Behind(r) \subseteq S
        BY <1>5, Ordered
  <2> HIDE DEF Behind, Sets
  <2>2. <<Behind(s), Behind(r)>> \in StrictSubsetOrdering(S)
        BY <2>1 DEF StrictSubsetOrdering
  <2>3. QED BY <1>3, <1>4, <2>1, <2>2
<1>6. QED BY <1>5

\* A page is a beginning of the list: what it leaves out is older.
LEMMA PageIsPrefix ==
    ASSUME NEW rows \in SUBSET AllRows, IsFiniteSet(rows), NEW k \in Nat,
           NEW r \in Take(rows, k), NEW s \in rows, s \notin Take(rows, k)
    PROVE  Newer(r, s)
<1> DEFINE Before(x) == {y \in rows : Newer(y, x)}
<1>1. /\ r \in rows /\ Cardinality(Before(r)) < k /\ ~(Cardinality(Before(s)) < k)
      BY DEF Take
<1>2. SUFFICES ASSUME Newer(s, r) PROVE FALSE
      BY <1>1, Ordered
<1>3. Before(s) \in SUBSET Before(r) /\ s \in Before(r) /\ s \notin Before(s)
      BY <1>1, <1>2, Ordered
<1>4. IsFiniteSet(Before(r))
      BY FS_Subset
<1> HIDE DEF Before
<1>5. /\ Cardinality(Before(s)) \in Nat /\ Cardinality(Before(r)) \in Nat
      /\ Cardinality(Before(s)) < Cardinality(Before(r))
      BY <1>3, <1>4, Smaller
<1>6. QED BY <1>1, <1>5

\* Without a next cursor the page is all there is.
LEMMA LastPageIsAll ==
    ASSUME NEW rows \in SUBSET AllRows, IsFiniteSet(rows), NEW k \in Nat \ {0},
           NextCursor(Take(rows, k), k) = {}
    PROVE  Take(rows, k) = rows
<1> DEFINE page == Take(rows, k)
<1>1. page \in SUBSET rows
      BY DEF Take
<1>2. IsFiniteSet(page) /\ Cardinality(page) \in Nat
      BY <1>1, FS_Subset, FS_CardinalityType
<1>3. Cardinality(page) < k
  <2>1. SUFFICES ASSUME Cardinality(page) >= k PROVE FALSE
        BY <1>2
  <2>2. page # {}
        BY <1>2, <2>1, FS_EmptySet
  <2>3. PICK r \in page : \A s \in page : ~Newer(r, s)
        BY <1>1, <1>2, <2>2, Oldest
  <2>4. \A s \in page \ {r} : Newer(s, r)
        BY <1>1, <2>3, Ordered
  <2>5. r \in NextCursor(page, k)
        BY <2>1, <2>4 DEF NextCursor
  <2>6. QED BY <2>5
<1>4. SUFFICES ASSUME rows \ page # {} PROVE FALSE
      BY <1>1
<1>5. IsFiniteSet(rows \ page)
      BY FS_Subset
<1>6. PICK m \in rows \ page : \A s \in rows \ page : ~Newer(s, m)
      BY <1>4, <1>5, Newest
<1>7. {s \in rows : Newer(s, m)} \in SUBSET page
      BY <1>6
<1>8. Cardinality({s \in rows : Newer(s, m)}) <= Cardinality(page)
      BY <1>2, <1>7, FS_Subset
<1>9. Cardinality({s \in rows : Newer(s, m)}) \in Nat
      BY <1>2, <1>7, FS_Subset, FS_CardinalityType
<1>10. Cardinality({s \in rows : Newer(s, m)}) < k
      BY <1>2, <1>3, <1>8, <1>9
<1>11. m \in page
      BY <1>6, <1>10 DEF Take
<1>12. QED BY <1>6, <1>11

-----------------------------------------------------------------------------
(* The inductive invariant *)

Visible(c) == comments[c].state \in {"live", "deleted"}

\* What a request relies on: the comment its open transaction has inserted, which
\* nobody else has, or the comment it may delete.
RequestsOK ==
    \A r \in requests :
        /\ r.pc = "commit" => /\ comments[r.comment].state = "open"
                              /\ \A s \in requests : s.pc = "commit" /\ s.comment = r.comment
                                                         => s = r
        /\ r.pc \in {"check", "delete", "log"} => Visible(r.comment) /\ OnlyTheirs(r, r.comment)
        /\ r.pc = "log" => comments[r.comment].state = "deleted"

\* A client has seen what is not beyond its cursor, once: the comments that stayed
\* are seen or still to come.
WalkOK ==
    /\ \A c \in CommentIds : walk.seen[c] <= 1 /\ (walk.seen[c] > 0 => Visible(c))
    /\ walk.stayed \subseteq Live
    /\ walk.phase = "walking" => \E cur \in AllRows :
           /\ walk.cursor = {cur}
           /\ \A c \in CommentIds : walk.seen[c] > 0 => ~Newer(cur, Row(c))
           /\ \A c \in walk.stayed : walk.seen[c] = 1 \/ Newer(cur, Row(c))
    /\ walk.phase = "done" => \A c \in walk.stayed : walk.seen[c] = 1

Inv == TypeOK /\ RequestsOK /\ AuditIsTrue /\ WalkOK

Request == Adding \cup Added \cup Deleting

LEMMA InitInv == Init => Inv
<1> SUFFICES ASSUME Init PROVE Inv
    OBVIOUS
<1>1. NoComment \in Comment /\ NoComment.state = "free" /\ 0 \in 0..MaxTime
      BY TimeAssumption DEF NoComment, Comment
<1>2. Idle \in Walk
      BY DEF Idle, Walk
<1>3. TypeOK
      BY <1>1, <1>2 DEF Init, TypeOK
<1>4. RequestsOK /\ AuditIsTrue
      BY <1>1 DEF Init, RequestsOK, AuditIsTrue
<1>5. WalkOK
      BY DEF Init, WalkOK, Idle
<1>6. QED BY <1>3, <1>4, <1>5 DEF Inv

-----------------------------------------------------------------------------
(* Requests *)

\* What is known of the fields of a request.
LEMMA Fields ==
    ASSUME TypeOK, NEW r \in requests
    PROVE  /\ r \in Request /\ r.id \in Requests /\ r.by \in People
           /\ r.pc \in {"add", "commit", "check", "delete", "log"}
           /\ r.pc # "add" => r.comment \in CommentIds
BY DEF TypeOK, Request, Adding, Added, Deleting

\* A request takes the place of another one, or of none.
LEMMA Swapped ==
    ASSUME TypeOK, NEW r \in requests, NEW n \in Request, n.id = r.id,
           requests' = (requests \ {r}) \cup {n}
    PROVE  requests' \subseteq Request /\ \A s, t \in requests' : s.id = t.id => s = t
BY DEF TypeOK, Request

LEMMA Entered ==
    ASSUME TypeOK, NEW n \in Request, Free(n.id), requests' = requests \cup {n}
    PROVE  requests' \subseteq Request /\ \A s, t \in requests' : s.id = t.id => s = t
BY DEF TypeOK, Request, Free

LEMMA Removed ==
    ASSUME TypeOK, NEW r \in requests, requests' = requests \ {r}
    PROVE  requests' \subseteq Request /\ \A s, t \in requests' : s.id = t.id => s = t
BY DEF TypeOK, Request

\* Comments that others see keep their author and their time, and stay visible or
\* become deleted.
Steady == \A c \in CommentIds : Visible(c) =>
    /\ comments'[c].state \in {comments[c].state, "deleted"}
    /\ comments'[c].createdAt = comments[c].createdAt
    /\ comments'[c].author = comments[c].author

\* While comments are steady, a walk is right as long as it leaves out those deleted.
LEMMA WalkStays ==
    ASSUME TypeOK, WalkOK, Steady,
           walk' = walk \/ \E c \in CommentIds : walk' = [walk EXCEPT !.stayed = @ \ {c}],
           \A c \in walk'.stayed : comments'[c] = comments[c]
    PROVE  WalkOK'
<1>1. /\ walk'.phase = walk.phase /\ walk'.seen = walk.seen /\ walk'.cursor = walk.cursor
      /\ walk'.stayed \subseteq walk.stayed
      BY DEF TypeOK, Walk
<1>2. walk.stayed \subseteq CommentIds
      BY DEF WalkOK, Live
<1>3. walk'.stayed \subseteq Live'
      BY <1>1, <1>2 DEF WalkOK, Live
<1>4. \A c \in CommentIds : walk'.seen[c] <= 1 /\ (walk'.seen[c] > 0 => Visible(c)')
      BY <1>1 DEF WalkOK, Steady, Visible
<1>5. \A c \in CommentIds : Visible(c) => Row(c)' = Row(c)
      BY DEF Row, Steady
<1>6. \A c \in walk'.stayed : Row(c)' = Row(c)
      BY DEF Row
<1>7. ASSUME walk'.phase = "walking"
      PROVE  \E cur \in AllRows :
           /\ walk'.cursor = {cur}
           /\ \A c \in CommentIds : walk'.seen[c] > 0 => ~Newer(cur, Row(c)')
           /\ \A c \in walk'.stayed : walk'.seen[c] = 1 \/ Newer(cur, Row(c)')
  <2>1. PICK cur \in AllRows :
           /\ walk.cursor = {cur}
           /\ \A c \in CommentIds : walk.seen[c] > 0 => ~Newer(cur, Row(c))
           /\ \A c \in walk.stayed : walk.seen[c] = 1 \/ Newer(cur, Row(c))
        BY <1>1, <1>7 DEF WalkOK
  <2>2. \A c \in CommentIds : walk.seen[c] > 0 => Row(c)' = Row(c)
        BY <1>5 DEF WalkOK
  <2>3. QED BY <1>1, <1>6, <2>1, <2>2
<1>8. walk'.phase = "done" => \A c \in walk'.stayed : walk'.seen[c] = 1
      BY <1>1 DEF WalkOK
<1>9. QED BY <1>3, <1>4, <1>7, <1>8 DEF WalkOK, Newer

-----------------------------------------------------------------------------
(* Steps that leave the comments alone *)

\* Nothing but people and the clock changes.
LEMMA ElsewhereInv ==
    ASSUME Inv, UNCHANGED <<comments, log, requests, walk>>,
           archived' \in BOOLEAN, users' \subseteq Users, linked' \subseteq Reviewers,
           now' \in 0..MaxTime
    PROVE  Inv'
<1>1. TypeOK'
      BY DEF Inv, TypeOK
<1>2. RequestsOK' /\ AuditIsTrue'
      BY DEF Inv, RequestsOK, AuditIsTrue, Visible, OnlyTheirs
<1>3. WalkOK'
      BY DEF Inv, WalkOK, Visible, Live, Row
<1>4. QED BY <1>1, <1>2, <1>3 DEF Inv

\* A request enters, goes on or ends without touching a comment.
LEMMA QuietInv ==
    ASSUME Inv, UNCHANGED <<archived, people, now, comments, log, walk>>,
           requests' \subseteq Request,
           \A s, t \in requests' : s.id = t.id => s = t,
           \A r \in requests' \ requests :
               /\ r.pc \in {"add", "check", "delete"}
               /\ r.pc # "add" => Visible(r.comment) /\ OnlyTheirs(r, r.comment)
    PROVE  Inv'
<1>1. TypeOK'
      BY DEF Inv, TypeOK, people, Request
<1>2. RequestsOK'
      BY DEF Inv, RequestsOK, Visible, OnlyTheirs
<1>3. AuditIsTrue' /\ WalkOK'
      BY DEF Inv, AuditIsTrue, WalkOK, Visible, Live, Row
<1>4. QED BY <1>1, <1>2, <1>3 DEF Inv

LEMMA RequestCommentInv ==
    ASSUME Inv, NEW q \in Requests, NEW a \in People, RequestComment(q, a)
    PROVE  Inv'
<1> DEFINE n == [id |-> q, pc |-> "add", by |-> a]
<1>1. n \in Request /\ n.id = q /\ n.pc = "add"
      BY DEF Request, Adding
<1>2. Free(q) /\ requests' = requests \cup {n}
      BY DEF RequestComment
<1> HIDE DEF n
<1>3. requests' \subseteq Request /\ \A s, t \in requests' : s.id = t.id => s = t
      BY <1>1, <1>2, Entered DEF Inv
<1>4. UNCHANGED <<archived, people, now, comments, log, walk>>
      BY DEF RequestComment
<1>5. QED BY <1>1, <1>2, <1>3, <1>4, QuietInv

LEMMA RequestDeletionInv ==
    ASSUME Inv, NEW q \in Requests, NEW a \in People, NEW c \in CommentIds,
           RequestDeletion(q, a, c)
    PROVE  Inv'
<1> DEFINE n == [id |-> q, pc |-> "check", by |-> a, comment |-> c]
<1>1. n \in Request /\ n.id = q /\ n.pc = "check" /\ n.by = a /\ n.comment = c
      BY DEF Request, Deleting
<1>2. Free(q) /\ requests' = requests \cup {n} /\ c \in Live /\ MayDelete(a, c)
      BY DEF RequestDeletion
<1> HIDE DEF n
<1>3. requests' \subseteq Request /\ \A s, t \in requests' : s.id = t.id => s = t
      BY <1>1, <1>2, Entered DEF Inv
<1>4. Visible(c) /\ OnlyTheirs(n, c)
      BY <1>1, <1>2 DEF Live, Visible, MayDelete, OnlyTheirs
<1>5. UNCHANGED <<archived, people, now, comments, log, walk>>
      BY DEF RequestDeletion
<1>6. QED BY <1>1, <1>2, <1>3, <1>4, <1>5, QuietInv

LEMMA CheckDeletionInv == ASSUME Inv, NEW r \in requests, CheckDeletion(r) PROVE Inv'
<1> DEFINE n == [r EXCEPT !.pc = "delete"]
<1>1. r.pc = "check" /\ r \in Deleting
      BY DEF CheckDeletion, Inv, TypeOK, Adding, Added
<1>2. /\ n \in Request /\ n.id = r.id /\ n.pc = "delete" /\ n.by = r.by
      /\ n.comment = r.comment
      BY <1>1 DEF Request, Deleting
<1>3. requests' = (requests \ {r}) \cup {n}
      BY DEF CheckDeletion
<1> HIDE DEF n
<1>4. requests' \subseteq Request /\ \A s, t \in requests' : s.id = t.id => s = t
      BY <1>2, <1>3, Swapped DEF Inv
<1>5. Visible(n.comment) /\ OnlyTheirs(n, n.comment)
      BY <1>1, <1>2 DEF Inv, RequestsOK, OnlyTheirs
<1>6. UNCHANGED <<archived, people, now, comments, log, walk>>
      BY DEF CheckDeletion
<1>7. QED BY <1>2, <1>3, <1>4, <1>5, <1>6, QuietInv

-----------------------------------------------------------------------------
(* Steps that change a comment *)

\* A comment that a transaction inserts is seen by nobody yet.
LEMMA InsertCommentInv ==
    ASSUME Inv, NEW r \in requests, NEW c \in CommentIds, InsertComment(r, c)
    PROVE  Inv'
<1> DEFINE n == [id |-> r.id, pc |-> "commit", by |-> r.by, comment |-> c]
           row == [state |-> "open", author |-> r.by, createdAt |-> now]
<1>1. TypeOK /\ r.id \in Requests /\ r.by \in People
      BY Fields DEF Inv
<1>2. /\ n \in Request /\ n.id = r.id /\ n.pc = "commit" /\ n.comment = c
      BY <1>1 DEF Request, Added
<1>3. /\ comments[c].state = "free" /\ comments' = [comments EXCEPT ![c] = row]
      /\ requests' = (requests \ {r}) \cup {n} /\ r.pc = "add"
      /\ UNCHANGED <<archived, people, now, log, walk>>
      BY DEF InsertComment
<1>4. row \in Comment /\ row.state = "open"
      BY <1>1 DEF Comment, TypeOK
<1> HIDE DEF n, row
<1>5. requests' \subseteq Request /\ \A s, t \in requests' : s.id = t.id => s = t
      BY <1>1, <1>2, <1>3, Swapped
<1>6. /\ comments' \in [CommentIds -> Comment] /\ comments'[c] = row
      /\ \A d \in CommentIds \ {c} : comments'[d] = comments[d]
      BY <1>1, <1>3, <1>4 DEF TypeOK
<1>7. TypeOK'
      BY <1>1, <1>3, <1>5, <1>6 DEF TypeOK, people, Request
<1>8. RequestsOK'
  <2>1. ASSUME NEW s \in requests, s.pc # "add"
        PROVE  s.comment \in CommentIds \ {c}
        BY <1>1, <1>3, <2>1, Fields DEF Inv, RequestsOK, Visible
  <2>2. QED BY <1>2, <1>3, <1>4, <1>6, <2>1, Fields, <1>1
        DEF Inv, RequestsOK, Visible, OnlyTheirs
<1>9. AuditIsTrue'
      BY <1>3, <1>4, <1>6 DEF Inv, AuditIsTrue
<1>10. Steady /\ \A d \in walk'.stayed : comments'[d] = comments[d]
      BY <1>3, <1>6 DEF Steady, Visible, Inv, WalkOK, Live
<1>11. WalkOK'
      BY <1>1, <1>3, <1>10, WalkStays DEF Inv
<1>12. QED BY <1>7, <1>8, <1>9, <1>11 DEF Inv

LEMMA CommitCommentInv == ASSUME Inv, NEW r \in requests, CommitComment(r) PROVE Inv'
<1> DEFINE c == r.comment
<1>1. TypeOK /\ r.pc = "commit" /\ c \in CommentIds /\ comments[c].state = "open"
      BY Fields DEF Inv, CommitComment, RequestsOK
<1>2. /\ comments' = [comments EXCEPT ![c].state = "live"]
      /\ log' = [log EXCEPT !.added[c] = @ + 1]
      /\ requests' = requests \ {r}
      /\ UNCHANGED <<archived, people, now, walk>>
      BY DEF CommitComment
<1>3. requests' \subseteq Request /\ \A s, t \in requests' : s.id = t.id => s = t
      BY <1>1, <1>2, Removed
<1>4. /\ comments' \in [CommentIds -> Comment]
      /\ comments'[c].state = "live"
      /\ \A d \in CommentIds \ {c} : comments'[d] = comments[d]
      BY <1>1, <1>2 DEF TypeOK, Comment
<1>5. /\ log' \in [added : [CommentIds -> Nat], deleted : [CommentIds -> Nat]]
      /\ log'.added[c] = log.added[c] + 1 /\ log'.deleted = log.deleted
      /\ \A d \in CommentIds \ {c} : log'.added[d] = log.added[d]
      BY <1>1, <1>2 DEF TypeOK
<1>6. TypeOK'
      BY <1>1, <1>2, <1>3, <1>4, <1>5 DEF TypeOK, people, Request
<1>7. RequestsOK'
  <2>1. ASSUME NEW s \in requests', s.pc # "add" PROVE s.comment \in CommentIds \ {c}
        BY <1>1, <1>2, <2>1, Fields DEF Inv, RequestsOK, Visible
  <2>2. QED BY <1>1, <1>2, <1>4, <2>1, Fields DEF Inv, RequestsOK, Visible, OnlyTheirs
<1>8. AuditIsTrue'
      BY <1>1, <1>4, <1>5 DEF Inv, AuditIsTrue
<1>9. Steady /\ \A d \in walk'.stayed : comments'[d] = comments[d]
      BY <1>1, <1>2, <1>4 DEF Steady, Visible, Inv, WalkOK, Live
<1>10. WalkOK'
      BY <1>1, <1>2, <1>9, WalkStays DEF Inv
<1>11. QED BY <1>6, <1>7, <1>8, <1>10 DEF Inv

LEMMA DeleteRowInv == ASSUME Inv, NEW r \in requests, DeleteRow(r) PROVE Inv'
<1> DEFINE c == r.comment  n == [r EXCEPT !.pc = "log"]
<1>1. /\ TypeOK /\ r.pc = "delete" /\ c \in CommentIds /\ r \in Deleting
      /\ Visible(c) /\ OnlyTheirs(r, c)
      BY Fields DEF Inv, DeleteRow, RequestsOK, TypeOK, Adding, Added
<1>2. /\ comments' = [comments EXCEPT ![c].state = "deleted"]
      /\ requests' = (requests \ {r}) \cup {n}
      /\ walk' = [walk EXCEPT !.stayed = @ \ {c}]
      /\ UNCHANGED <<archived, people, now, log>>
      BY DEF DeleteRow
<1>3. /\ n \in Request /\ n.id = r.id /\ n.pc = "log" /\ n.by = r.by /\ n.comment = c
      BY <1>1 DEF Request, Deleting
<1> HIDE DEF n
<1>4. requests' \subseteq Request /\ \A s, t \in requests' : s.id = t.id => s = t
      BY <1>1, <1>2, <1>3, Swapped
<1>5. /\ comments' \in [CommentIds -> Comment]
      /\ comments'[c].state = "deleted" /\ comments'[c].author = comments[c].author
      /\ comments'[c].createdAt = comments[c].createdAt
      /\ \A d \in CommentIds \ {c} : comments'[d] = comments[d]
      BY <1>1, <1>2 DEF TypeOK, Comment
<1>6. walk' \in Walk /\ walk'.stayed = walk.stayed \ {c}
      BY <1>1, <1>2 DEF TypeOK, Walk
<1>7. TypeOK'
      BY <1>1, <1>2, <1>4, <1>5, <1>6 DEF TypeOK, people, Request
<1>8. RequestsOK'
  <2>1. ASSUME NEW s \in requests, s.pc = "commit" PROVE s.comment \in CommentIds \ {c}
        BY <1>1, <2>1, Fields DEF Inv, RequestsOK, Visible
  <2>2. QED BY <1>1, <1>2, <1>3, <1>5, <2>1, Fields DEF Inv, RequestsOK, Visible, OnlyTheirs
<1>9. AuditIsTrue'
      BY <1>1, <1>2, <1>5 DEF Inv, AuditIsTrue, Visible
<1>10. Steady /\ \A d \in walk'.stayed : comments'[d] = comments[d]
      BY <1>1, <1>5, <1>6 DEF Steady, Inv, WalkOK, Live
<1>11. WalkOK'
      BY <1>1, <1>2, <1>10, WalkStays DEF Inv
<1>12. QED BY <1>7, <1>8, <1>9, <1>11 DEF Inv

\* A deletion that has happened is logged.
LEMMA LogDeletionInv == ASSUME Inv, NEW r \in requests, LogDeletion(r) PROVE Inv'
<1> DEFINE c == r.comment
<1>1. TypeOK /\ c \in CommentIds /\ comments[c].state = "deleted"
      BY Fields DEF Inv, LogDeletion, RequestsOK
<1>2. /\ log' = [log EXCEPT !.deleted[c] = @ + 1] /\ requests' = requests \ {r}
      /\ UNCHANGED <<archived, people, now, comments, walk>>
      BY DEF LogDeletion
<1>3. requests' \subseteq Request /\ \A s, t \in requests' : s.id = t.id => s = t
      BY <1>1, <1>2, Removed
<1>4. /\ log' \in [added : [CommentIds -> Nat], deleted : [CommentIds -> Nat]]
      /\ log'.added = log.added
      /\ \A d \in CommentIds \ {c} : log'.deleted[d] = log.deleted[d]
      BY <1>1, <1>2 DEF TypeOK
<1>5. TypeOK'
      BY <1>1, <1>2, <1>3, <1>4 DEF TypeOK, people, Request
<1>6. RequestsOK'
      BY <1>2 DEF Inv, RequestsOK, Visible, OnlyTheirs
<1>7. AuditIsTrue'
      BY <1>1, <1>2, <1>4 DEF Inv, AuditIsTrue
<1>8. WalkOK'
      BY <1>2 DEF Inv, WalkOK, Visible, Live, Row
<1>9. QED BY <1>5, <1>6, <1>7, <1>8 DEF Inv

\* A rollback takes back only what nobody else has seen or uses.
LEMMA AbandonInv == ASSUME Inv, NEW r \in requests, Abandon(r) PROVE Inv'
<1>1. TypeOK /\ requests' = requests \ {r} /\ UNCHANGED <<archived, people, now, log, walk>>
      BY DEF Inv, Abandon
<1>2. requests' \subseteq Request /\ \A s, t \in requests' : s.id = t.id => s = t
      BY <1>1, Removed
<1>3. CASE r.pc # "commit"
  <2>1. comments' = comments
        BY <1>3 DEF Abandon
  <2>2. QED BY <1>1, <1>2, <2>1, QuietInv
<1>4. CASE r.pc = "commit"
  <2> DEFINE c == r.comment
  <2>1. c \in CommentIds /\ comments[c].state = "open"
        BY <1>1, <1>4, Fields DEF Inv, RequestsOK
  <2>2. comments' = [comments EXCEPT ![c] = NoComment]
        BY <1>4 DEF Abandon
  <2>3. NoComment \in Comment /\ NoComment.state = "free"
        BY TimeAssumption DEF NoComment, Comment
  <2>4. /\ comments' \in [CommentIds -> Comment] /\ comments'[c] = NoComment
        /\ \A d \in CommentIds \ {c} : comments'[d] = comments[d]
        BY <1>1, <2>1, <2>2, <2>3 DEF TypeOK
  <2>5. TypeOK'
        BY <1>1, <1>2, <2>4 DEF TypeOK, people, Request
  <2>6. ASSUME NEW s \in requests', s.pc # "add" PROVE s.comment \in CommentIds \ {c}
        BY <1>1, <1>4, <2>1, <2>6, Fields DEF Inv, RequestsOK, Visible
  <2>7. RequestsOK'
        BY <1>1, <2>4, <2>6, Fields DEF Inv, RequestsOK, Visible, OnlyTheirs
  <2>8. AuditIsTrue'
        BY <1>1, <2>1, <2>3, <2>4 DEF Inv, AuditIsTrue
  <2>9. Steady /\ \A d \in walk'.stayed : comments'[d] = comments[d]
        BY <1>1, <2>1, <2>4 DEF Steady, Visible, Inv, WalkOK, Live
  <2>10. WalkOK'
        BY <1>1, <2>9, WalkStays DEF Inv
  <2>11. QED BY <2>5, <2>7, <2>8, <2>10 DEF Inv
<1>5. QED BY <1>3, <1>4

-----------------------------------------------------------------------------
(* Listing *)

LEMMA RowsFinite == ASSUME TypeOK PROVE Rows \in SUBSET AllRows /\ IsFiniteSet(Rows)
<1>1. \A c \in CommentIds : Row(c) \in AllRows
      BY DEF Row, AllRows, TypeOK, Comment
<1>2. Live \in SUBSET CommentIds /\ IsFiniteSet(Live)
  <2>1. Live \in SUBSET CommentIds
        BY DEF Live
  <2>2. QED BY <2>1, IdsAssumption, FS_Subset
<1> DEFINE f == [c \in Live |-> Row(c)]
<1>3. f \in Surjection(Live, Rows)
      BY DEF Surjection, Rows
<1> HIDE DEF f
<1>4. IsFiniteSet(Rows)
      BY <1>2, <1>3, FS_Surjection
<1>5. QED BY <1>1, <1>2, <1>4 DEF Rows

LEMMA PageSizePositive == PageSize \in Nat \ {0}
BY LimitAssumption DEF Limits, MinLimit, MaxLimit

\* One more page: before it, the client has seen nothing that is beyond its cursor,
\* and what stayed is seen or beyond; after it, the same holds of the new cursor.
LEMMA ReadInv ==
    ASSUME Inv, UNCHANGED <<archived, people, now, comments, log, requests>>,
           NEW a \in People, NEW cursor \in SUBSET AllRows,
           NEW seen \in [CommentIds -> Nat], NEW stayed \in SUBSET Live,
           \A c \in CommentIds : seen[c] <= 1,
           \A c \in CommentIds : seen[c] > 0 =>
               Visible(c) /\ \E cur \in cursor : ~Newer(cur, Row(c)),
           \A c \in stayed : seen[c] = 1 \/ Row(c) \in Beyond(Rows, cursor),
           Read(a, Rows, cursor, seen, stayed)
    PROVE  Inv'
<1> DEFINE beyond == Beyond(Rows, cursor)
           page   == Take(beyond, PageSize)
           next   == NextCursor(page, PageSize)
           InPage(c) == \E row \in page : row.id = c
           shown     == {c \in Live : Row(c) \in page}
           now_seen  == [c \in CommentIds |-> IF InPage(c) THEN seen[c] + 1 ELSE seen[c]]
<1>1. /\ walk' = [phase |-> IF next = {} THEN "done" ELSE "walking", by |-> a,
                  cursor |-> next, seen |-> now_seen, stayed |-> stayed]
      BY DEF Read, Page
<1>2. /\ Rows \in SUBSET AllRows /\ IsFiniteSet(Rows)
      BY RowsFinite DEF Inv
<1>3. beyond \in SUBSET AllRows /\ beyond \in SUBSET Rows
      BY <1>2 DEF Beyond
<1>4. IsFiniteSet(beyond)
      BY <1>2, <1>3, FS_Subset
<1>5. page \in SUBSET beyond /\ next \in SUBSET page
      BY DEF Take, NextCursor
<1>6. \A r \in next : \A s \in page \ {r} : Newer(s, r)
      BY DEF NextCursor
<1>7. next = {} => page = beyond
      BY <1>3, <1>4, PageSizePositive, LastPageIsAll
<1>8. \A r \in page : \A s \in beyond \ page : Newer(r, s)
      BY <1>3, <1>4, PageSizePositive, PageIsPrefix
<1>9. \A c \in CommentIds : Row(c) \in AllRows /\ Row(c).id = c
      BY DEF Inv, TypeOK, Row, AllRows, Comment
<1>10. ASSUME NEW c \in CommentIds PROVE InPage(c) <=> c \in shown
  <2>1. ASSUME NEW row \in page, row.id = c PROVE c \in shown
    <3>1. PICK d \in Live : row = Row(d)
          BY <1>3, <1>5, <2>1 DEF Rows
    <3>2. d = c
          BY <1>9, <2>1, <3>1 DEF Live
    <3>3. QED BY <2>1, <3>1, <3>2
  <2> HIDE DEF page
  <2>2. QED BY <1>9, <2>1
<1>11. \A c \in CommentIds : c \in shown => seen[c] = 0
  <2>1. ASSUME NEW c \in CommentIds, Row(c) \in page, seen[c] > 0 PROVE FALSE
        BY <1>5, <2>1 DEF Beyond
  <2>2. \A c \in CommentIds : seen[c] \in Nat
        OBVIOUS
  <2>3. QED BY <2>1, <2>2
<1> HIDE DEF beyond, page, next
<1>12. \A c \in CommentIds : /\ now_seen[c] \in Nat /\ now_seen[c] <= 1
                             /\ c \in shown => now_seen[c] = 1
                             /\ c \notin shown => now_seen[c] = seen[c]
      BY <1>10, <1>11
<1>13. shown \in SUBSET Live /\ \A c \in Live : c \in shown <=> Row(c) \in page
      OBVIOUS
<1> HIDE DEF shown, now_seen
<1>14. walk' \in Walk
  <2>1. next \in SUBSET AllRows
        BY <1>3, <1>5
  <2>2. now_seen \in [CommentIds -> Nat] /\ stayed \in SUBSET CommentIds
        BY <1>12 DEF Live, now_seen
  <2>3. QED BY <1>1, <2>1, <2>2 DEF Walk, AllRows
<1>15. TypeOK'
      BY <1>14 DEF Inv, TypeOK, people
<1>16. RequestsOK' /\ AuditIsTrue'
      BY DEF Inv, RequestsOK, AuditIsTrue, Visible, OnlyTheirs
<1>17. /\ walk'.phase = IF next = {} THEN "done" ELSE "walking"
       /\ walk'.cursor = next /\ walk'.seen = now_seen /\ walk'.stayed = stayed
      BY <1>1
<1>18. \A c \in CommentIds : walk'.seen[c] <= 1 /\ (walk'.seen[c] > 0 => Visible(c))
      BY <1>12, <1>13, <1>17 DEF Visible, Live
<1>19. ASSUME walk'.phase = "done", NEW c \in stayed PROVE walk'.seen[c] = 1
  <2>1. c \in Live /\ c \in CommentIds
        BY DEF Live
  <2>2. QED BY <1>7, <1>12, <1>13, <1>17, <1>19, <2>1 DEF beyond
<1>20. ASSUME walk'.phase = "walking"
       PROVE  \E cur \in AllRows :
           /\ walk'.cursor = {cur}
           /\ \A c \in CommentIds : walk'.seen[c] > 0 => ~Newer(cur, Row(c))
           /\ \A c \in walk'.stayed : walk'.seen[c] = 1 \/ Newer(cur, Row(c))
  <2>1. PICK cur \in next : TRUE
        BY <1>17, <1>20
  <2>2. cur \in page /\ cur \in beyond /\ cur \in AllRows
        BY <1>3, <1>5
  <2>3. next = {cur}
    <3>1. ASSUME NEW other \in next, other # cur PROVE FALSE
      <4>1. Newer(other, cur) /\ Newer(cur, other) /\ other \in AllRows
            BY <1>3, <1>5, <1>6, <2>2, <3>1
      <4>2. QED BY <2>2, <4>1, Ordered
    <3>2. QED BY <3>1
  <2>4. ASSUME NEW c \in CommentIds, walk'.seen[c] > 0, Newer(cur, Row(c)) PROVE FALSE
    <3>1. CASE c \in shown
      <4>1. Row(c) \in page /\ Row(c) \in AllRows
            BY <1>9, <1>13, <3>1
      <4>2. Row(c) = cur \/ Newer(Row(c), cur)
            BY <1>6, <2>1, <4>1
      <4>3. QED BY <2>2, <2>4, <4>1, <4>2, Ordered
    <3>2. CASE c \notin shown
      <4>1. seen[c] > 0
            BY <1>12, <1>17, <2>4, <3>2
      <4>2. PICK old \in cursor : ~Newer(old, Row(c))
            BY <4>1
      <4>3. Newer(old, cur)
            BY <2>2 DEF beyond, Beyond
      <4>4. QED BY <1>9, <2>2, <2>4, <4>2, <4>3, Ordered
    <3>3. QED BY <3>1, <3>2
  <2>5. ASSUME NEW c \in stayed, walk'.seen[c] # 1 PROVE Newer(cur, Row(c))
    <3>1. c \in CommentIds /\ c \in Live
          BY DEF Live
    <3>2. c \notin shown /\ Row(c) \in beyond /\ Row(c) \notin page
          BY <1>12, <1>13, <1>17, <2>5, <3>1 DEF beyond
    <3>3. QED BY <1>8, <2>2, <3>2
  <2>6. QED BY <1>17, <2>2, <2>3, <2>4, <2>5
<1>21. WalkOK'
      BY <1>17, <1>18, <1>19, <1>20 DEF WalkOK, Visible, Live, Row
<1>22. QED BY <1>15, <1>16, <1>21 DEF Inv

LEMMA FirstPageInv == ASSUME Inv, NEW a \in People, FirstPage(a) PROVE Inv'
<1> DEFINE seen == [c \in CommentIds |-> 0]
<1>1. /\ Read(a, Rows, {}, seen, Live)
      /\ UNCHANGED <<archived, people, now, comments, log, requests>>
      BY DEF FirstPage
<1>2. \A c \in Live : Row(c) \in Beyond(Rows, {})
      BY DEF Beyond, Rows
<1>3. /\ seen \in [CommentIds -> Nat] /\ \A c \in CommentIds : seen[c] = 0
      OBVIOUS
<1> HIDE DEF seen
<1>4. /\ \A c \in CommentIds : seen[c] <= 1
      /\ \A c \in CommentIds : ~(seen[c] > 0)
      BY <1>3
<1>5. QED BY <1>1, <1>2, <1>3, <1>4, ReadInv

LEMMA FollowingPageInv == ASSUME Inv, FollowingPage PROVE Inv'
<1>1. /\ Read(walk.by, Rows, walk.cursor, walk.seen, walk.stayed)
      /\ walk.phase = "walking" /\ Reaches(walk.by)
      /\ UNCHANGED <<archived, people, now, comments, log, requests>>
      BY DEF FollowingPage
<1>2. /\ walk.by \in People /\ walk.cursor \in SUBSET AllRows
      /\ walk.seen \in [CommentIds -> Nat] /\ walk.stayed \in SUBSET Live
      BY <1>1 DEF Inv, TypeOK, Walk, AllRows, WalkOK, Reaches, People
<1>3. PICK cur \in AllRows :
           /\ walk.cursor = {cur}
           /\ \A c \in CommentIds : walk.seen[c] > 0 => ~Newer(cur, Row(c))
           /\ \A c \in walk.stayed : walk.seen[c] = 1 \/ Newer(cur, Row(c))
      BY <1>1 DEF Inv, WalkOK
<1>4. /\ \A c \in CommentIds : walk.seen[c] <= 1
      /\ \A c \in CommentIds : walk.seen[c] > 0 =>
             Visible(c) /\ \E x \in walk.cursor : ~Newer(x, Row(c))
      BY <1>3 DEF Inv, WalkOK
<1>5. \A c \in walk.stayed : walk.seen[c] = 1 \/ Row(c) \in Beyond(Rows, walk.cursor)
      BY <1>2, <1>3 DEF Beyond, Rows
<1>6. QED BY <1>1, <1>2, <1>4, <1>5, ReadInv

LEMMA EndWalkInv == ASSUME Inv, EndWalk PROVE Inv'
<1>1. walk' = Idle /\ UNCHANGED <<archived, people, now, comments, log, requests>>
      BY DEF EndWalk
<1>2. Idle \in Walk
      BY DEF Idle, Walk
<1>3. TypeOK'
      BY <1>1, <1>2 DEF Inv, TypeOK, people
<1>4. RequestsOK' /\ AuditIsTrue'
      BY <1>1 DEF Inv, RequestsOK, AuditIsTrue, Visible, OnlyTheirs
<1>5. WalkOK'
      BY <1>1 DEF WalkOK, Idle
<1>6. QED BY <1>3, <1>4, <1>5 DEF Inv

-----------------------------------------------------------------------------
(* Theorems *)

LEMMA StepInv == ASSUME Inv, [Next]_vars PROVE Inv'
<1>1. ASSUME NEW q \in Requests, NEW a \in People, RequestComment(q, a) PROVE Inv'
      BY <1>1, RequestCommentInv
<1>2. ASSUME NEW r \in requests, NEW c \in CommentIds, InsertComment(r, c) PROVE Inv'
      BY <1>2, InsertCommentInv
<1>3. ASSUME NEW r \in requests, CommitComment(r) PROVE Inv'
      BY <1>3, CommitCommentInv
<1>4. ASSUME NEW q \in Requests, NEW a \in People, NEW c \in CommentIds,
             RequestDeletion(q, a, c)
      PROVE  Inv'
      BY <1>4, RequestDeletionInv
<1>5. ASSUME NEW r \in requests,
             CheckDeletion(r) \/ DeleteRow(r) \/ LogDeletion(r) \/ Abandon(r)
      PROVE  Inv'
      BY <1>5, CheckDeletionInv, DeleteRowInv, LogDeletionInv, AbandonInv
<1>6. ASSUME NEW a \in People, FirstPage(a) PROVE Inv'
      BY <1>6, FirstPageInv
<1>7. CASE FollowingPage
      BY <1>7, FollowingPageInv
<1>8. CASE EndWalk
      BY <1>8, EndWalkInv
<1>9. CASE Archive \/ Tick \/ (\E u \in Users : UserLeaves(u))
                  \/ (\E v \in Reviewers : ReviewersChange(v))
  <2>1. /\ archived \in BOOLEAN /\ users \subseteq Users /\ linked \subseteq Reviewers
        /\ now \in 0..MaxTime
        BY DEF Inv, TypeOK
  <2>2. UNCHANGED <<comments, log, requests, walk>>
        BY <1>9 DEF Archive, Tick, UserLeaves, ReviewersChange
  <2>3. archived' \in BOOLEAN /\ users' \subseteq Users /\ linked' \subseteq Reviewers
        BY <1>9, <2>1 DEF Archive, Tick, UserLeaves, ReviewersChange, people
  <2>4. now' = now \/ (now < MaxTime /\ now' = now + 1)
        BY <1>9 DEF Archive, Tick, UserLeaves, ReviewersChange
  <2>5. now' \in 0..MaxTime
        BY <2>1, <2>4, TimeAssumption
  <2>6. QED BY <2>2, <2>3, <2>5, ElsewhereInv
<1>10. CASE UNCHANGED vars
  <2>1. /\ UNCHANGED <<comments, log, requests, walk>>
        /\ archived' \in BOOLEAN /\ users' \subseteq Users /\ linked' \subseteq Reviewers
        /\ now' \in 0..MaxTime
        BY <1>10 DEF vars, Inv, TypeOK
  <2>2. QED BY <2>1, ElsewhereInv
<1>11. QED BY <1>1, <1>2, <1>3, <1>4, <1>5, <1>6, <1>7, <1>8, <1>9, <1>10 DEF Next

LEMMA Invariance == Spec => []Inv
<1>1. Init => Inv
      BY InitInv
<1>2. Inv /\ [Next]_vars => Inv'
      BY StepInv
<1>3. QED BY <1>1, <1>2, PTL DEF Spec

\* Comments, requests and walks have their types; two requests never share an id.
THEOREM TypeCorrect == Spec => []TypeOK
<1>1. Inv => TypeOK
      BY DEF Inv
<1>2. QED BY <1>1, Invariance, PTL

\* The activity log tells the truth about comments, for any number of requests that
\* add, delete, fail and roll back (addComment, deleteComment).
THEOREM AuditTrue == Spec => []AuditIsTrue
<1>1. Inv => AuditIsTrue
      BY DEF Inv
<1>2. QED BY <1>1, Invariance, PTL

\* Following nextCursor to the end shows every comment that stayed, and none twice,
\* for every page size and every number of comments (listByReviewItem).
THEOREM WalksComplete == Spec => []WalksAreComplete
<1>1. Inv => WalksAreComplete
      BY DEF Inv, WalkOK, WalksAreComplete
<1>2. QED BY <1>1, Invariance, PTL

\* Only a request of the author, an owner or an admin makes a comment disappear
\* (handleDeleteComment, deleteComment).
THEOREM DeletionsTheirs == Spec => DeletionsAreTheirs
<1> DEFINE Step == \A c \in Live : comments'[c] # comments[c] =>
               \E r \in requests : r.pc = "delete" /\ r.comment = c /\ OnlyTheirs(r, c)
<1>1. Inv /\ [Next]_vars => Step
  <2> SUFFICES ASSUME Inv, [Next]_vars, NEW c \in Live, comments'[c] # comments[c]
      PROVE  \E r \in requests : r.pc = "delete" /\ r.comment = c /\ OnlyTheirs(r, c)
      OBVIOUS
  <2>1. c \in CommentIds /\ comments[c].state = "live" /\ TypeOK
        BY DEF Live, Inv
  <2>2. ASSUME NEW r \in requests, NEW d \in CommentIds, InsertComment(r, d) PROVE FALSE
        BY <2>1, <2>2 DEF InsertComment, TypeOK
  <2>3. ASSUME NEW r \in requests, CommitComment(r) PROVE FALSE
    <3>1. r.pc = "commit" /\ comments' = [comments EXCEPT ![r.comment].state = "live"]
          BY <2>3 DEF CommitComment
    <3>2. r.comment \in CommentIds /\ r.comment # c
          BY <2>1, <3>1, Fields DEF Inv, RequestsOK
    <3>3. QED BY <2>1, <3>1, <3>2 DEF TypeOK
  <2>4. ASSUME NEW r \in requests, Abandon(r) PROVE FALSE
    <3>1. r.pc = "commit" /\ comments' = [comments EXCEPT ![r.comment] = NoComment]
          BY <2>4 DEF Abandon
    <3>2. r.comment \in CommentIds /\ r.comment # c
          BY <2>1, <3>1, Fields DEF Inv, RequestsOK
    <3>3. QED BY <2>1, <3>1, <3>2 DEF TypeOK
  <2>5. PICK r \in requests : DeleteRow(r)
    <3>1. \/ comments' = comments
          \/ \E r \in requests : \E d \in CommentIds : InsertComment(r, d)
          \/ \E r \in requests : CommitComment(r) \/ Abandon(r) \/ DeleteRow(r)
          BY DEF Next, vars, RequestComment, RequestDeletion, CheckDeletion, LogDeletion,
                 FirstPage, FollowingPage, EndWalk, Archive, Tick, UserLeaves,
                 ReviewersChange
    <3>2. QED BY <2>2, <2>3, <2>4, <3>1
  <2>6. r.pc = "delete" /\ comments' = [comments EXCEPT ![r.comment].state = "deleted"]
        BY <2>5 DEF DeleteRow
  <2>7. r.comment = c
        BY <2>1, <2>6 DEF TypeOK
  <2>8. OnlyTheirs(r, c)
        BY <2>6, <2>7 DEF Inv, RequestsOK
  <2>9. QED BY <2>6, <2>7, <2>8
<1>2. QED BY <1>1, Invariance, PTL DEF Spec, DeletionsAreTheirs
=============================================================================
