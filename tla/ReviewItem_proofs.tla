------------------------- MODULE ReviewItem_proofs -------------------------
(***************************************************************************)
(* Proofs about ReviewItem, for any number of requests, users and          *)
(* reviewers and any bound on the version.                                 *)
(***************************************************************************)
EXTENDS ReviewItem, TLAPS

USE DEF vars, people, history, Enter, Move, Leave, Version

-----------------------------------------------------------------------------
(* Type correctness *)

\* The map is typed, and no routed edge starts and ends in the same status.
LEMMA EdgeTypes ==
    \A e \in TransitionMap : e.from \in Status /\ e.to \in Status
  BY DEF TransitionMap, Edge, Status

\* What an update of status and version leaves in the row.
LEMMA UpdatedItem ==
    ASSUME NEW i \in Item, NEW s \in Status, i.version < MaxVersion,
           NEW j, j = [i EXCEPT !.status = s, !.version = @ + 1]
    PROVE  /\ j \in Item
           /\ j.status = s /\ j.version = i.version + 1 /\ j.archived = i.archived
<1>1. i.version + 1 \in Version
  BY MaxVersionAssumption DEF Item
<1> QED BY <1>1 DEF Item

\* A step of a workflow action keeps the types.
LEMMA DecisionTypes ==
    ASSUME TypeOK,
           \/ \E r \in Requests : LoadDecision(r)
           \/ \E d \in decisions : CheckDecision(d) \/ CommitDecision(d)
    PROVE  TypeOK'
<1>1. ASSUME NEW r \in Requests, LoadDecision(r)  PROVE TypeOK'
  <2>1. decisions' \subseteq Decision
    BY <1>1, EdgeTypes DEF LoadDecision, TypeOK, Item, Decision, RoutedEdges
  <2> QED BY <1>1, <2>1 DEF LoadDecision, TypeOK
<1>2. ASSUME NEW d \in decisions, CheckDecision(d)  PROVE TypeOK'
  <2>1. [d EXCEPT !.pc = "checked", !.previous = item.status] \in Decision
    BY <1>2 DEF TypeOK, Item, Decision
  <2>2. decisions' \subseteq Decision
    BY <1>2, <2>1 DEF CheckDecision, TypeOK
  <2> QED BY <1>2, <2>2 DEF CheckDecision, TypeOK
<1>3. ASSUME NEW d \in decisions, CommitDecision(d)  PROVE TypeOK'
  <2>1. decisions' \subseteq Decision
    BY <1>3 DEF CommitDecision, TypeOK
  <2>2. item' \in Item /\ log' \in Seq(LogEntry) /\ ahead' \subseteq Version
    <3>1. CASE item' = item /\ log' = log /\ ahead' = ahead
      BY <3>1 DEF TypeOK
    <3>2. CASE /\ item.version < MaxVersion
               /\ item' = [item EXCEPT !.status = d.edge.to, !.version = @ + 1]
               /\ log' = Append(log, [action |-> d.edge.action, from |-> d.previous,
                                      to |-> d.edge.to, version |-> item.version])
               /\ ahead' = IF d.expected > d.seen THEN ahead \cup {item.version} ELSE ahead
      <4>1. /\ d.edge \in RoutedEdges /\ d.previous \in Status
            /\ d.edge.to \in Status
            /\ d.edge.action \in InternalActions \cup ReviewerActions
        BY EdgeTypes DEF TypeOK, Decision, RoutedEdges
      <4>2. item' \in Item
        BY <3>2, <4>1, UpdatedItem DEF TypeOK
      <4>3. [action |-> d.edge.action, from |-> d.previous,
             to |-> d.edge.to, version |-> item.version] \in LogEntry
        BY <4>1 DEF TypeOK, Item, LogEntry
      <4>4. ahead' \subseteq Version
        BY <3>2 DEF TypeOK, Item
      <4> QED BY <3>2, <4>2, <4>3, <4>4 DEF TypeOK
    <3> QED BY <1>3, <3>1, <3>2 DEF CommitDecision
  <2> QED BY <1>3, <2>1, <2>2 DEF CommitDecision, TypeOK
<1> QED BY <1>1, <1>2, <1>3

\* A step of an upload keeps the types.
LEMMA UploadTypes ==
    ASSUME TypeOK,
           \/ \E r \in Requests : LoadUpload(r)
           \/ \E u \in uploads : CheckUpload(u) \/ CommitUpload(u)
    PROVE  TypeOK'
<1>1. ASSUME NEW r \in Requests, LoadUpload(r)  PROVE TypeOK'
  <2>1. [id |-> r, pc |-> "loaded", status |-> item.status,
         version |-> item.version, isNew |-> FALSE] \in Upload
    BY <1>1 DEF TypeOK, Item, Upload
  <2>2. uploads' \subseteq Upload
    BY <1>1, <2>1 DEF LoadUpload, TypeOK
  <2> QED BY <1>1, <2>2 DEF LoadUpload, TypeOK
<1>2. ASSUME NEW u \in uploads, CheckUpload(u)  PROVE TypeOK'
  <2>1. IsNewVersion(u) \in BOOLEAN
    BY DEF IsNewVersion
  <2>2. [u EXCEPT !.pc = "checked", !.isNew = IsNewVersion(u)] \in Upload
    BY <2>1 DEF TypeOK, Upload
  <2>3. uploads' \subseteq Upload
    BY <1>2, <2>2 DEF CheckUpload, TypeOK
  <2> QED BY <1>2, <2>3 DEF CheckUpload, TypeOK
<1>3. ASSUME NEW u \in uploads, CommitUpload(u)  PROVE TypeOK'
  <2>1. u.version \in Version /\ u.status \in Status
    BY DEF TypeOK, Upload
  <2>2. ASSUME NEW v \in Version, IssueKey(v)  PROVE issued' \subseteq Key
    BY <2>2 DEF IssueKey, TypeOK, Key
  <2>3. item' \in Item /\ issued' \subseteq Key
    <3>1. CASE /\ item.version < MaxVersion
               /\ item' = [item EXCEPT !.status = StatusAfterUpload(u.status), !.version = @ + 1]
               /\ IssueKey(item.version + 1)
      <4>1. StatusAfterUpload(u.status) \in Status
        BY <2>1 DEF StatusAfterUpload, Status
      <4>2. item.version + 1 \in Version
        BY <3>1, MaxVersionAssumption DEF TypeOK, Item
      <4>3. item' \in Item
        BY <3>1, <4>1, UpdatedItem DEF TypeOK
      <4> QED BY <2>2, <3>1, <4>2, <4>3
    <3>2. CASE item' = item /\ issued' = issued
      BY <3>2 DEF TypeOK
    <3>3. CASE IssueKey(u.version) /\ item' = item
      BY <2>1, <2>2, <3>3 DEF TypeOK
    <3> QED BY <1>3, <3>1, <3>2, <3>3 DEF CommitUpload
  <2> QED BY <1>3, <2>3 DEF CommitUpload, TypeOK
<1> QED BY <1>1, <1>2, <1>3

\* Every other step keeps the types.
LEMMA OtherTypes ==
    ASSUME TypeOK,
           \/ \E r \in Requests : LoadConfirmation(r) \/ LoadDeletion(r) \/ Abandon(r)
           \/ \E c \in confirmations : CommitConfirmation(c)
           \/ \E d \in deletions : CommitDeletion(d)
           \/ ArchiveReviewItem \/ TeamChanges \/ ReviewersChange
           \/ UNCHANGED vars
    PROVE  TypeOK'
<1>1. ASSUME NEW r \in Requests, LoadConfirmation(r)  PROVE TypeOK'
  <2>1. ConfirmableKeys \subseteq Key
    BY MaxVersionAssumption DEF ConfirmableKeys, TypeOK, Key
  <2>2. ASSUME NEW k \in Key  PROVE VersionFromKey(k) \in Nat
    BY RequestsAssumption DEF VersionFromKey, TypeOK, Item, Key
  <2>3. confirmations' \subseteq Confirmation
    BY <1>1, <2>1, <2>2 DEF LoadConfirmation, TypeOK, Confirmation
  <2> QED BY <1>1, <2>3 DEF LoadConfirmation, TypeOK
<1>2. ASSUME NEW r \in Requests, LoadDeletion(r)  PROVE TypeOK'
  BY <1>2 DEF LoadDeletion, TypeOK, Deletion
<1>3. ASSUME NEW r \in Requests, Abandon(r)  PROVE TypeOK'
  BY <1>3 DEF Abandon, TypeOK
<1>4. ASSUME NEW c \in confirmations, CommitConfirmation(c)  PROVE TypeOK'
  <2>1. [key |-> c.key, version |-> c.version] \in Attachment
    BY DEF TypeOK, Confirmation, Attachment
  <2>2. attachments' \subseteq Attachment /\ confirmations' \subseteq Confirmation
    BY <1>4, <2>1 DEF CommitConfirmation, TypeOK
  <2> QED BY <1>4, <2>2 DEF CommitConfirmation, TypeOK
<1>5. ASSUME NEW d \in deletions, CommitDeletion(d)  PROVE TypeOK'
  BY <1>5 DEF CommitDeletion, TypeOK
<1>6. CASE ArchiveReviewItem
  BY <1>6 DEF ArchiveReviewItem, TypeOK, Item
<1>7. CASE TeamChanges
  BY <1>7 DEF TeamChanges, TypeOK
<1>8. CASE ReviewersChange
  BY <1>8 DEF ReviewersChange, TypeOK
<1>9. CASE UNCHANGED vars
  BY <1>9 DEF TypeOK
<1> QED BY <1>1, <1>2, <1>3, <1>4, <1>5, <1>6, <1>7, <1>8, <1>9

\* Every variable keeps the type of its column or message.
THEOREM TypeCorrect == Spec => []TypeOK
<1>1. Init => TypeOK
  BY MaxVersionAssumption DEF Init, TypeOK, Item, Status
<1>2. TypeOK /\ [Next]_vars => TypeOK'
  BY DecisionTypes, UploadTypes, OtherTypes DEF Next
<1> QED BY <1>1, <1>2, PTL DEF Spec

-----------------------------------------------------------------------------
(* What a step does to the item, to its log and to the requests in flight *)

DecisionTaken(d) ==
    /\ d.pc = "checked" /\ UpdateMatches(d) /\ item.version < MaxVersion
    /\ item' = [item EXCEPT !.status = d.edge.to, !.version = @ + 1]
    /\ log' = Append(log, [action |-> d.edge.action, from |-> d.previous,
                           to |-> d.edge.to, version |-> item.version])
    /\ ahead' = IF d.expected > d.seen THEN ahead \cup {item.version} ELSE ahead

VersionTaken(u) ==
    /\ item.version = u.version /\ item.version < MaxVersion
    /\ item' = [item EXCEPT !.status = StatusAfterUpload(u.status), !.version = @ + 1]
    /\ UNCHANGED history

\* Only three commits touch the item, one of them the log.
LEMMA ItemSteps ==
    ASSUME [Next]_vars
    PROVE  \/ UNCHANGED <<item, history>>
           \/ ArchiveReviewItem
           \/ \E d \in decisions : DecisionTaken(d)
           \/ \E u \in uploads : VersionTaken(u)
<1>1. ASSUME NEW d \in decisions, CommitDecision(d)
      PROVE  UNCHANGED <<item, history>> \/ DecisionTaken(d)
  BY <1>1 DEF CommitDecision, DecisionTaken
<1>2. ASSUME NEW u \in uploads, CommitUpload(u)
      PROVE  UNCHANGED <<item, history>> \/ VersionTaken(u)
  BY <1>2 DEF CommitUpload, VersionTaken
<1>3. ASSUME NEW r \in Requests,
             \/ LoadDecision(r) \/ LoadUpload(r) \/ LoadConfirmation(r)
             \/ LoadDeletion(r) \/ Abandon(r)
      PROVE  UNCHANGED <<item, history>>
  BY <1>3 DEF LoadDecision, LoadUpload, LoadConfirmation, LoadDeletion, Abandon
<1>4. ASSUME NEW d \in decisions, CheckDecision(d)  PROVE UNCHANGED <<item, history>>
  BY <1>4 DEF CheckDecision
<1>5. ASSUME NEW u \in uploads, CheckUpload(u)  PROVE UNCHANGED <<item, history>>
  BY <1>5 DEF CheckUpload
<1>6. ASSUME NEW c \in confirmations, CommitConfirmation(c)  PROVE UNCHANGED <<item, history>>
  BY <1>6 DEF CommitConfirmation
<1>7. ASSUME NEW d \in deletions, CommitDeletion(d)  PROVE UNCHANGED <<item, history>>
  BY <1>7 DEF CommitDeletion
<1>8. TeamChanges \/ ReviewersChange => UNCHANGED <<item, history>>
  BY DEF TeamChanges, ReviewersChange
<1>9. UNCHANGED vars => UNCHANGED <<item, history>>
  BY DEF vars
<1> QED BY <1>1, <1>2, <1>3, <1>4, <1>5, <1>6, <1>7, <1>8, <1>9 DEF Next

LoadedNow(d) ==
    /\ d.pc = "loaded" /\ d.seen = item.version /\ d.edge.from = item.status
CheckedNow(d) ==
    /\ d.pc = "checked" /\ d.previous = item.status /\ d.expected = item.version
    /\ \E c \in decisions : c.seen = d.seen /\ c.edge = d.edge /\ c.expected = d.expected

\* A decision in flight was there before, or has just read the item.
LEMMA DecisionSources ==
    ASSUME TypeOK, [Next]_vars, NEW d \in decisions'
    PROVE  d \in decisions \/ (item' = item /\ (LoadedNow(d) \/ CheckedNow(d)))
<1>1. ASSUME NEW r \in Requests, LoadDecision(r)
      PROVE  d \in decisions \/ (item' = item /\ LoadedNow(d))
  BY <1>1 DEF LoadDecision, LoadedNow
<1>2. ASSUME NEW c \in decisions, CheckDecision(c)
      PROVE  d \in decisions \/ (item' = item /\ CheckedNow(d))
  <2>1. CASE DecisionValid(c)
    <3>1. c \in Decision
      BY DEF TypeOK
    <3>2. \/ d \in decisions
          \/ d = [c EXCEPT !.pc = "checked", !.previous = item.status]
      BY <1>2, <2>1 DEF CheckDecision
    <3> QED BY <1>2, <2>1, <3>1, <3>2
             DEF CheckDecision, CheckedNow, DecisionValid, Decision
  <2>2. CASE ~DecisionValid(c)
    BY <1>2, <2>2 DEF CheckDecision
  <2> QED BY <2>1, <2>2
<1>3. ASSUME NEW c \in decisions, CommitDecision(c)  PROVE d \in decisions
  BY <1>3 DEF CommitDecision
<1>4. ASSUME NEW r \in Requests,
             LoadUpload(r) \/ LoadConfirmation(r) \/ LoadDeletion(r) \/ Abandon(r)
      PROVE  d \in decisions
  BY <1>4 DEF LoadUpload, LoadConfirmation, LoadDeletion, Abandon
<1>5. ASSUME NEW u \in uploads, CheckUpload(u) \/ CommitUpload(u)  PROVE d \in decisions
  BY <1>5 DEF CheckUpload, CommitUpload
<1>6. ASSUME NEW c \in confirmations, CommitConfirmation(c)  PROVE d \in decisions
  BY <1>6 DEF CommitConfirmation
<1>7. ASSUME NEW e \in deletions, CommitDeletion(e)  PROVE d \in decisions
  BY <1>7 DEF CommitDeletion
<1>8. ArchiveReviewItem \/ TeamChanges \/ ReviewersChange => d \in decisions
  BY DEF ArchiveReviewItem, TeamChanges, ReviewersChange
<1>9. UNCHANGED vars => d \in decisions
  BY DEF vars
<1> QED BY <1>1, <1>2, <1>3, <1>4, <1>5, <1>6, <1>7, <1>8, <1>9 DEF Next

\* An upload in flight was there before, or has just read the item.
LEMMA UploadSources ==
    ASSUME TypeOK, [Next]_vars, NEW u \in uploads'
    PROVE  \/ \E w \in uploads : u.version = w.version /\ u.status = w.status
           \/ item' = item /\ u.version = item.version /\ u.status = item.status
<1> DEFINE Old == \E w \in uploads : u.version = w.version /\ u.status = w.status
<1>1. ASSUME NEW r \in Requests, LoadUpload(r)
      PROVE  Old \/ (item' = item /\ u.version = item.version /\ u.status = item.status)
  BY <1>1 DEF LoadUpload
<1>2. ASSUME NEW w \in uploads, CheckUpload(w)  PROVE Old
  <2>1. u \in uploads \/ u = [w EXCEPT !.pc = "checked", !.isNew = IsNewVersion(w)]
    BY <1>2 DEF CheckUpload
  <2>2. w \in Upload
    BY DEF TypeOK
  <2> QED BY <2>1, <2>2 DEF Upload
<1>3. ASSUME NEW w \in uploads, CommitUpload(w)  PROVE Old
  BY <1>3 DEF CommitUpload
<1>4. ASSUME NEW r \in Requests,
             LoadDecision(r) \/ LoadConfirmation(r) \/ LoadDeletion(r) \/ Abandon(r)
      PROVE  Old
  BY <1>4 DEF LoadDecision, LoadConfirmation, LoadDeletion, Abandon
<1>5. ASSUME NEW c \in decisions, CheckDecision(c) \/ CommitDecision(c)  PROVE Old
  BY <1>5 DEF CheckDecision, CommitDecision
<1>6. ASSUME NEW c \in confirmations, CommitConfirmation(c)  PROVE Old
  BY <1>6 DEF CommitConfirmation
<1>7. ASSUME NEW e \in deletions, CommitDeletion(e)  PROVE Old
  BY <1>7 DEF CommitDeletion
<1>8. ArchiveReviewItem \/ TeamChanges \/ ReviewersChange => Old
  BY DEF ArchiveReviewItem, TeamChanges, ReviewersChange
<1>9. UNCHANGED vars => Old
  BY DEF vars
<1> HIDE DEF Old
<1> QED BY <1>1, <1>2, <1>3, <1>4, <1>5, <1>6, <1>7, <1>8, <1>9 DEF Next, Old

LEMMA VersionTakenCounts ==
    ASSUME TypeOK, NEW u \in uploads, VersionTaken(u)
    PROVE  item'.version = item.version + 1
<1> DEFINE s == StatusAfterUpload(u.status)
<1>1. item \in Item /\ item' = [item EXCEPT !.status = s, !.version = @ + 1]
  BY DEF VersionTaken, TypeOK
<1> HIDE DEF s
<1> QED BY <1>1 DEF Item

\* The version never goes back, and the status never changes without it.
LEMMA VersionStep ==
    ASSUME TypeOK, [Next]_vars
    PROVE  \/ item'.version = item.version /\ item'.status = item.status
           \/ item'.version = item.version + 1
<1>1. ASSUME NEW d \in decisions, DecisionTaken(d)  PROVE item'.version = item.version + 1
  <2>1. item \in Item /\ d.edge.to \in Status
    BY EdgeTypes DEF TypeOK, Decision, RoutedEdges
  <2> QED BY <1>1, <2>1, UpdatedItem DEF DecisionTaken
<1>2. ASSUME NEW u \in uploads, VersionTaken(u)  PROVE item'.version = item.version + 1
  BY <1>2, VersionTakenCounts
<1>3. ArchiveReviewItem => item'.version = item.version /\ item'.status = item.status
  BY DEF ArchiveReviewItem, TypeOK, Item
<1> QED BY <1>1, <1>2, <1>3, ItemSteps

-----------------------------------------------------------------------------
(* What requests have read stays true *)

\* What a request read before its transaction is true as long as the version
\* it read is the current one.
LEMMA Reads == Spec => []ReadsStayFresh
<1>1. Init => ReadsStayFresh
  BY DEF Init, ReadsStayFresh, DecisionsStayFresh, UploadsStayFresh
<1>2. TypeOK /\ TypeOK' /\ ReadsStayFresh /\ [Next]_vars => ReadsStayFresh'
  <2> SUFFICES ASSUME TypeOK, TypeOK', ReadsStayFresh, [Next]_vars
               PROVE  ReadsStayFresh'
    OBVIOUS
  <2>1. \/ item'.version = item.version /\ item'.status = item.status
        \/ item'.version = item.version + 1
    BY VersionStep
  <2>2. item.version \in Nat /\ item'.version \in Nat
    BY MaxVersionAssumption DEF TypeOK, Item
  <2>3. ASSUME NEW d \in decisions'
        PROVE  /\ d.seen <= item'.version
               /\ d.seen = item'.version => d.edge.from = item'.status
               /\ d.pc = "checked" =>
                    /\ d.expected <= item'.version
                    /\ d.expected = item'.version => d.previous = item'.status
    <3>1. CASE d \in decisions
      <4>1. d.seen \in Nat /\ d.expected \in Nat
        BY <3>1, MaxVersionAssumption DEF TypeOK, Decision
      <4> QED BY <2>1, <2>2, <3>1, <4>1 DEF ReadsStayFresh, DecisionsStayFresh
    <3>2. CASE item' = item /\ LoadedNow(d)
      BY <2>2, <3>2 DEF LoadedNow
    <3>3. CASE item' = item /\ CheckedNow(d)
      BY <2>2, <3>3 DEF CheckedNow, ReadsStayFresh, DecisionsStayFresh
    <3> QED BY <3>1, <3>2, <3>3, DecisionSources
  <2>4. ASSUME NEW u \in uploads'
        PROVE  /\ u.version <= item'.version
               /\ u.version = item'.version => u.status = item'.status
    <3>1. ASSUME NEW w \in uploads, u.version = w.version /\ u.status = w.status
          PROVE  /\ u.version <= item'.version
                 /\ u.version = item'.version => u.status = item'.status
      <4>1. w.version \in Nat
        BY MaxVersionAssumption DEF TypeOK, Upload
      <4> QED BY <2>1, <2>2, <3>1, <4>1 DEF ReadsStayFresh, UploadsStayFresh
    <3>2. CASE item' = item /\ u.version = item.version /\ u.status = item.status
      BY <2>2, <3>2
    <3> QED BY <3>1, <3>2, UploadSources
  <2> QED BY <2>3, <2>4 DEF ReadsStayFresh, DecisionsStayFresh, UploadsStayFresh
<1> QED BY <1>1, <1>2, TypeCorrect, PTL DEF Spec

\* A decision that takes effect, whoever sent it, knows the status it replaces.
LEMMA TakenDecision ==
    ASSUME TypeOK, ReadsStayFresh, NEW d \in decisions, DecisionTaken(d)
    PROVE  /\ d.edge \in TransitionMap
           /\ d.edge.action \in InternalActions \cup ReviewerActions
           /\ d.seen \in Nat /\ d.expected \in Nat /\ item.version \in Nat
           /\ d.expected = item.version /\ d.previous = item.status
           /\ item'.status = d.edge.to /\ item'.version = item.version + 1
           /\ ~item.archived /\ item'.archived = item.archived
<1>1. /\ d.edge \in TransitionMap
      /\ d.edge.action \in InternalActions \cup ReviewerActions
      /\ d.seen \in Nat /\ d.expected \in Nat /\ item.version \in Nat /\ item \in Item
  BY MaxVersionAssumption DEF TypeOK, Item, Decision, RoutedEdges
<1>2. item.version = d.expected /\ ~item.archived /\ d.pc = "checked"
  BY DEF DecisionTaken, UpdateMatches
<1>3. d.previous = item.status
  BY <1>2 DEF ReadsStayFresh, DecisionsStayFresh
<1>4. item'.status = d.edge.to /\ item'.version = item.version + 1
      /\ item'.archived = item.archived
  <2>1. d.edge.to \in Status
    BY <1>1, EdgeTypes
  <2>2. item.version < MaxVersion
        /\ item' = [item EXCEPT !.status = d.edge.to, !.version = @ + 1]
    BY DEF DecisionTaken
  <2> QED BY <1>1, <2>1, <2>2 DEF Item
<1> QED BY <1>1, <1>2, <1>3, <1>4

\* Unless its client was ahead, it was chosen on the status it replaces.
LEMMA TakenOnItsStatus ==
    ASSUME TypeOK, ReadsStayFresh, NEW d \in decisions, DecisionTaken(d),
           ~(d.expected > d.seen)
    PROVE  d.edge.from = item.status
<1>1. d.seen \in Nat /\ d.expected = item.version /\ item.version \in Nat
  BY TakenDecision
<1>2. d.seen <= item.version /\ (d.seen = item.version => d.edge.from = item.status)
  BY DEF ReadsStayFresh, DecisionsStayFresh
<1> QED BY <1>1, <1>2

\* An upload that takes effect follows the map, or leaves a draft a draft.
LEMMA TakenByUpload ==
    ASSUME TypeOK, ReadsStayFresh, NEW u \in uploads, VersionTaken(u),
           item.status # "ARCHIVED"
    PROVE  /\ \/ Edge(item.status, "UPLOAD_NEW_VERSION", item'.status) \in TransitionMap
              \/ item.status = "DRAFT" /\ item'.status = "DRAFT"
           /\ item'.version = item.version + 1 /\ item'.archived = item.archived
<1> DEFINE s == StatusAfterUpload(u.status)
<1>1. u.status = item.status /\ u.status \in Status
  BY DEF VersionTaken, ReadsStayFresh, UploadsStayFresh, TypeOK, Upload
<1>2. s \in Status
  BY <1>1 DEF StatusAfterUpload, Status
<1>3. \/ Edge(item.status, "UPLOAD_NEW_VERSION", s) \in TransitionMap
      \/ item.status = "DRAFT" /\ s = "DRAFT"
  BY <1>1 DEF StatusAfterUpload, Status, TransitionMap, Edge
<1>4. item.version < MaxVersion /\ item' = [item EXCEPT !.status = s, !.version = @ + 1]
  BY DEF VersionTaken
<1> HIDE DEF s
<1>5. item'.status = s /\ item'.version = item.version + 1 /\ item'.archived = item.archived
  <2>1. item \in Item
    BY DEF TypeOK
  <2> QED BY <1>2, <1>4, <2>1 DEF Item
<1> QED BY <1>3, <1>5

-----------------------------------------------------------------------------
(* The item implements the atomic lifecycle *)

\* Nothing gives an item the status ARCHIVED: archiving sets archivedAt.
OnTheMap == item.status # "ARCHIVED"

\* Nothing makes an item a draft again, so that no decision on an item that was
\* sent can wait for a draft.
DraftsAreSent == \A d \in decisions : item.status = "DRAFT" => d.edge.from = "DRAFT"

LEMMA StatusStep ==
    ASSUME TypeOK, ReadsStayFresh, OnTheMap, [Next]_vars
    PROVE  OnTheMap' /\ (item'.status = "DRAFT" => item.status = "DRAFT")
<1>1. ASSUME NEW d \in decisions, DecisionTaken(d)
      PROVE  item'.status # "ARCHIVED" /\ item'.status # "DRAFT"
  <2>1. \A e \in TransitionMap : e.to # "ARCHIVED" /\ e.to # "DRAFT"
    BY DEF TransitionMap, Edge
  <2> QED BY <1>1, <2>1, TakenDecision
<1>2. ASSUME NEW u \in uploads, VersionTaken(u)
      PROVE  item'.status # "ARCHIVED" /\ (item'.status = "DRAFT" => item.status = "DRAFT")
  <2>1. ASSUME NEW s, Edge(item.status, "UPLOAD_NEW_VERSION", s) \in TransitionMap
        PROVE  s = "PENDING_REVIEW"
    BY <2>1 DEF TransitionMap, Edge
  <2> QED BY <1>2, <2>1, TakenByUpload DEF OnTheMap
<1>3. ArchiveReviewItem => item'.status = item.status
  BY DEF ArchiveReviewItem, TypeOK, Item
<1> QED BY <1>1, <1>2, <1>3, ItemSteps DEF OnTheMap

LEMMA Drafts == Spec => [](OnTheMap /\ DraftsAreSent)
<1>1. Init => OnTheMap /\ DraftsAreSent
  BY DEF Init, OnTheMap, DraftsAreSent
<1>2. TypeOK /\ ReadsStayFresh /\ OnTheMap /\ DraftsAreSent /\ [Next]_vars
        => (OnTheMap /\ DraftsAreSent)'
  <2> SUFFICES ASSUME TypeOK, ReadsStayFresh, OnTheMap, DraftsAreSent, [Next]_vars
               PROVE  (OnTheMap /\ DraftsAreSent)'
    OBVIOUS
  <2>1. OnTheMap' /\ (item'.status = "DRAFT" => item.status = "DRAFT")
    BY StatusStep
  <2>2. ASSUME NEW d \in decisions', item'.status = "DRAFT"  PROVE d.edge.from = "DRAFT"
    <3>1. CASE d \in decisions
      BY <2>1, <2>2, <3>1 DEF DraftsAreSent
    <3>2. CASE LoadedNow(d)
      BY <2>1, <2>2, <3>2 DEF LoadedNow
    <3>3. CASE CheckedNow(d)
      BY <2>1, <2>2, <3>3 DEF CheckedNow, DraftsAreSent
    <3> QED BY <3>1, <3>2, <3>3, DecisionSources
  <2> QED BY <2>1, <2>2 DEF DraftsAreSent
<1> QED BY <1>1, <1>2, TypeCorrect, Reads, PTL DEF Spec

\* A step of the item is a step of the lifecycle or leaves it alone.
LEMMA LifecycleStep ==
    ASSUME TypeOK, ReadsStayFresh, OnTheMap, DraftsAreSent, [Next]_vars
    PROVE  [Lifecycle!Next]_(Lifecycle!vars)
<1>1. ASSUME NEW d \in decisions, DecisionTaken(d)
      PROVE  Lifecycle!Decide \/ Lifecycle!DecideAhead
  <2>1. /\ d.edge \in TransitionMap /\ d.edge.action # "UPLOAD_NEW_VERSION"
        /\ item'.status = d.edge.to /\ item'.version = item.version + 1
        /\ ~item.archived /\ item'.archived = item.archived
    BY <1>1, TakenDecision DEF InternalActions, ReviewerActions
  <2>2. CASE d.expected > d.seen
    <3>1. item.status = "DRAFT" => d.edge.from = "DRAFT"
      BY DEF DraftsAreSent
    <3>2. ahead' = ahead \cup {item.version}
      BY <1>1, <2>2 DEF DecisionTaken
    <3> QED BY <2>1, <3>1, <3>2 DEF Lifecycle!DecideAhead
  <2>3. CASE ~(d.expected > d.seen)
    <3>1. d.edge.from = item.status
      BY <1>1, <2>3, TakenOnItsStatus
    <3>2. ahead' = ahead
      BY <1>1, <2>3 DEF DecisionTaken
    <3> QED BY <2>1, <3>1, <3>2 DEF Lifecycle!Decide
  <2> QED BY <2>2, <2>3
<1>2. ASSUME NEW u \in uploads, VersionTaken(u)  PROVE Lifecycle!Upload
  <2>1. /\ \/ Edge(item.status, "UPLOAD_NEW_VERSION", item'.status) \in TransitionMap
           \/ item.status = "DRAFT" /\ item'.status = "DRAFT"
        /\ item'.version = item.version + 1 /\ item'.archived = item.archived
        /\ ahead' = ahead
    BY <1>2, TakenByUpload DEF OnTheMap, VersionTaken
  <2>2. CASE Edge(item.status, "UPLOAD_NEW_VERSION", item'.status) \in TransitionMap
    BY <2>1, <2>2 DEF Lifecycle!Upload, Edge
  <2>3. CASE item.status = "DRAFT" /\ item'.status = "DRAFT"
    BY <2>1, <2>3 DEF Lifecycle!Upload
  <2> QED BY <2>1, <2>2, <2>3
<1>3. ArchiveReviewItem => Lifecycle!Archive
  BY DEF ArchiveReviewItem, Lifecycle!Archive, TypeOK, Item
<1>4. UNCHANGED <<item, history>> => UNCHANGED Lifecycle!vars
  BY DEF Lifecycle!vars
<1> QED BY <1>1, <1>2, <1>3, <1>4, ItemSteps DEF Lifecycle!Next

\* The interleaved requests implement the atomic lifecycle, whatever versions
\* their clients send: a decision whose client was not ahead of the item follows
\* the map, the others take their version and leave a draft by sending it only.
THEOREM Implementation == Spec => ImplementsLifecycle
<1>1. Init => Lifecycle!Init
  BY DEF Init, Lifecycle!Init
<1>2. TypeOK /\ ReadsStayFresh /\ OnTheMap /\ DraftsAreSent /\ [Next]_vars
        => [Lifecycle!Next]_(Lifecycle!vars)
  BY LifecycleStep
<1> QED BY <1>1, <1>2, TypeCorrect, Reads, Drafts, PTL
        DEF Spec, ImplementsLifecycle, Lifecycle!Spec

-----------------------------------------------------------------------------
(* The activity log, the issued keys and the archived item *)

LEMMA LogVersions == ASSUME TypeOK, NEW i \in DOMAIN log PROVE log[i].version \in Nat
<1>1. log \in Seq(LogEntry)
  BY DEF TypeOK
<1>2. log[i] \in LogEntry
  BY <1>1
<1> QED BY <1>2, MaxVersionAssumption DEF LogEntry

\* A decision that takes effect adds the one entry that continues the story.
LEMMA LogGrows ==
    ASSUME TypeOK, ReadsStayFresh, DraftsAreSent, AuditTrail,
           NEW d \in decisions, DecisionTaken(d)
    PROVE  AuditTrail'
<1> DEFINE entry == [action |-> d.edge.action, from |-> d.previous,
                     to |-> d.edge.to, version |-> item.version]
<1> DEFINE OnMap(e) == Edge(e.from, e.action, e.to) \in TransitionMap
<1>1. /\ d.edge \in TransitionMap /\ d.previous = item.status
      /\ item'.status = d.edge.to /\ item'.version = item.version + 1
  BY TakenDecision
<1>2. /\ log \in Seq(LogEntry) /\ item.version \in Nat /\ Len(log) \in Nat
      /\ DOMAIN log = 1..Len(log)
  BY MaxVersionAssumption DEF TypeOK, Item
<1>3. log' = Append(log, entry)
  BY DEF DecisionTaken
<1>4. /\ Len(log') = Len(log) + 1 /\ DOMAIN log' = 1..(Len(log) + 1)
      /\ \A i \in 1..Len(log) : log'[i] = log[i]
      /\ log'[Len(log) + 1] = entry
  BY <1>2, <1>3
<1>5. entry.version \in ahead' \/ OnMap(entry)
  <2>1. CASE d.expected > d.seen
    BY <2>1 DEF DecisionTaken
  <2>2. CASE ~(d.expected > d.seen)
    BY <1>1, <2>2, TakenOnItsStatus DEF TransitionMap, Edge
  <2> QED BY <2>1, <2>2
<1>6. /\ entry.version = item.version /\ entry.to = item'.status
      /\ entry.from = item.status /\ entry.action = d.edge.action
  BY <1>1
<1>7. ahead \subseteq ahead'
  BY DEF DecisionTaken
<1>8. \A i \in 1..Len(log) : log[i].version \in Nat
  BY <1>2, LogVersions
<1>9. \A i \in 1..Len(log) :
        /\ log[i].version \in ahead \/ OnMap(log[i])
        /\ log[i].version < item.version
        /\ i < Len(log) =>
             /\ log[i].version < log[i + 1].version
             /\ log[i + 1].version = log[i].version + 1 => log[i + 1].from = log[i].to
  BY <1>2 DEF AuditTrail
<1>10. Len(log) > 0 /\ log[Len(log)].version + 1 = item.version
         => log[Len(log)].to = item.status
  BY <1>2 DEF AuditTrail
<1> HIDE DEF entry, OnMap
<1>11. ASSUME NEW i \in DOMAIN log'
       PROVE  /\ log'[i].version \in ahead' \/ OnMap(log'[i])
              /\ log'[i].version < item'.version
              /\ i < Len(log') =>
                   /\ log'[i].version < log'[i + 1].version
                   /\ log'[i + 1].version = log'[i].version + 1 => log'[i + 1].from = log'[i].to
  <2>1. CASE i = Len(log) + 1
    BY <1>1, <1>2, <1>4, <1>5, <1>6, <2>1
  <2>2. CASE i = Len(log) /\ i \in 1..Len(log)
    BY <1>1, <1>2, <1>4, <1>6, <1>7, <1>8, <1>9, <1>10, <2>2
  <2>3. CASE i < Len(log) /\ i \in 1..Len(log)
    <3>1. i + 1 \in 1..Len(log)
      BY <1>2, <2>3
    <3> QED BY <1>1, <1>2, <1>4, <1>7, <1>8, <1>9, <2>3, <3>1
  <2> QED BY <1>2, <1>4, <2>1, <2>2, <2>3
<1>12. log'[1].action = "SEND_FOR_REVIEW" /\ log'[1].from = "DRAFT"
  <2>1. CASE log = <<>>
    <3>1. item.status = "DRAFT" /\ d.edge.from = "DRAFT"
      BY <2>1 DEF AuditTrail, DraftsAreSent
    <3>2. d.edge.action = "SEND_FOR_REVIEW"
      BY <1>1, <3>1 DEF TransitionMap, Edge
    <3>3. log'[1] = entry
      BY <1>4, <2>1
    <3> QED BY <1>6, <3>1, <3>2, <3>3
  <2>2. CASE log # <<>>
    <3>1. 1 \in 1..Len(log)
      BY <1>2, <2>2
    <3> QED BY <1>4, <2>2, <3>1 DEF AuditTrail
  <2> QED BY <2>1, <2>2
<1>13. log' # <<>> /\ log'[Len(log')].to = item'.status
  BY <1>2, <1>3, <1>4, <1>6
<1> QED BY <1>11, <1>12, <1>13 DEF AuditTrail, OnMap

\* The log is one story for clients that send any version: it begins with the
\* sending of the draft, has a version for each entry, is connected unless a new
\* version of the file came between, and leaves the map only where a client was
\* ahead of the item.
THEOREM Audit == Spec => []AuditTrail
<1>1. Init => AuditTrail
  BY DEF Init, AuditTrail
<1>2. TypeOK /\ ReadsStayFresh /\ OnTheMap /\ DraftsAreSent /\ AuditTrail /\ [Next]_vars
        => AuditTrail'
  <2> SUFFICES ASSUME TypeOK, ReadsStayFresh, OnTheMap, DraftsAreSent, AuditTrail,
                      [Next]_vars
               PROVE  AuditTrail'
    OBVIOUS
  <2>1. ASSUME NEW d \in decisions, DecisionTaken(d)  PROVE AuditTrail'
    BY <2>1, LogGrows
  <2>2. ASSUME NEW u \in uploads, VersionTaken(u)  PROVE AuditTrail'
    <3>1. /\ log' = log /\ ahead' = ahead
          /\ item.version \in Nat /\ log \in Seq(LogEntry)
      BY <2>2, MaxVersionAssumption DEF VersionTaken, TypeOK, Item
    <3>2. item'.version = item.version + 1
      BY <2>2, VersionTakenCounts
    <3>3. \A i \in DOMAIN log : log[i].version \in Nat
      BY LogVersions
    <3>4. log # <<>> => Len(log) \in DOMAIN log
      BY <3>1
    <3>5. item.status = "DRAFT" => item'.status = "DRAFT"
      <4>1. ASSUME NEW t, item.status = "DRAFT"
            PROVE  Edge(item.status, "UPLOAD_NEW_VERSION", t) \notin TransitionMap
        BY <4>1 DEF TransitionMap, Edge
      <4> QED BY <2>2, <4>1, TakenByUpload DEF OnTheMap
    <3> QED BY <3>1, <3>2, <3>3, <3>4, <3>5 DEF AuditTrail
  <2>3. CASE ArchiveReviewItem
    BY <2>3 DEF ArchiveReviewItem, AuditTrail, TypeOK, Item
  <2>4. CASE UNCHANGED <<item, history>>
    BY <2>4 DEF AuditTrail
  <2> QED BY <2>1, <2>2, <2>3, <2>4, ItemSteps
<1> QED BY <1>1, <1>2, TypeCorrect, Reads, Drafts, PTL DEF Spec

\* A decision that passed every check before the item was archived is lost.
THEOREM ArchiveIsFinal == Spec => NoDecisionAfterArchive
<1>1. [Next]_vars => (item.archived => UNCHANGED log)
  BY ItemSteps DEF ArchiveReviewItem, DecisionTaken, UpdateMatches, VersionTaken
<1>2. [Next]_vars => [item.archived => UNCHANGED log]_vars
  BY <1>1
<1> QED BY <1>2, PTL DEF Spec, NoDecisionAfterArchive

\* No client holds a key for a version that was never committed.
THEOREM KeysCommitted == Spec => []KeysFollowCommits
<1>1. Init => KeysFollowCommits
  BY DEF Init, KeysFollowCommits
<1>2. TypeOK /\ TypeOK' /\ ReadsStayFresh /\ KeysFollowCommits /\ [Next]_vars
        => KeysFollowCommits'
  <2> SUFFICES ASSUME TypeOK, TypeOK', ReadsStayFresh, KeysFollowCommits, [Next]_vars
               PROVE  KeysFollowCommits'
    OBVIOUS
  <2>1. \A k \in issued : k.version \in Nat /\ k.version <= item.version
    BY MaxVersionAssumption DEF TypeOK, Key, KeysFollowCommits
  <2>2. item.version \in Nat /\ item'.version \in Nat /\ item.version <= item'.version
    BY VersionStep, MaxVersionAssumption DEF TypeOK, Item
  <2>3. ASSUME NEW u \in uploads, CommitUpload(u)  PROVE KeysFollowCommits'
    <3>1. ASSUME NEW v \in Nat, IssueKey(v), v <= item'.version  PROVE KeysFollowCommits'
      BY <2>1, <2>2, <3>1 DEF IssueKey, KeysFollowCommits
    <3>2. CASE IssueKey(item.version + 1) /\ VersionTaken(u)
      <4>1. item'.version = item.version + 1
        BY <3>2, VersionTakenCounts
      <4> QED BY <2>2, <3>1, <3>2, <4>1
    <3>3. CASE IssueKey(u.version) /\ item' = item
      <4>1. u.version \in Nat /\ u.version <= item.version
        BY MaxVersionAssumption DEF TypeOK, Upload, ReadsStayFresh, UploadsStayFresh
      <4> QED BY <2>2, <3>1, <3>3, <4>1
    <3>4. CASE issued' = issued
      BY <2>1, <2>2, <3>4 DEF KeysFollowCommits
    <3> QED BY <2>3, <3>2, <3>3, <3>4 DEF CommitUpload, VersionTaken
  <2>4. CASE issued' = issued
    BY <2>1, <2>2, <2>4 DEF KeysFollowCommits
  <2>5. issued' = issued \/ \E u \in uploads : CommitUpload(u)
    BY DEF Next, LoadDecision, CheckDecision, CommitDecision, LoadUpload, CheckUpload,
           LoadConfirmation, CommitConfirmation, LoadDeletion, CommitDeletion,
           ArchiveReviewItem, Abandon, TeamChanges, ReviewersChange
  <2> QED BY <2>3, <2>4, <2>5
<1> QED BY <1>1, <1>2, TypeCorrect, Reads, PTL DEF Spec

\* What any number of requests have read, and what clients have been told, agrees
\* with the item as long as its version is the one they know.
THEOREM Freshness == Spec => []RequestsStayFresh
BY Reads, KeysCommitted, PTL DEF RequestsStayFresh

=============================================================================
