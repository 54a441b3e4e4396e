-------------------------- MODULE Projects_proofs --------------------------
(***************************************************************************)
(* Proofs about Projects, for any number of projects and names and any     *)
(* finite number of items and of requests at a time.                       *)
(***************************************************************************)
EXTENDS Projects, FiniteSetTheorems, TLAPS

USE DEF vars, Enter, Leave, Move

\* A request id is in flight once, and a creation enters with its name checked.
RequestsOK ==
    /\ \A q, o \in requests : q.id = o.id => q = o
    /\ \A q \in requests : q.op \in {"CREATE", "ADD_ITEM"} => q.pc = "checked"

\* The requests that will give a project the name n, and the projects that
\* have it or are about to.
Claiming(n) == {q \in requests : q.op \in {"CREATE", "RENAME"} /\ q.pc = "checked" /\ q.name = n}
Claims(n)   == Namesakes(n) \cup {q.project : q \in Claiming(n)}
FewClaims   == \A n \in Names : /\ IsFiniteSet(Claims(n))
                                /\ Cardinality(Claims(n)) <= Cardinality(Requests)

Inv == TypeOK /\ RequestsOK /\ FewClaims

-----------------------------------------------------------------------------
(* The requests in flight *)

LEMMA RequestFields ==
    ASSUME TypeOK
    PROVE  \A q \in requests : /\ q.id \in Requests /\ q.project \in ProjectIds
                               /\ q.name \in Names /\ q.pc \in {"loaded", "checked"}
                               /\ q.op \in {"CREATE", "RENAME", "ARCHIVE", "ADD_ITEM"}
  BY DEF TypeOK, Request

\* A step lets one request in, moves one on, lets one out, or none.
Entering(q) == /\ q \in Request /\ q.id \notin InFlight
               /\ q.op \in {"CREATE", "ADD_ITEM"} => q.pc = "checked"
               /\ requests' = requests \cup {q}
Moving(q)   == /\ q \in requests /\ q.op \in {"RENAME", "ARCHIVE"}
               /\ requests' = (requests \ {q}) \cup {[q EXCEPT !.pc = "checked"]}
Leaving(q)  == q \in requests /\ requests' = requests \ {q}
RequestStep == \/ requests' = requests
               \/ \E q : Entering(q) \/ Moving(q) \/ Leaving(q)

LEMMA RequestSteps ==
    ASSUME TypeOK, [Next]_vars
    PROVE  RequestStep
<1>1. ASSUME NEW r \in Requests, NEW p \in ProjectIds, NEW n \in Names, CheckNewName(r, p, n)
      PROVE  RequestStep
  <2> DEFINE q == [id |-> r, op |-> "CREATE", pc |-> "checked", project |-> p, name |-> n]
  <2>1. Entering(q)  BY <1>1 DEF CheckNewName, Entering, Request
  <2> QED BY <2>1 DEF RequestStep
<1>2. ASSUME NEW r \in Requests, NEW p \in ProjectIds, NEW n \in Names, LoadProject(r, p, n)
      PROVE  RequestStep
  <2> DEFINE q == [id |-> r, op |-> "RENAME", pc |-> "loaded", project |-> p, name |-> n]
  <2>1. Entering(q)  BY <1>2 DEF LoadProject, Entering, Request
  <2> QED BY <2>1 DEF RequestStep
<1>3. ASSUME NEW r \in Requests, NEW p \in ProjectIds, LoadForArchive(r, p)
      PROVE  RequestStep
  <2> DEFINE q == [id |-> r, op |-> "ARCHIVE", pc |-> "loaded", project |-> p,
                   name |-> projects[p].name]
  <2>1. projects[p].name \in Names  BY DEF TypeOK, Project
  <2>2. Entering(q)  BY <1>3, <2>1 DEF LoadForArchive, Entering, Request
  <2> QED BY <2>2 DEF RequestStep
<1>4. ASSUME NEW r \in Requests, NEW p \in ProjectIds, LoadForItem(r, p)
      PROVE  RequestStep
  <2> DEFINE q == [id |-> r, op |-> "ADD_ITEM", pc |-> "checked", project |-> p,
                   name |-> projects[p].name]
  <2>1. projects[p].name \in Names  BY DEF TypeOK, Project
  <2>2. Entering(q)  BY <1>4, <2>1 DEF LoadForItem, Entering, Request
  <2> QED BY <2>2 DEF RequestStep
<1>5. ASSUME NEW q \in requests, CheckName(q) \/ CountItems(q)
      PROVE  RequestStep
  <2>1. Leaving(q) \/ Moving(q)
    BY <1>5 DEF CheckName, CountItems, Leaving, Moving
  <2> QED BY <2>1 DEF RequestStep
<1>6. ASSUME NEW q \in requests,
             \/ CreateProject(q) \/ UpdateProject(q) \/ ArchiveProject(q)
             \/ CreateReviewItem(q) \/ Abandon(q)
      PROVE  RequestStep
  <2>1. Leaving(q)
    BY <1>6 DEF CreateProject, UpdateProject, ArchiveProject, CreateReviewItem,
                Abandon, Leaving
  <2> QED BY <2>1 DEF RequestStep
<1>7. CASE UNCHANGED vars \/ \E i \in ItemIds : ArchiveReviewItem(i)
  BY <1>7 DEF ArchiveReviewItem, RequestStep
<1> QED BY <1>1, <1>2, <1>3, <1>4, <1>5, <1>6, <1>7 DEF Next

\* A request that moves on keeps everything but its place.
LEMMA MovedRequest ==
    ASSUME NEW q \in Request
    PROVE  LET m == [q EXCEPT !.pc = "checked"]
           IN  /\ m \in Request /\ m.pc = "checked"
               /\ m.id = q.id /\ m.op = q.op /\ m.project = q.project /\ m.name = q.name
  BY DEF Request

LEMMA RequestsPreserved ==
    ASSUME TypeOK, RequestsOK, RequestStep
    PROVE  requests' \subseteq Request /\ RequestsOK'
<1>1. CASE requests' = requests
  BY <1>1 DEF TypeOK, RequestsOK
<1>2. ASSUME NEW q, Entering(q)  PROVE requests' \subseteq Request /\ RequestsOK'
  BY <1>2 DEF Entering, InFlight, TypeOK, RequestsOK
<1>3. ASSUME NEW q, Moving(q)  PROVE requests' \subseteq Request /\ RequestsOK'
  <2> DEFINE m == [q EXCEPT !.pc = "checked"]
  <2>1. m \in Request /\ m.pc = "checked" /\ m.id = q.id
    BY <1>3, MovedRequest DEF Moving, TypeOK
  <2>2. requests' = (requests \ {q}) \cup {m} /\ q \in requests
    BY <1>3 DEF Moving
  <2> HIDE DEF m
  <2> QED BY <2>1, <2>2 DEF TypeOK, RequestsOK
<1>4. ASSUME NEW q, Leaving(q)  PROVE requests' \subseteq Request /\ RequestsOK'
  BY <1>4 DEF Leaving, TypeOK, RequestsOK
<1> QED BY <1>1, <1>2, <1>3, <1>4 DEF RequestStep

\* Requests with different ids are no more than there are ids, and they
\* concern no more projects.
LEMMA FewRequests ==
    ASSUME NEW R, R \subseteq Request, \A q, o \in R : q.id = o.id => q = o
    PROVE  /\ IsFiniteSet(R)
           /\ IsFiniteSet({q.project : q \in R})
           /\ Cardinality({q.project : q \in R}) <= Cardinality(Requests)
<1> DEFINE idOf == [q \in R |-> q.id]
           concerned == {q.project : q \in R}
           projectOf == [q \in R |-> q.project]
<1>1. idOf \in Injection(R, Requests)
  BY DEF Request, Injection, IsInjective
<1>2. IsFiniteSet(R) /\ Cardinality(R) <= Cardinality(Requests)
  BY <1>1, FS_Injection, FiniteAssumption
<1>3. projectOf \in Surjection(R, concerned)
  BY DEF Surjection
<1>4. IsFiniteSet(concerned) /\ Cardinality(concerned) <= Cardinality(R)
  BY <1>2, <1>3, FS_Surjection
<1>5. /\ Cardinality(concerned) \in Nat /\ Cardinality(R) \in Nat
      /\ Cardinality(Requests) \in Nat
  BY <1>2, <1>4, FS_CardinalityType, FiniteAssumption
<1> QED BY <1>2, <1>4, <1>5

-----------------------------------------------------------------------------
(* Types *)

LEMMA TypesPreserved ==
    ASSUME TypeOK, RequestsOK, [Next]_vars
    PROVE  TypeOK'
<1>1. requests' \subseteq Request
  BY RequestSteps, RequestsPreserved
<1> DEFINE Rows == projects' \in [ProjectIds -> Project] /\ items' \in [ItemIds -> Item]
<1>2. ASSUME NEW q \in requests, CreateProject(q)  PROVE Rows
  BY <1>2, RequestFields DEF CreateProject, TypeOK, Project
<1>3. ASSUME NEW q \in requests, UpdateProject(q)  PROVE Rows
  BY <1>3, RequestFields DEF UpdateProject, TypeOK, Project
<1>4. ASSUME NEW q \in requests, ArchiveProject(q)  PROVE Rows
  BY <1>4, RequestFields DEF ArchiveProject, TypeOK, Project
<1>5. ASSUME NEW q \in requests, CreateReviewItem(q)  PROVE Rows
  BY <1>5, RequestFields DEF CreateReviewItem, TypeOK, Item
<1>6. ASSUME NEW i \in ItemIds, ArchiveReviewItem(i)  PROVE Rows
  BY <1>6 DEF ArchiveReviewItem, TypeOK, Item
<1>7. ASSUME UNCHANGED <<projects, items>>  PROVE Rows
  BY <1>7 DEF TypeOK
<1> HIDE DEF Rows
<1>8. Rows
  <2>1. \/ \E q \in requests : \/ CreateProject(q) \/ UpdateProject(q) \/ ArchiveProject(q)
                               \/ CreateReviewItem(q)
        \/ \E i \in ItemIds : ArchiveReviewItem(i)
        \/ UNCHANGED <<projects, items>>
    BY DEF Next, CheckNewName, LoadProject, LoadForArchive, LoadForItem, CheckName,
           CountItems, Abandon
  <2> QED BY <2>1, <1>2, <1>3, <1>4, <1>5, <1>6, <1>7
<1> QED BY <1>1, <1>8 DEF TypeOK, Rows

-----------------------------------------------------------------------------
(* Names *)

\* The projects claiming a name, element by element.
LEMMA ClaimsAre ==
    ASSUME NEW n, NEW p
    PROVE  /\ p \in Claims(n) <=>
                \/ p \in ProjectIds /\ projects[p].status = "active" /\ projects[p].name = n
                \/ \E q \in requests : /\ q.op \in {"CREATE", "RENAME"} /\ q.pc = "checked"
                                       /\ q.name = n /\ q.project = p
           /\ p \in Claims(n)' <=>
                \/ p \in ProjectIds /\ projects'[p].status = "active" /\ projects'[p].name = n
                \/ \E q \in requests' : /\ q.op \in {"CREATE", "RENAME"} /\ q.pc = "checked"
                                        /\ q.name = n /\ q.project = p
  BY DEF Claims, Claiming, Namesakes, Active

\* A name is claimed anew only while no other project has it; then only the
\* requests in flight claim it.
LEMMA ClaimSteps ==
    ASSUME Inv, [Next]_vars, NEW n \in Names
    PROVE  \/ Claims(n)' \subseteq Claims(n)
           \/ Claims(n)' \subseteq {q.project : q \in requests'}
<1> USE DEF Inv
<1> DEFINE Few == \/ Claims(n)' \subseteq Claims(n)
                  \/ Claims(n)' \subseteq {q.project : q \in requests'}
<1>1. ASSUME NEW r \in Requests, NEW p \in ProjectIds, NEW m \in Names, CheckNewName(r, p, m)
      PROVE  Few
  <2>1. CASE m = n
    <3>1. ASSUME NEW o \in Claims(n)'  PROVE \E q \in requests' : q.project = o
      BY <1>1, <2>1, <3>1, ClaimsAre DEF CheckNewName, NameTaken, Active
    <3> QED BY <3>1
  <2>2. CASE m # n
    BY <1>1, <2>2, ClaimsAre DEF CheckNewName
  <2> QED BY <2>1, <2>2
<1>2. ASSUME NEW q \in requests, CheckName(q)  PROVE Few
  <2> DEFINE m == [q EXCEPT !.pc = "checked"]
  <2>1. m.op = q.op /\ m.project = q.project /\ m.name = q.name /\ m.pc = "checked"
    BY MovedRequest DEF TypeOK
  <2>2. CASE NameTaken(q.name, ProjectIds \ {q.project})
    BY <1>2, <2>2, ClaimsAre DEF CheckName
  <2>3. CASE ~NameTaken(q.name, ProjectIds \ {q.project})
    <3>1. requests' = (requests \ {q}) \cup {m} /\ projects' = projects
      BY <1>2, <2>3 DEF CheckName
    <3> HIDE DEF m
    <3>2. CASE q.name = n
      <4>1. ASSUME NEW o \in Claims(n)'  PROVE \E t \in requests' : t.project = o
        BY <2>1, <2>3, <3>1, <3>2, <4>1, ClaimsAre DEF NameTaken, Active
      <4> QED BY <4>1
    <3>3. CASE q.name # n
      BY <2>1, <3>1, <3>3, ClaimsAre
    <3> QED BY <3>2, <3>3
  <2> QED BY <2>2, <2>3
<1>3. ASSUME NEW q \in requests, CreateProject(q)  PROVE Few
  <2>1. q.pc = "checked" /\ q.project \in ProjectIds
    BY <1>3, RequestFields DEF CreateProject, RequestsOK
  <2> QED BY <1>3, <2>1, ClaimsAre DEF CreateProject, TypeOK
<1>4. ASSUME NEW q \in requests, UpdateProject(q)  PROVE Few
  BY <1>4, RequestFields, ClaimsAre DEF UpdateProject, TypeOK, Project
<1>5. ASSUME NEW q \in requests, ArchiveProject(q)  PROVE Few
  BY <1>5, RequestFields, ClaimsAre DEF ArchiveProject, TypeOK, Project
<1>6. ASSUME UNCHANGED projects, requests' \subseteq requests  PROVE Few
  BY <1>6, ClaimsAre
<1>7. ASSUME NEW q \in requests, CountItems(q)  PROVE Few
  <2> DEFINE m == [q EXCEPT !.pc = "checked"]
  <2>1. m.op = "ARCHIVE"
    BY <1>7, MovedRequest DEF CountItems, TypeOK
  <2>2. UNCHANGED projects /\ requests' \subseteq requests \cup {m}
    BY <1>7 DEF CountItems
  <2> HIDE DEF m
  <2> QED BY <2>1, <2>2, ClaimsAre
<1>8. ASSUME NEW r \in Requests, NEW p \in ProjectIds, NEW m \in Names, LoadProject(r, p, m)
      PROVE  Few
  BY <1>8, ClaimsAre DEF LoadProject
<1>9. ASSUME NEW r \in Requests, NEW p \in ProjectIds, LoadForArchive(r, p) \/ LoadForItem(r, p)
       PROVE  Few
  BY <1>9, ClaimsAre DEF LoadForArchive, LoadForItem
<1>10. ASSUME \/ \E q \in requests : CreateReviewItem(q) \/ Abandon(q)
              \/ \E i \in ItemIds : ArchiveReviewItem(i)
              \/ UNCHANGED vars
       PROVE  Few
  <2>1. UNCHANGED projects /\ requests' \subseteq requests
    BY <1>10 DEF CreateReviewItem, Abandon, ArchiveReviewItem
  <2> QED BY <1>6, <2>1
<1> HIDE DEF Few
<1>11. Few
  BY <1>1, <1>2, <1>3, <1>4, <1>5, <1>7, <1>8, <1>9, <1>10 DEF Next, Few
<1> QED BY <1>11 DEF Few

LEMMA ClaimsPreserved ==
    ASSUME Inv, [Next]_vars, TypeOK', RequestsOK'
    PROVE  FewClaims'
<1> SUFFICES ASSUME NEW n \in Names
             PROVE  IsFiniteSet(Claims(n)') /\ Cardinality(Claims(n)') <= Cardinality(Requests)
  BY DEF FewClaims
<1> DEFINE concerned == {q.project : q \in requests}
<1>1. IsFiniteSet(concerned') /\ Cardinality(concerned') <= Cardinality(Requests)
  BY FewRequests DEF TypeOK, RequestsOK
<1>2. IsFiniteSet(Claims(n)) /\ Cardinality(Claims(n)) <= Cardinality(Requests)
  BY DEF Inv, FewClaims
<1> QED
  <2>1. ASSUME NEW S, IsFiniteSet(S), Cardinality(S) <= Cardinality(Requests), Claims(n)' \subseteq S
        PROVE  IsFiniteSet(Claims(n)') /\ Cardinality(Claims(n)') <= Cardinality(Requests)
    <3>1. IsFiniteSet(Claims(n)') /\ Cardinality(Claims(n)') <= Cardinality(S)
      BY <2>1, FS_Subset
    <3> QED BY <2>1, <3>1, FS_CardinalityType, FiniteAssumption
  <2> QED BY <1>1, <1>2, <2>1, ClaimSteps

-----------------------------------------------------------------------------
(* Archived projects *)

\* A step adds no item to an archived project, unless a request that saw it
\* active adds one and is done.
LEMMA LateSteps ==
    ASSUME Inv, [Next]_vars, NEW p \in ProjectIds, projects[p].status = "archived"
    PROVE  \/ ItemsOf(p)' \subseteq ItemsOf(p) /\ Adding(p)' \subseteq Adding(p)
           \/ \E q \in Adding(p), i \in ItemIds \ ItemsOf(p) :
                 ItemsOf(p)' = ItemsOf(p) \cup {i} /\ Adding(p)' = Adding(p) \ {q}
<1> USE DEF Inv
<1> DEFINE Shrinks == ItemsOf(p)' \subseteq ItemsOf(p) /\ Adding(p)' \subseteq Adding(p)
           Trades  == \E q \in Adding(p), i \in ItemIds \ ItemsOf(p) :
                         ItemsOf(p)' = ItemsOf(p) \cup {i} /\ Adding(p)' = Adding(p) \ {q}
<1>1. ASSUME items' = items, \A q \in requests' : q \in requests \/ q \notin Adding(p)'
      PROVE  Shrinks
  BY <1>1 DEF ItemsOf, Adding
<1>2. ASSUME NEW r \in Requests, NEW o \in ProjectIds,
             \/ \E n \in Names : CheckNewName(r, o, n) \/ LoadProject(r, o, n)
             \/ LoadForArchive(r, o) \/ LoadForItem(r, o)
      PROVE  Shrinks
  <2>1. items' = items /\ \A q \in requests' : q \in requests \/ q \notin Adding(p)'
    BY <1>2 DEF CheckNewName, LoadProject, LoadForArchive, LoadForItem, Active, Adding
  <2> QED BY <1>1, <2>1
<1>3. ASSUME NEW q \in requests, CheckName(q) \/ CountItems(q)  PROVE Shrinks
  <2> DEFINE m == [q EXCEPT !.pc = "checked"]
  <2>1. m.op \in {"RENAME", "ARCHIVE"}
    BY <1>3, MovedRequest DEF CheckName, CountItems, TypeOK
  <2>2. items' = items /\ requests' \subseteq requests \cup {m}
    BY <1>3 DEF CheckName, CountItems
  <2> HIDE DEF m
  <2>3. \A o \in requests' : o \in requests \/ o \notin Adding(p)'
    BY <2>1, <2>2 DEF Adding
  <2> QED BY <1>1, <2>2, <2>3
<1>4. ASSUME NEW q \in requests,
             CreateProject(q) \/ UpdateProject(q) \/ ArchiveProject(q) \/ Abandon(q)
      PROVE  Shrinks
  <2>1. items' = items /\ requests' \subseteq requests
    BY <1>4 DEF CreateProject, UpdateProject, ArchiveProject, Abandon
  <2> QED BY <1>1, <2>1
<1>5. ASSUME NEW q \in requests, CreateReviewItem(q)  PROVE Shrinks \/ Trades
  <2>1. PICK i \in ItemIds :
            /\ items[i].status = "none"
            /\ items' = [items EXCEPT ![i] = [status |-> "active", project |-> q.project]]
    BY <1>5 DEF CreateReviewItem
  <2>2. CASE q.project = p
    <3>1. q \in Adding(p) /\ i \in ItemIds \ ItemsOf(p)
      BY <1>5, <2>1, <2>2 DEF CreateReviewItem, Adding, ItemsOf
    <3>2. ItemsOf(p)' = ItemsOf(p) \cup {i}
      BY <2>1, <2>2 DEF ItemsOf, TypeOK
    <3>3. Adding(p)' = Adding(p) \ {q}
      BY <1>5 DEF CreateReviewItem, Adding
    <3> QED BY <3>1, <3>2, <3>3
  <2>3. CASE q.project # p
    <3>1. ItemsOf(p)' \subseteq ItemsOf(p)
      BY <2>1, <2>3 DEF ItemsOf, TypeOK
    <3>2. Adding(p)' \subseteq Adding(p)
      BY <1>5 DEF CreateReviewItem, Adding
    <3> QED BY <3>1, <3>2
  <2> QED BY <2>2, <2>3
<1>6. ASSUME NEW i \in ItemIds, ArchiveReviewItem(i)  PROVE Shrinks
  BY <1>6 DEF ArchiveReviewItem, ItemsOf, Adding, TypeOK, Item
<1>7. ASSUME UNCHANGED vars  PROVE Shrinks
  BY <1>7 DEF ItemsOf, Adding
<1> HIDE DEF Shrinks, Trades
<1>8. Shrinks \/ Trades
  BY <1>2, <1>3, <1>4, <1>5, <1>6, <1>7 DEF Next
<1> QED BY <1>8 DEF Shrinks, Trades

LEMMA Closing ==
    ASSUME Inv, [Next]_vars, NEW p \in ProjectIds, projects[p].status = "archived"
    PROVE  Late(p)' <= Late(p)
<1>1. IsFiniteSet(ItemsOf(p)) /\ IsFiniteSet(Adding(p))
  <2>1. IsFiniteSet(requests)
    BY FewRequests DEF Inv, TypeOK, RequestsOK
  <2>2. ItemsOf(p) \subseteq ItemIds /\ Adding(p) \subseteq requests
    BY DEF ItemsOf, Adding
  <2> QED BY <2>1, <2>2, FS_Subset, FiniteAssumption
<1>2. Cardinality(ItemsOf(p)) \in Nat /\ Cardinality(Adding(p)) \in Nat
  BY <1>1, FS_CardinalityType
<1>3. CASE ItemsOf(p)' \subseteq ItemsOf(p) /\ Adding(p)' \subseteq Adding(p)
  <2>1. /\ IsFiniteSet(ItemsOf(p)') /\ IsFiniteSet(Adding(p)')
        /\ Cardinality(ItemsOf(p)') <= Cardinality(ItemsOf(p))
        /\ Cardinality(Adding(p)') <= Cardinality(Adding(p))
    BY <1>1, <1>3, FS_Subset
  <2>2. Cardinality(ItemsOf(p)') \in Nat /\ Cardinality(Adding(p)') \in Nat
    BY <2>1, FS_CardinalityType
  <2> QED BY <1>2, <2>1, <2>2 DEF Late
<1>4. CASE \E q \in Adding(p), i \in ItemIds \ ItemsOf(p) :
              ItemsOf(p)' = ItemsOf(p) \cup {i} /\ Adding(p)' = Adding(p) \ {q}
  <2>1. PICK q \in Adding(p), i \in ItemIds \ ItemsOf(p) :
              ItemsOf(p)' = ItemsOf(p) \cup {i} /\ Adding(p)' = Adding(p) \ {q}
    BY <1>4
  <2>2. Cardinality(ItemsOf(p)') = Cardinality(ItemsOf(p)) + 1
    BY <1>1, <2>1, FS_AddElement
  <2>3. Cardinality(Adding(p)') = Cardinality(Adding(p)) - 1
    BY <1>1, <2>1, FS_RemoveElement
  <2> QED BY <1>2, <2>2, <2>3 DEF Late
<1> QED BY <1>3, <1>4, LateSteps

-----------------------------------------------------------------------------
LEMMA Invariance == Spec => []Inv
<1>1. Init => Inv
  <2> SUFFICES ASSUME Init  PROVE Inv
    OBVIOUS
  <2>1. TypeOK /\ RequestsOK
    BY DEF Init, TypeOK, RequestsOK, Project, Item
  <2>2. ASSUME NEW n \in Names  PROVE Claims(n) = {}
    <3>1. \A p : p \notin Claims(n)
      BY ClaimsAre DEF Init
    <3> QED BY <3>1
  <2>3. FewClaims
    <3>1. Cardinality(Requests) \in Nat
      BY FS_CardinalityType, FiniteAssumption
    <3> QED BY <2>2, <3>1, FS_EmptySet DEF FewClaims
  <2> QED BY <2>1, <2>3 DEF Inv
<1>2. Inv /\ [Next]_vars => Inv'
  BY TypesPreserved, RequestSteps, RequestsPreserved, ClaimsPreserved DEF Inv
<1> QED BY <1>1, <1>2, PTL DEF Spec

(* Theorems *)

\* Every reachable state of the rows and of the requests in flight is well
\* typed.
THEOREM TypeCorrect == Spec => []TypeOK
<1>1. Inv => TypeOK
  BY DEF Inv
<1> QED BY <1>1, Invariance, PTL

\* The race in the check of a name is bounded: a name has at most as many
\* active projects as there are requests at a time.
THEOREM FewNames == Spec => []FewNamesakes
<1>1. Inv => FewNamesakes
  <2> SUFFICES ASSUME Inv, NEW n \in Names
               PROVE  Cardinality(Namesakes(n)) <= Cardinality(Requests)
    BY DEF FewNamesakes
  <2>1. IsFiniteSet(Claims(n)) /\ Cardinality(Claims(n)) <= Cardinality(Requests)
    BY DEF Inv, FewClaims
  <2>2. Namesakes(n) \subseteq Claims(n)
    BY DEF Claims
  <2>3. IsFiniteSet(Namesakes(n)) /\ Cardinality(Namesakes(n)) <= Cardinality(Claims(n))
    BY <2>1, <2>2, FS_Subset
  <2> QED BY <2>1, <2>3, FS_CardinalityType, FiniteAssumption
<1> QED BY <1>1, Invariance, PTL

\* The race in the archiving of a project is bounded: the requests that saw
\* the project active add at most one item each, and no others are added.
THEOREM ArchivingCloses == Spec => ArchivedProjectsClose
<1>1. Inv /\ [Next]_vars =>
        [\A p \in ProjectIds : projects[p].status = "archived" => Late(p)' <= Late(p)]_vars
  BY Closing
<1> QED BY <1>1, Invariance, PTL DEF Spec, ArchivedProjectsClose

=============================================================================
