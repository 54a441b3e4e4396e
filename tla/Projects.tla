----------------------------- MODULE Projects -----------------------------
(***************************************************************************)
(* The projects of one organization and the review items in them.          *)
(*                                                                         *)
(* The rules of a project - a name that no other active project has, no    *)
(* active item in an archived project - are checked by queries of their    *)
(* own before the row is written; neither the schema nor a lock backs      *)
(* them.  A request is modelled by its queries and its write, which        *)
(* interleave with those of other requests and may be cut off in between.  *)
(***************************************************************************)
EXTENDS Naturals, FiniteSets

CONSTANTS
    ProjectIds,   \* projects that may ever be created
    Names,        \* project names, trimmed and up to upper and lower case
    ItemIds,      \* review items that may ever be created
    Requests      \* requests that may be in flight at the same time

ASSUME FiniteAssumption == IsFiniteSet(ItemIds) /\ IsFiniteSet(Requests)

VARIABLES
    projects,   \* the rows of projects
    items,      \* the rows of review_items: their project and archivedAt
    requests    \* requests in flight, with what they have checked

vars == <<projects, items, requests>>

-----------------------------------------------------------------------------
(* Data *)

\* A row that does not exist yet has status "none" and an arbitrary name.
Project == [status : {"none", "active", "archived"}, name : Names]
Item    == [status : {"none", "active", "archived"}, project : ProjectIds]
Request == [id : Requests, op : {"CREATE", "RENAME", "ARCHIVE", "ADD_ITEM"},
            pc : {"loaded", "checked"}, project : ProjectIds, name : Names]

Active(p)   == projects[p].status = "active"
ItemsOf(p)  == {i \in ItemIds : items[i].status = "active" /\ items[i].project = p}
InFlight    == {q.id : q \in requests}
NameTaken(n, others) == \E p \in others : Active(p) /\ projects[p].name = n

Enter(q)    == requests' = requests \cup {q}
Move(q, to) == requests' = (requests \ {q}) \cup {[q EXCEPT !.pc = to]}
Leave(q)    == requests' = requests \ {q}

Init ==
    /\ \E n \in Names : projects = [p \in ProjectIds |-> [status |-> "none", name |-> n]]
    /\ \E p \in ProjectIds : items = [i \in ItemIds |-> [status |-> "none", project |-> p]]
    /\ requests = {}

-----------------------------------------------------------------------------
(* Creating a project *)

\* A faulty variant: the names of active projects are not looked at.
CheckNothing(r, p, n) ==
    /\ r \notin InFlight
    /\ projects[p].status = "none" /\ \A q \in requests : q.project # p
    /\ Enter([id |-> r, op |-> "CREATE", pc |-> "checked", project |-> p, name |-> n])
    /\ UNCHANGED <<projects, items>>

\* No active project has the name; p is the id the new row will have.
CheckNewName(r, p, n) ==
    /\ r \notin InFlight
    /\ projects[p].status = "none" /\ \A q \in requests : q.project # p
    /\ ~NameTaken(n, ProjectIds)
    /\ Enter([id |-> r, op |-> "CREATE", pc |-> "checked", project |-> p, name |-> n])
    /\ UNCHANGED <<projects, items>>

\* A faulty variant: the checked name is trimmed again, to nothing.
CreateUnnamed(q) ==
    /\ q.op = "CREATE"
    /\ projects' = [projects EXCEPT ![q.project] = [status |-> "active", name |-> ""]]
    /\ Leave(q)
    /\ UNCHANGED items

CreateProject(q) ==
    /\ q.op = "CREATE"
    /\ projects' = [projects EXCEPT ![q.project] = [status |-> "active", name |-> q.name]]
    /\ Leave(q)
    /\ UNCHANGED items

(* Renaming a project *)

\* The project is read; a name it has already changes nothing.
LoadProject(r, p, n) ==
    /\ r \notin InFlight
    /\ Active(p) /\ projects[p].name # n
    /\ Enter([id |-> r, op |-> "RENAME", pc |-> "loaded", project |-> p, name |-> n])
    /\ UNCHANGED <<projects, items>>

CheckName(q) ==
    /\ q.op = "RENAME" /\ q.pc = "loaded"
    /\ IF NameTaken(q.name, ProjectIds \ {q.project}) THEN Leave(q) ELSE Move(q, "checked")
    /\ UNCHANGED <<projects, items>>

\* The update has no condition on archivedAt.
UpdateProject(q) ==
    /\ q.op = "RENAME" /\ q.pc = "checked"
    /\ projects' = [projects EXCEPT ![q.project].name = q.name]
    /\ Leave(q)
    /\ UNCHANGED items

(* Archiving a project *)

LoadForArchive(r, p) ==
    /\ r \notin InFlight
    /\ Active(p)
    /\ Enter([id |-> r, op |-> "ARCHIVE", pc |-> "loaded", project |-> p,
              name |-> projects[p].name])
    /\ UNCHANGED <<projects, items>>

CountItems(q) ==
    /\ q.op = "ARCHIVE" /\ q.pc = "loaded"
    /\ IF Cardinality(ItemsOf(q.project)) > 0 THEN Leave(q) ELSE Move(q, "checked")
    /\ UNCHANGED <<projects, items>>

\* The update matches an active row only; a second one finds none and
\* answers with the archived row.
ArchiveProject(q) ==
    /\ q.op = "ARCHIVE" /\ q.pc = "checked"
    /\ projects' = IF Active(q.project)
                     THEN [projects EXCEPT ![q.project].status = "archived"]
                     ELSE projects
    /\ Leave(q)
    /\ UNCHANGED items

(* Review items *)

\* A faulty variant: the project may be archived.
LoadAnyForItem(r, p) ==
    /\ r \notin InFlight
    /\ projects[p].status # "none"
    /\ Enter([id |-> r, op |-> "ADD_ITEM", pc |-> "checked", project |-> p,
              name |-> projects[p].name])
    /\ UNCHANGED <<projects, items>>

\* The project of a new item must be active.
LoadForItem(r, p) ==
    /\ r \notin InFlight
    /\ Active(p)
    /\ Enter([id |-> r, op |-> "ADD_ITEM", pc |-> "checked", project |-> p,
              name |-> projects[p].name])
    /\ UNCHANGED <<projects, items>>

CreateReviewItem(q) ==
    /\ q.op = "ADD_ITEM"
    /\ \E i \in ItemIds :
         /\ items[i].status = "none"
         /\ items' = [items EXCEPT ![i] = [status |-> "active", project |-> q.project]]
    /\ Leave(q)
    /\ UNCHANGED projects

ArchiveReviewItem(i) ==
    /\ items[i].status = "active"
    /\ items' = [items EXCEPT ![i].status = "archived"]
    /\ UNCHANGED <<projects, requests>>

\* A request fails or is cut off before its write.
Abandon(q) ==
    /\ Leave(q)
    /\ UNCHANGED <<projects, items>>

-----------------------------------------------------------------------------
Next ==
    \/ \E r \in Requests, p \in ProjectIds :
         \/ \E n \in Names : CheckNewName(r, p, n) \/ LoadProject(r, p, n)
         \/ LoadForArchive(r, p) \/ LoadForItem(r, p)
    \/ \E q \in requests : \/ CreateProject(q) \/ CheckName(q) \/ UpdateProject(q)
                           \/ CountItems(q) \/ ArchiveProject(q)
                           \/ CreateReviewItem(q) \/ Abandon(q)
    \/ \E i \in ItemIds : ArchiveReviewItem(i)

Spec == Init /\ [][Next]_vars

-----------------------------------------------------------------------------
(* Properties *)

\* Rows and requests have the types of their columns and fields.
TypeOK ==
    /\ projects \in [ProjectIds -> Project]
    /\ items \in [ItemIds -> Item]
    /\ requests \subseteq Request

\* "Project name must be unique within organization" is checked, not kept:
\* requests that overlap can all pass the check.  No more projects share a
\* name than there are requests at a time, however often they are renamed.
Namesakes(n) == {p \in ProjectIds : Active(p) /\ projects[p].name = n}
FewNamesakes == \A n \in Names : Cardinality(Namesakes(n)) <= Cardinality(Requests)

\* Once a project is archived, the items it has and the requests that saw it
\* active and will still add one never become more.
Adding(p) == {q \in requests : q.op = "ADD_ITEM" /\ q.project = p}
Late(p)   == Cardinality(ItemsOf(p)) + Cardinality(Adding(p))
ArchivedProjectsClose ==
    [][\A p \in ProjectIds : projects[p].status = "archived" => Late(p)' <= Late(p)]_vars

=============================================================================
