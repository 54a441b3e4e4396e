-------------------------- MODULE ReviewLifecycle --------------------------
(***************************************************************************)
(* What a review item promises, whoever uses it at the same time: every    *)
(* decision and every new version of the file take the next version        *)
(* number, no decision is taken on an archived item, a draft is left by    *)
(* sending it only, and the status moves along the edges of the transition *)
(* map - unless the client who decides named a version that the item did   *)
(* not have yet when its request read it.  Every change is atomic here;    *)
(* ReviewItem implements this module with requests that interleave.        *)
(***************************************************************************)
EXTENDS Integers

CONSTANTS Edges   \* the transition map: records [from, action, to]

VARIABLES
    status, version, archived,
    ahead     \* the versions taken by clients who were ahead of the item

vars == <<status, version, archived, ahead>>

Init == status = "DRAFT" /\ version = 1 /\ archived = FALSE /\ ahead = {}

\* A user or a reviewer takes a decision on the item.
Decide ==
    /\ ~archived
    /\ \E e \in Edges :
         /\ e.action # "UPLOAD_NEW_VERSION"
         /\ e.from = status
         /\ status' = e.to
    /\ version' = version + 1
    /\ UNCHANGED <<archived, ahead>>

\* A decision that names the version the item is going to have: it was chosen on
\* an earlier status, and lands on the present one, whatever that is.
DecideAhead ==
    /\ ~archived
    /\ \E e \in Edges :
         /\ e.action # "UPLOAD_NEW_VERSION"
         /\ status = "DRAFT" => e.from = "DRAFT"
         /\ status' = e.to
    /\ version' = version + 1
    /\ ahead' = ahead \cup {version}
    /\ UNCHANGED archived

\* A file replaces the current one.  A draft stays a draft; the rest follows
\* the map.  The upload of a file may outlast the archiving of the item.
Upload ==
    /\ \/ \E e \in Edges :
            /\ e.action = "UPLOAD_NEW_VERSION"
            /\ e.from = status
            /\ status' = e.to
       \/ status = "DRAFT" /\ UNCHANGED status
    /\ version' = version + 1
    /\ UNCHANGED <<archived, ahead>>

Archive ==
    /\ ~archived
    /\ archived' = TRUE
    /\ UNCHANGED <<status, version, ahead>>

Next == Decide \/ DecideAhead \/ Upload \/ Archive

Spec == Init /\ [][Next]_vars

=============================================================================
