------------------------- MODULE MCReviewerAccess -------------------------
(* A small instance of ReviewerAccess for TLC. *)
EXTENDS ReviewerAccess, TLC

Symmetric == Permutations(Projects) \cup Permutations(People) \cup Permutations(Requests)

=============================================================================
