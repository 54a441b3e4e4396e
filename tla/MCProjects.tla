---------------------------- MODULE MCProjects ----------------------------
(* A small instance of Projects for TLC. *)
EXTENDS Projects, TLC

Symmetric == Permutations(ProjectIds) \cup Permutations(Names)
             \cup Permutations(ItemIds) \cup Permutations(Requests)

=============================================================================
