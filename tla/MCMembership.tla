--------------------------- MODULE MCMembership ---------------------------
(* A small instance of Membership for TLC. *)
EXTENDS Membership, TLC

CONSTANTS o, a1, c1, r1, r2

Symmetric == Permutations(Requests)

=============================================================================
