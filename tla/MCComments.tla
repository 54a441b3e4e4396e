--------------------------- MODULE MCComments ---------------------------
(* Comments for TLC: an owner, a member and a reviewer, two requests at a    *)
(* time, two comments on two instants, pages of one.                         *)
EXTENDS Comments, TLC

CONSTANTS owner, member

MCRole   == (owner :> "OWNER") @@ (member :> "MEMBER")
Symmetry == Permutations(Requests)
=============================================================================
