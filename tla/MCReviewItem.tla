---------------------------- MODULE MCReviewItem ----------------------------
(* Small instances of ReviewItem for TLC. *)
EXTENDS ReviewItem, TLC

CONSTANTS r1, r2, u1, nameA, uuid3

\* parseInt("3f...") is 3; the name that a client makes up starts with a letter.
MCLeadingInt == [t \in {uuid3, nameA} |-> IF t = uuid3 THEN 3 ELSE 0]

Symmetric == Permutations(Requests)

=============================================================================
