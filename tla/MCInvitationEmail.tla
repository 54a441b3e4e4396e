------------------------- MODULE MCInvitationEmail -------------------------
(* A small instance of InvitationEmail for TLC. *)
EXTENDS InvitationEmail

CONSTANTS i1, i2, w1, w2, m1, m2, m3

\* The job of i1 may be in the queue twice.
MCJob == [m \in Messages |-> IF m = m3 THEN i2 ELSE i1]

=============================================================================
