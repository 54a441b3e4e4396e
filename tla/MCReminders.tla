--------------------------- MODULE MCReminders ---------------------------
(* Reminders for TLC: two items, two overlapping runs, intervals of one tick. *)
EXTENDS Reminders
CONSTANTS i1, i2, w1, w2
=============================================================================
