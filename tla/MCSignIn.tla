---------------------------- MODULE MCSignIn ----------------------------
(* SignIn for TLC: two tabs, in one browser or in two, and two passwords. *)
EXTENDS SignIn
CONSTANTS t1, t2, p1, p2
MCBrowsers == {[t \in Tabs |-> t1], [t \in Tabs |-> t]}
=============================================================================
