---------------------------- MODULE SessionTable ----------------------------
(***************************************************************************)
(* What the sessions of a team promise: as if the server kept a table with *)
(* the session of each browser, deleted a person's sessions in all         *)
(* browsers with every change of their row, and never had a session that   *)
(* does not say what the row says.  The server keeps no such table:        *)
(* Membership and SignIn implement this module with signed cookies and a   *)
(* version.                                                                *)
(***************************************************************************)
CONSTANTS
    Accounts,   \* people who may log in
    Clients,    \* browsers
    Roles,
    Founders    \* people whose rows exist from the beginning

VARIABLES
    people,   \* status, role and whether onboarded of each account
    table     \* the session of each browser: none or one

vars == <<people, table>>

Newcomer(role) == [status |-> "member", role |-> role, named |-> FALSE]

Init ==
    /\ people = [a \in Accounts |->
                   IF a \in Founders THEN Newcomer("OWNER")
                   ELSE [Newcomer("MEMBER") EXCEPT !.status = "none"]]
    /\ table = [c \in Clients |-> {}]

Entry(a) == [account |-> a, role |-> people[a].role, named |-> people[a].named]

\* A login.
Enter(c, a) ==
    /\ people[a].status = "member"
    /\ table' = [table EXCEPT ![c] = {Entry(a)}]
    /\ UNCHANGED people

\* A browser loses its session: it expires, or the answer to a logout clears it.
Leave(c) ==
    /\ table' = [table EXCEPT ![c] = {}]
    /\ UNCHANGED people

\* An account gets its row, and the browser its session, unless the answer is lost.
Join(a) ==
    /\ people[a].status = "none"
    /\ \E role \in Roles : people' = [people EXCEPT ![a] = Newcomer(role)]
    /\ \/ UNCHANGED table
       \/ \E c \in Clients : table' = [table EXCEPT ![c] = {Entry(a)'}]

GoElsewhere(a) ==
    /\ people[a].status = "none"
    /\ people' = [people EXCEPT ![a].status = "elsewhere"]
    /\ UNCHANGED table

Without(a) == [c \in Clients |-> {s \in table[c] : s.account # a}]

\* Any change - of a role, by a removal, an onboarding or a logout - ends the
\* sessions of the person everywhere; the browser that asked may lose its session or
\* get a new one.  Nobody comes back, and no owner is demoted.
Change(a) ==
    /\ people[a].status \in {"member", "removed"}
    /\ \E status \in {people[a].status, "removed"}, named \in {people[a].named, TRUE},
          role \in IF people[a].status = "removed" \/ people[a].role = "OWNER"
                   THEN {people[a].role} ELSE Roles :
          people' = [people EXCEPT ![a] = [status |-> status, role |-> role,
                                           named |-> named]]
    /\ \/ table' = Without(a)
       \/ \E c \in Clients : table' = [Without(a) EXCEPT ![c] = {}]
       \/ /\ people'[a].status = "member"
          /\ \E c \in Clients : table' = [Without(a) EXCEPT ![c] = {Entry(a)'}]

Next ==
    \/ \E a \in Accounts : \/ \E c \in Clients : Enter(c, a)
                           \/ Join(a) \/ GoElsewhere(a) \/ Change(a)
    \/ \E c \in Clients : Leave(c)

Spec == Init /\ [][Next]_vars

=============================================================================
