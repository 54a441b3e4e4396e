---- MODULE MCRequests ----
EXTENDS Requests, TLC

CONSTANTS orgA, orgB, none, u1, u2, uB, uX, p, pB, pX, i, iB, iX, a, aB, aX, c, cB, cX,
          l, lB, lX, g, n, nB, nX, vB, v, vX, vP, k1, k2

\* What belongs to organization B, and ids that lead to no row.
MCB == {orgB, uB, pB, iB, aB, cB, lB, nB, vB}
MCNone == {none, uX, nX, lX}

MCThings == MCB \cup MCNone \cup {orgA, u1, u2, p, pX, i, iX, a, aX, c, cX, l, g, n, v, vX, vP}
MCAbsent == MCNone \cup {pX, iX, aX, cX, vX, vP}

MCKind == [x \in MCThings |->
    CASE x \in {orgA, orgB, none} -> "organization"
      [] x \in {u1, u2, uB, uX} -> "user"
      [] x \in {p, pB, pX} -> "project"
      [] x \in {i, iB, iX} -> "item"
      [] x \in {a, aB, aX} -> "attachment"
      [] x \in {c, cB, cX} -> "comment"
      [] x \in {l, lB, lX} -> "link"
      [] x = g -> "log"
      [] x \in {n, nB, nX} -> "notification"
      [] OTHER -> "invitation"]

MCOrg == [x \in MCThings |-> IF x \in MCB THEN orgB ELSE IF x \in MCNone THEN none ELSE orgA]

MCParent == [x \in MCThings |->
    CASE x \in {i, iX, l, vP} -> p
      [] x \in {iB, lB, vB} -> pB
      [] x \in {a, aX, c, cX, g} -> i
      [] x \in {aB, cB} -> iB
      [] OTHER -> MCOrg[x]]

\* A comment of the second user, and an invitation of B addressed to it.
MCOf == [x \in MCThings |-> IF x \in {c, vB, u2} THEN u2 ELSE IF x = u1 THEN u1 ELSE MCOrg[x]]

MCUsers == {u1, u2}
Start(other, named) == (u1 :> [role |-> "OWNER", named |-> TRUE])
                       @@ (u2 :> [role |-> other, named |-> named])
MCStarts == {Start("OWNER", TRUE), Start("MEMBER", TRUE), Start("ADMIN", FALSE)}

MCRequestIds == {k1, k2}
Sym == Permutations({k1, k2})
====
