SPECIFICATION Spec
CONSTANTS
    Projects = {p1, p2}
    People = {x1, x2}
    Requests = {r1, r2}
    MaxVersion = 3
SYMMETRY Symmetric
INVARIANTS
    TypeOK
    TablesAgree
PROPERTY
    RemovalIsFinal
