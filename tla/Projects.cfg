SPECIFICATION Spec
CONSTANTS
    ProjectIds = {p1, p2, p3}
    Names = {n1, n2}
    ItemIds = {i1, i2}
    Requests = {r1, r2}
CHECK_DEADLOCK FALSE
SYMMETRY Symmetric
INVARIANTS
    TypeOK
    FewNamesakes
PROPERTY
    ArchivedProjectsClose
