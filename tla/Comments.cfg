SPECIFICATION Spec
CONSTANTS
    owner = owner
    member = member
    ann = ann
    q1 = q1
    q2 = q2
    Users = {owner, member}
    Role <- MCRole
    Reviewers = {ann}
    Nobody = nobody
    Requests = {q1, q2}
    CommentIds = {1, 2}
    MaxTime = 1
    PageSize = 1
SYMMETRY Symmetry
INVARIANTS
    TypeOK
    WalksAreComplete
    AuditIsTrue
PROPERTIES
    DeletionsAreTheirs
