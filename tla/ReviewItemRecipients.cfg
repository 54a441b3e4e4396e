SPECIFICATION Spec
CONSTANTS
    r1 = r1
    r2 = r2
    u1 = u1
    nameA = nameA
    uuid3 = uuid3
    Requests = {r1, r2}
    Users = {u1}
    Reviewers = {p1}
    UploadIds = {uuid3}
    MadeUp = {nameA}
    LeadingInt <- MCLeadingInt
    MaxVersion = 3
INVARIANT
    CheckedDecisionsSucceed
