SPECIFICATION Spec
CONSTANTS
    o = o
    a1 = a1
    c1 = c1
    r1 = r1
    r2 = r2
    Accounts = {o, a1}
    Founder = o
    Clients = {c1}
    Requests = {r1, r2}
    MaxVersion = 3
    MaxInvitations = 1
INVARIANT
    AnOwnerRemains
