SPECIFICATION Spec
CONSTANTS
    i1 = i1
    i2 = i2
    w1 = w1
    w2 = w2
    Invitations = {i1, i2}
    m1 = m1
    m2 = m2
    m3 = m3
    Messages = {m1, m2, m3}
    Job <- MCJob
    Workers = {w1, w2}
    BatchSize = 2
    MaxReceive = 2
CHECK_DEADLOCK FALSE
INVARIANTS
    TypeOK
    MessagesAreCommitted
    DeletedMeansEmailed
    FewDuplicates
PROPERTIES
    SentIsFinal
    QueueDrains
