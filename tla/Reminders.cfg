SPECIFICATION ReminderSpec
CONSTANTS
    i1 = i1
    i2 = i2
    w1 = w1
    w2 = w2
    Items = {i1, i2}
    Runs = {w1, w2}
    MinInterval = 1
    MaxInterval = 1
    RunTime = 1
INVARIANTS
    ReminderTypeOK
    RemindersAreWhole
    RemindersAreSpaced
PROPERTIES
    ItemsGetTheirTurn
