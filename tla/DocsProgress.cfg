SPECIFICATION FairSpec
CONSTANTS
    d1 = d1
    d2 = d2
    w1 = w1
    w2 = w2
    Docs = {d1, d2}
    Workers = {w1}
    NoDoc = NoDoc
    Batches = 2
    MaxSends = 2
    MaxFaults = 3
    Faults = {"crash", "channel", "embed", "upload"}
INVARIANTS
    UndecidedIsRecoverable
    FailedLeavesNoPoints
PROPERTIES
    EventuallyDecided
    IndexedIsComplete
CHECK_DEADLOCK FALSE
