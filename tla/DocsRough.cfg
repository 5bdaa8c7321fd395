SPECIFICATION Spec
CONSTANTS
    d1 = d1
    d2 = d2
    w1 = w1
    w2 = w2
    Docs = {d1, d2}
    Workers = {w1, w2}
    NoDoc = NoDoc
    Batches = 2
    MaxSends = 1
    MaxFaults = 1
    Faults = {"crash", "cancel", "embed", "qdrant", "database", "reject", "delete"}
INVARIANTS
    TypeOK
    OneHandler
SYMMETRY AnyOfBoth
CHECK_DEADLOCK FALSE
