SPECIFICATION Spec
CONSTANTS
    r1 = r1
    r2 = r2
    r3 = r3
    p1 = p1
    p2 = p2
    Requests = {r1, r2, r3}
    Processes = {p1, p2}
    Home <- MCHome
    Fingerprint <- OneDiffers
    NoToken = NoToken
    Lease = 1
    Interval = 1
    Batch = 2
    MaxCursor = 1
    MaxEvents = 1
    Timely = TRUE
    Faults = {"crash", "delete"}
INVARIANTS
    ServesTheLedger
    LiveProducerKeepsLease
    FollowsItsRun
SYMMETRY SameProcess
CHECK_DEADLOCK FALSE
