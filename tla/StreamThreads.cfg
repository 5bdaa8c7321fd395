SPECIFICATION FairSpec
CONSTANTS
    r1 = r1
    r2 = r2
    r3 = r3
    p1 = p1
    p2 = p2
    Requests = {r1, r3}
    Processes = {p1, p2}
    Home <- MCHome
    Fingerprint <- SameFingerprint
    NoToken = NoToken
    Lease = 0
    Interval = 0
    Batch = 2
    MaxCursor = 0
    MaxEvents = 1
    Timely = FALSE
    Faults = {"shutdown", "database", "crash", "disconnect"}
INVARIANTS
    TypeOK
    OneExecution
    LedgerSound
PROPERTIES
    TerminalIsFinal
    ImplementsDurableStream
    SubscriptionEnds
CHECK_DEADLOCK FALSE
