SPECIFICATION FairSpec
CONSTANTS
    p1 = p1
    p2 = p2
    p3 = p3
    d1 = d1
    d2 = d2
    d3 = d3
    Producers = {p1, p2, p3}
    Key <- MCKey
    NoKey = NoKey
    Dispatchers = {d1, d2}
    Reconcilers = {d2}
    Faulty = {d2}
    NoToken = NoToken
    Limit = 2
    MaxRows = 2
    MaxAttempts = 2
    MaxDeadAttempts = 2
    Timely = TRUE
    Faults = {"crash", "publish", "offline", "database"}
INVARIANTS
    TypeOK
    OneRowPerKey
    HeldByOne
    SentWasPublished
PROPERTIES
    ImplementsKeyedDelivery
    EventuallySettled
CHECK_DEADLOCK FALSE
