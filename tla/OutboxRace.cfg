SPECIFICATION Spec
CONSTANTS
    p1 = p1
    p2 = p2
    p3 = p3
    d1 = d1
    d2 = d2
    d3 = d3
    Producers = {p1}
    Key <- MCKey
    NoKey = NoKey
    Dispatchers = {d1, d2}
    Reconcilers = {}
    Faulty = {}
    NoToken = NoToken
    Limit = 2
    MaxRows = 2
    MaxAttempts = 2
    MaxDeadAttempts = 0
    Timely = FALSE
    Faults = {"publish"}
PROPERTIES
    RetryRequiresCurrentClaim
CHECK_DEADLOCK FALSE
