SPECIFICATION Spec
CONSTANTS
    r1 = r1
    r2 = r2
    r3 = r3
    r4 = r4
    Requests = {r1, r2, r3, r4}
    Fingerprint <- MCFingerprint
    NoToken = NoToken
    MaxRows = 3
    Faults = {"crash", "database", "exception", "expiry"}
INVARIANTS
    TypeOK
    AnsweredOnce
    ClaimIsKept
PROPERTIES
    ImplementsIdempotentKey
SYMMETRY SameMessage
CHECK_DEADLOCK FALSE
