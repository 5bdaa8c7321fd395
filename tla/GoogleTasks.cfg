SPECIFICATION FairSpec
CONSTANTS
    Tasks = {t1}
    Workers = {w1, w2}
    NoTask = NoTask
    MaxCopies = 2
    MaxFaults = 2
    Faults <- MCFaults

INVARIANTS
    TypeOK
    OneEffect
PROPERTIES
    ImplementsSingleEffect
    DisconnectHolds
    AcceptedSettles
