SPECIFICATION FairSpec
CONSTANTS
    Processes = {p1, p2}
    Nobody = Nobody
    Goals = {1}
    NoGoal = 0
    Parent <- NoParents
    Troubled = {}
    MaxCycles = 1
    MaxTasks = 2
    MaxFaults = 2
    Timely = FALSE
    SerialStarts = FALSE
    Faults = {"crash", "stop", "conflict", "publish", "unconfirmed", "offline", "lost", "database"}

INVARIANTS
    WorkedOn
PROPERTIES
    TakenMovesOn
    StrayLoopStops
