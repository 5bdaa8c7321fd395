SPECIFICATION Spec
CONSTANTS
    Processes = {p1, p2}
    Nobody = Nobody
    Goals = {1, 2}
    NoGoal = 0
    Parent <- MCParent
    Troubled = {2}
    MaxCycles = 2
    MaxTasks = 2
    MaxFaults = 3
    Timely = TRUE
    SerialStarts = TRUE
    Faults = {"crash", "stop", "conflict", "publish", "unconfirmed", "offline", "empty", "lost", "delete", "database"}
SYMMETRY Process_Symmetry
INVARIANTS
    TypeOK
    OneLoop
    OneTaskPerGoal
PROPERTIES
    ImplementsGoalPursuit
