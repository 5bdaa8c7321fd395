SPECIFICATION FairSpec
CONSTANTS
    MaxRequests = 2
    MaxEvents = 3
    MaxRetries = 2
INVARIANTS
    TypeOK
    AnswerInItsPlace
PROPERTIES
    Settles
CHECK_DEADLOCK FALSE
