SPECIFICATION FairSpec
CONSTANTS
    Handles = {h1, h2}
    Logs <- MCLogs
    Capacity <- MCCapacity
INVARIANTS
    TypeOK
    RecordIsOwn
    PassComplete
PROPERTIES
    LooksLikeACursor
    PassEnds
CHECK_DEADLOCK FALSE
