SPECIFICATION FairOrdinarySpec
CONSTANTS
    Sources <- MCSources
    Offsets <- MCOffsets
    Requests <- MCRequests
INVARIANTS
    TypeOK
PROPERTIES
    LooksLikeAStream
    EndIsTrue
    CallsReturn
