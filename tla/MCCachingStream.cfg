SPECIFICATION LibrarySpec
CONSTANTS
    CacheSize = 4
    FileLen = 6
    Furthest = 8
    Offsets <- MCOffsets
    Requests <- MCRequests
INVARIANTS
    TypeOK
    WindowMirrors
PROPERTIES
    LooksLikeAStream
