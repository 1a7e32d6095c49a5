SPECIFICATION Spec
CONSTANTS
    CacheSize = 4
    FileLen = 6
    Furthest = 8
    Offsets <- MCOffsets
    Requests <- MCRequests
PROPERTIES
    ReadsWhatIsThere
