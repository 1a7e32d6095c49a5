SPECIFICATION FairSpec
CONSTANTS
    RecordIDs <- MCRecordIDs
    UnknownID <- MCUnknownID
    VLSDIDs <- MCVLSDIDs
    DataBlocks <- MCBlocks
    MaxCalls = 3
INVARIANTS
    TypeOK
    IndexExact
    FirstMatchIsFirst
    SizesCoverIndex
PROPERTIES
    IndexCoversBlock
    CallsReturn
CHECK_DEADLOCK FALSE
