SPECIFICATION FairSpec
CONSTANTS
    Sources <- MCDamaged
    Offsets <- MCOffsets
    Requests <- MCRequests
PROPERTIES
    LoopsEnd
