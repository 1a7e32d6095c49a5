SPECIFICATION FairSpec
CONSTANTS
    Batches <- MCBatches
    Tools <- MCTools
INVARIANTS
    TypeOK
    ExportersKeepInputs
    TemporariesRemoved
    ExitCodeExact
    OthersConverted
PROPERTIES
    MainReturns
CHECK_DEADLOCK FALSE
