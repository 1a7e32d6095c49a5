SPECIFICATION Spec
CONSTANTS
    Batches <- MCSmallBatches
    Tools <- MCTools
INVARIANTS
    InputsDeletedOnSuccess
CHECK_DEADLOCK FALSE
