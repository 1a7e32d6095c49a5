SPECIFICATION Spec
CONSTANTS
    Inputs <- MCInputs
    Depth = 16
    Garbage <- MCGarbage
INVARIANTS
    SavedHasRecords
CHECK_DEADLOCK FALSE
