SPECIFICATION Spec
CONSTANTS
    Inputs <- MCInputs
    Depth = 16
    Garbage <- MCGarbage
INVARIANTS
    OpensExactly
    LoadedIsTheFile
    SavedFileReadsBack
CHECK_DEADLOCK FALSE
