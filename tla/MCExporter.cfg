\* Every tool on every log, with a failure at any write.
SPECIFICATION Spec
CONSTANTS
    Inputs <- MCInputs
    Tools = {"asc", "clx", "csv", "peak11", "peak21", "pcap", "socketcan"}
    Formats = {"u", "l", "p"}
    FieldChoices <- MCFields
    Second = 8
    Milli = 2
    Digit = 4
INVARIANTS
    FilesAreTheLog
    HeadersMatchRows
    RowsFitHeader
    BlocksDelimited
CHECK_DEADLOCK FALSE
