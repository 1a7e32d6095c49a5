SPECIFICATION FairSpec
CONSTANTS
    Groups <- MCGroups
    Unknown <- MCUnknown
    Files <- LoggerAndRetryFiles
    MaxCalls = 3
INVARIANTS
    FlagsHonest
    NothingLost
    NothingTwice
    GroupsKept
    IteratorComplete
    MeasuredIsFirst
    NeverCrashes
PROPERTIES
    SortedGroupsStay
    CallsReturn
CHECK_DEADLOCK FALSE
