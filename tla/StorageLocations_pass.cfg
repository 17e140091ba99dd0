SPECIFICATION FairSpec
CONSTANTS
    Names = {"a", "b", "c", "d2"}
    SpecLists <- AnyLists
    DefaultName <- MCDefaultName
    MaxEdits = 2
    MaxDeletes = 1
    MaxFaults = 1
INVARIANTS
    SpecifiedExist
PROPERTIES
    PlainExtrasDeleted
    NoCurrentLocationDeleted
    ComesInStep
CHECK_DEADLOCK FALSE
