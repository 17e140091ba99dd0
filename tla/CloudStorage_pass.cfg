SPECIFICATION FairSpec
CONSTANTS
    MaxRequests = 3
    MaxAnnotates = 1
    MaxEdits = 1
    MaxFaults = 2
    MaxRestarts = 1
INVARIANTS
    BucketAtRest
PROPERTIES
    KeepsPromise
    BucketMade
    DeletionCompletes
CHECK_DEADLOCK FALSE
