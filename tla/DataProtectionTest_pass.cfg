SPECIFICATION FairSpec
CONSTANTS
    MaxTries = 3
    MaxAsks = 2
    MaxTouches = 1
    MaxFaults = 2
    MaxRestarts = 1
INVARIANTS
    NothingLeftOver
    RequestAtRestServed

    
CHECK_DEADLOCK FALSE
