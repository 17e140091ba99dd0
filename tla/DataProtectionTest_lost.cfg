SPECIFICATION Spec
CONSTANTS
    MaxTries = 3
    MaxAsks = 1
    MaxTouches = 0
    MaxFaults = 1
    MaxRestarts = 0
INVARIANTS
    RequestServed
CHECK_DEADLOCK FALSE
