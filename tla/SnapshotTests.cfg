SPECIFICATION TestsFairSpec
CONSTANTS
    N = 4
    Incomplete = {2}
INVARIANTS
    OneResultEach
    ErrorsComplete
PROPERTIES
    TestsEnd
CHECK_DEADLOCK FALSE
