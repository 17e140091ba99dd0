SPECIFICATION RunSpec
CONSTANTS
    Names <- MCNames
    Cluster <- MCCluster
INVARIANTS
    RowsComplete
    ProblemsReported
    TimeoutsReported
    
PROPERTIES
    SummaryWritten
CHECK_DEADLOCK FALSE
