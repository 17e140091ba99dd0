SPECIFICATION FairSpec
CONSTANTS
    Funcs = {"Validate", "Velero", "NodeAgentCM"}
    Batch <- BatchA
    Specs = {"plain", "full", "invalid"}
    Contents = {"absent", "one", "two", "foreign"}
    Absent = "absent"
    Desired <- MCDesired
    Rejects <- MCRejects
    Labelled = {"Velero", "NodeAgentCM"}
    Generational = {"Velero"}
    IgnoresNotFound = {"NodeAgentCM"}
    MaxEdits = 1
    MaxTampers = 1
    MaxFaults = 1
    MaxRestarts = 1
INVARIANTS
    NoLostWork
    PresenceRestored
PROPERTIES
    CompleteIsTruthful
    Settles
CHECK_DEADLOCK FALSE
