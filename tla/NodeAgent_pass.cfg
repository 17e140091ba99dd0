SPECIFICATION FairSpec
CONSTANTS
    Specs <- MCSpecs
    Settings = {"x", "y"}
    Exposed = {"agent"}
    MaxEdits = 2
    MaxTampers = 1
    MaxMishaps = 1
INVARIANTS
    AgentAtRest
    ConfigNamed
    VersionRuns
PROPERTIES
    ConfigMapsSettle
CHECK_DEADLOCK FALSE
