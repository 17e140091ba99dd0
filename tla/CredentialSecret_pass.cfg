SPECIFICATION FairSpec
CONSTANTS
    UserCreds = {"k1", "k2"}
    MaxCreates = 2
    MaxUpdates = 2
    MaxDeletes = 1
    MaxSyncs = 1
    MaxFaults = 1
    MaxRestarts = 1
INVARIANTS
    SecretAtRest
    RegionAtRest
PROPERTIES
    RegistryAtRest
    Recovers
CHECK_DEADLOCK FALSE
