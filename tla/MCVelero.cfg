CONSTANTS
    Specs <- MCSpecs
    Edits <- MCEdits
    Starts <- MCStarts
    Contents <- MCContents
    MaxLocations = 2
    MaxEvents = 2
SPECIFICATION Spec
INVARIANTS ParserAgrees DefaultsMounted LegacySwept
PROPERTIES MountsChecked Settles Delivered
CHECK_DEADLOCK FALSE
