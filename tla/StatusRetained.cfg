CONSTANTS
    Clients <- MCClients
    who <- MCwho
    Keys = {"A", "B"}
    NoKey = "none"
    Airports = {"SEA"}
    Elsewhere = Elsewhere
    Packets <- MCPaddedStatus
    Filters <- MCFilters
    will <- MCNoWill
    NoWill = NoWill
    MaxLog = 3
SPECIFICATION FairSpec
INVARIANTS
    StatusNotRetained
CHECK_DEADLOCK FALSE
