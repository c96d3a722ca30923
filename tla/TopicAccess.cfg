CONSTANTS
    Clients <- MCClients
    who <- MCwho
    Keys = {"A", "B"}
    NoKey = "none"
    Airports = {"SEA"}
    Elsewhere = Elsewhere
    Packets <- MCPackets
    Filters <- MCFilters
    will <- MCwill
    NoWill = NoWill
    MaxLog = 4
SPECIFICATION Spec
INVARIANTS
    TypeOK
    OneTopicPerPlace
    TopicsOwned
    LocationsTracked
    InternalUpToDate
    CommandsToAddressee
CHECK_DEADLOCK FALSE
