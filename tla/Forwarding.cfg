CONSTANTS
    Clients = {"ADMIN", "FULL_ACCESS", "LIMITED"}
    Origins = {"devA", "devB"}
    Places = {"SEA", "LAX"}
    filter <- MCfilter
    MaxLog = 3
    role <- MCrole
    Packets <- MCPackets
SPECIFICATION FairSpec
INVARIANTS
    TypeOK
    NeverBackwards
    LatestReachesAll
    RolesRespected
PROPERTIES
    ClientsAgree
CHECK_DEADLOCK FALSE
