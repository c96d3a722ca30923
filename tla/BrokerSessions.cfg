CONSTANTS
    IPs = {"ip1"}
    windowMs = 1
    maxFailedConnections = 2
    blockDurationMs = 2
    MaxNow = 2
    Conns = {1, 2, 3}
    Subscribers <- MCSubscribers
    Keys = {k1}
    Nobody = Nobody
    NaN = NaN
    NoLimit = NaN
    Unset = Unset
    Racing = {3}
    ipOf <- MCipOf
    idOf <- MCDistinctIds
    maxConn <- MCmaxConn
SPECIFICATION FairSpec
INVARIANTS
    TypeOK
    ClientsWithinLimit
    SlotsMatchSessions
    OnlyFailuresCharged
PROPERTIES
    QuotaImplemented
    OnlyStragglersLiftBlocks
    SlotsReleased
CHECK_DEADLOCK FALSE
