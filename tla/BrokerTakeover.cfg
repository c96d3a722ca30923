CONSTANTS
    IPs = {"ip1"}
    windowMs = 1
    maxFailedConnections = 2
    blockDurationMs = 2
    MaxNow = 0
    Conns = {1, 2, 3, 4}
    Subscribers <- MCViewer
    Keys = {k1}
    Nobody = Nobody
    NaN = NaN
    NoLimit = NaN
    Unset = Unset
    Racing = {}
    ipOf <- MCipOf
    idOf <- MCTakeover
    maxConn <- MCmaxConnViewer
SPECIFICATION FairSpec
INVARIANTS
    ClientsWithinLimit
CHECK_DEADLOCK FALSE
