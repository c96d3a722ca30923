CONSTANTS
    IPs = {"ip1"}
    windowMs = 1
    maxFailedConnections = 2
    blockDurationMs = 4
    MaxNow = 3
    Conns = {1, 2, 3}
    Subscribers <- MCViewer
    Keys = {k1}
    Nobody = Nobody
    NaN = NaN
    NoLimit = NaN
    Unset = Unset
    Racing = {}
    ipOf <- MCipOf
    idOf <- MCDistinctIds
    maxConn <- MCmaxConnViewer
SPECIFICATION FairSpec
PROPERTIES
    BlockServed
CHECK_DEADLOCK FALSE
