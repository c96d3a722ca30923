CONSTANTS
    IPs = {ip1}
    windowMs = 2
    maxFailedConnections = 3
    blockDurationMs = 3
    MaxNow = 7
    MaxFailures = 5
    Goroutines = {g1, g2}
SPECIFICATION GoSpec
INVARIANTS
    TypeOK
    GoTypeOK
    BlockEarned
    RecordMatchesHistory
    PortAgrees
PROPERTIES
    BlockHoldsInWindow
    CheckIsFree
