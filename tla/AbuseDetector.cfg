CONSTANTS
    Keys = {k1, k2}
    Payloads = {pa}
    Oversized = {}
    Iatas = {SEA, PDX}
    NoIata = NoIata
    tokenCost = 2
    bucketCapacity = 4
    bucketRefillRate = 1
    duplicateWindowMs = 2
    duplicateWindowSize = 1
    maxDuplicatesPerPacket = 1
    duplicateRateWindowMs = 2
    rateNum = 1
    rateDen = 2
    minPackets = 3
    maxIataChanges24h = 1
    day = 3
    hour = 2
    interval = 1
    anomalyThreshold = 1
    enforcementEnabled = TRUE
    firstRows <- MCfirstRows
    MaxPackets = 3
    MaxNow = 1
SPECIFICATION FairSpec
INVARIANTS
    TypeOK
    MutedCounted
    MemoryNotBehind
PROPERTIES
    SavedMuteIsForGood
    MutesReachRows
CHECK_DEADLOCK FALSE
