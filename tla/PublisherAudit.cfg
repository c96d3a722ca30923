CONSTANTS
    Payloads = {pa, pb, pc}
    Oversized = {pb}
    Iatas = {SEA, PDX, BOS}
    NoIata = NoIata
    tokenCost = 2
    bucketCapacity = 5
    bucketRefillRate = 1
    duplicateWindowMs = 2
    duplicateWindowSize = 2
    maxDuplicatesPerPacket = 2
    duplicateRateWindowMs = 2
    rateNum = 1
    rateDen = 2
    minPackets = 3
    maxIataChanges24h = 2
    day = 4
    hour = 2
    interval = 1
    anomalyThreshold = 2
    enforcementEnabled = TRUE
    MaxPackets = 5
    MaxNow = 5
SPECIFICATION Spec
SYMMETRY MCSymmetry
INVARIANTS
    TypeOK
    BucketLimitsRate
    NoDuplicateForgotten
    CopiesAddUp
    LocationsBounded
PROPERTIES
    ThresholdMutes
CHECK_DEADLOCK FALSE
