SPECIFICATION Spec
CONSTANTS
    q1 = q1
    q2 = q2
    q3 = q3
    QueueId = {q1, q2, q3}
    Conn = {c1}
    Envelope <- TwoEnvelopes
    Rosters <- PairRosters
    WatchLists <- WatchOne
    InitialEpochs = {1}
    MaxMessageSize = 2
    MaxQueueDepth = 2
    MaxStorageBytes = 3
    RateLimit = 1
    MaxSeq = 4
    MaxEpoch = 3
    MaxPushes = 1
INVARIANTS
    OneCommitPerEpoch
    AcknowledgedIsDurable
    MemoryMirrorsDisk
    BacklogReachesSubscribers
PROPERTIES
    ImplementsDeliveryService
