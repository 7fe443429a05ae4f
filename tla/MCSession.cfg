SPECIFICATION FairSyncSpec
CONSTANTS
    p = p
    q = q
    h = h
    Peer = {p, q}
    Key = {1, 2, 3}
    Hash = {h}
    HashesOf <- MCHashesOf
    SizeOf <- MCSizeOf
    Own <- MCOwn
    OwnBlobs <- MCOwnBlobs
    PageLimit = 2
    BatchLength = 2
    MaxStaged = 2
    MaxConnections = 2
    MaxFailures = 1
INVARIANTS HonestNeverRejected AcknowledgedDurable
PROPERTIES RoundsComplete Converges
CHECK_DEADLOCK FALSE
