SPECIFICATION PeersSpec
CONSTANTS
    StreamPeers = {"p"}
    StreamSenders = {s1}
    ConnectStages <- MCConnectStages
    MaxConnections = 1
    StreamQueueDepth = 1
    InboxDepth = 1
    MaxConns = 2
    MaxSends = 2
    MaxReads = 1
    Callers = {c1, c2}
    Shutter = s
    MaxRetries = 1
    MaxGen = 2
INVARIANTS
    PoolServed
    SidecarSound
PROPERTIES
    ConnectionsUnwind
    CallsReturn
CHECK_DEADLOCK FALSE
