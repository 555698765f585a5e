SPECIFICATION EdgeSpec
CONSTANTS
    Callers = {k1, k2}
    Supported <- MCSupported
    SupportedVideo <- MCSupportedVideo
    SessionParts <- MCSessionParts
    AudioParts <- MCAudioParts
    VideoParts <- MCVideoParts
    MaxClock = 1
    MaxVersion = 2
    Workers = {w1, w2}
    Users = {"alice"}
    MaxIssued = 2
    NonceCap = 1
    NonceTtl = 1
    GcInterval = 1
    Expires = {0, 1}
    MaxTime = 2
    MaxRequests = 3
    Listeners = {l1, l2}
    Sources = {s1, s2}
    Thresholds <- MCThresholds
    MaxSources = 1
    GcEvery = 2
    ToolTasks = {t1, t2}
    ToolCallers = {c1, c2, c3}
    ToolRate = 1
    ToolCapacity = 2
    MaxBuckets = 1
    MaxTicks = 2
    MaxReconfigs = 3
    MaxCalls = 4
    Sessions = {"s1", "s2"}
    SipCalls = {"c1"}
    Tags = {"x"}
    Modes = {"open", "strict"}
    IceEnabled = TRUE
    StunServers = TRUE
    MaxOffers = 1
    MaxReloads = 1
INVARIANTS
    AnswersSound
    DigestSound
    CallersMetered
    RendezvousSound
CHECK_DEADLOCK FALSE
