SPECIFICATION ControlSpec
CONSTANTS
    ConfigFiles <- MCConfigFiles
    Edits <- MCEdits
    EnvOverrides <- MCEnv
    Wired <- MCWired
    Refused <- MCRefused
    Support = {}
    Putters = {p1}
    HistoryLimit = 1
    MaxChanges = 2
    MaxNow = 2
    Openers = {"o1", "o2"}
    Accounts = {"alice"}
    Passwords = {"p", "q"}
    Rows = {"r1", "r2"}
    MaxWrites = 3
    MaxCrashes = 2
    Lookers = {"l1", "l2"}
    Retries = 1
    Threshold = 2
    Cooldown = 1
    Recorded = {"k1"}
    Recorders = {"p1", "p2"}
    MaxPuts = 2
    MaxDeletes = 1
    MaxRecorderCrashes = 2
    MaxIoFailures = 1
    RaftNodes = {1, 2, 3}
    SipNodes = {1}
    Candidates = {1, 2}
    RaftDialogs = {"d"}
    WriteQueueDepth = 1
    MaxTerm = 1
    MaxRaftWrites = 2
    MaxRestarts = 1
INVARIANTS
    ReloadsSafe
    StoredDataKept
    WritesSettle
PROPERTIES
    AdaptersFollow
    BreakerRecovers
    OrphansSwept
CHECK_DEADLOCK FALSE
