CONSTANTS
    Calls = {k1}
    Depth = 1
    Buffer = 1
    MaxVer = 2
    MaxConn = 1
SPECIFICATION Spec
INVARIANTS
    SnapshotConverges
CHECK_DEADLOCK FALSE
