CONSTANTS
    Calls = {k1, k2}
    Depth = 1
    Buffer = 1
    MaxVer = 2
    MaxConn = 2
SPECIFICATION FairSpec
INVARIANTS
    SecondaryFaithful
PROPERTIES
    SecondaryCatchesUp
CHECK_DEADLOCK FALSE
