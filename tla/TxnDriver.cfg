CONSTANTS
    Slots = {s1, s2, s3, s4, s5}
    MaxInc = 2
    MaxIn = 3
SPECIFICATION FairSpec
INVARIANTS
    TypeOK
    GuardianPending
    ReleasedOnce
    GaugeExact
    ClientViewSound
PROPERTIES
    FinalBeforeEnd
    TransactionsReleased
CHECK_DEADLOCK FALSE
