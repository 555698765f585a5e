SPECIFICATION MediaSpec
CONSTANTS
    SeqModulus = 24
    InitialTarget = 2
    MinTarget = 1
    MaxTarget = 3
    MaxBuffer = 5
    ResyncGap = 3
    LowerAfterClean = 2
    CatchupSlack = 1
    FirstSeq = 21
    Reorder = 5
    MaxSent = 7
    Calls = {k1, k2}
    Rooms = {r1}
    Loudest = 2
    EgressCapacity = 1
    MaxSendFailures = 2
    MaxConfs = 1
    MaxJoins = 2
    MaxSeq = 1
    Legs = {a, b}
    Senders = {a}
    Reporting = {a}
    Script <- MCScript
    RtpFirst = 6
    RtpModulus = 8
    NtpModulus = 8
    InbandDtmf = TRUE
    Debounce = 2
    RtpReorder = 2
    MaxDeliveries = 3
    FirstNow = 7
    MaxNow = 2
    MaxReports = 1
    Dialogs = {d1, d2}
    Others = {o1}
    Drivers = {d1}
    Handshakers = {d2}
    MinPort = 1
    MaxPort = 5
    MaxAttempts = 2
    Caps = {1, 2}
    MaxSessions = 1
    MaxAllocs = 1
    MaxStrangers = 1
INVARIANTS
    PlaysInOrder
    RoomsSound
    BridgeTellsTrue
    MediaAccounted
CHECK_DEADLOCK FALSE
