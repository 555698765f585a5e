SPECIFICATION UasSpec
CONSTANTS
    MaxItems = 4
    MaxWorkers = 4
    Methods = {"INVITE", "UPDATE", "ACK", "BYE", "CANCEL"}
    SendFails = TRUE
    Guarded = TRUE
    MaxArrivals = 3
    MaxInvites = 1
    Calls = {c1, c2}
    Clients = {t1, t2}
    Drainer = dr
    BusDepth = 2
    MaxTools = 3
    MaxBridges = 2
INVARIANTS
    NoItemStranded
    DialogsSound
    CallsSound
PROPERTIES
    ImplementsCallQueue
    BegunEnds
CHECK_DEADLOCK FALSE
