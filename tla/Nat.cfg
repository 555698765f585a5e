SPECIFICATION NatSpec
CONSTANTS
    Clients = {c1}
    TurnUsers = {u1, u2}
    Ips = {ip1}
    Ports = {1, 2}
    Channels = {1}
    AllocationLifetime = 2
    PermissionLifetime = 1
    ChannelLifetime = 1
    ChallengeLifetime = 1
    MaxTurnTime = 3
    MaxTx = 4
    MaxNonce = 2
    Small = s
    Large = l
    MaxChecks = 2
    MaxTriggered = 1
    Conflict = TRUE
    Topologies <- NatTopologies
INVARIANTS
    RelaysSound
    SelectedPathWorks
CHECK_DEADLOCK FALSE
