SPECIFICATION PluginRuntimesSpec
CONSTANTS
    PluginNames = {"a", "b"}
    Manifests <- MCManifests
    BootManifest <- MCBoot
    ConfigPlugins <- MCConfig
    ReloadCallers = {1}
    MaxSaves = 2
    MaxSpawns = 3
    MaxEvents = 1
    ScriptCallers = {"c1", "c2"}
    Editors = {"e1", "e2"}
    Sources = {"s1", "odd"}
    CapsOf <- MCCaps
    FirstSource = "s1"
    RollbackAfter = 2
    MaxCompiles = 2
    MaxInvokes = 2
    AiCallers = {a1, a2}
    AiCalls = {"k"}
    ProvidersOf <- MCProvidersOf
    AiTools <- MCAiTools
    OpenAfter = 2
    OpenCooldown = 1
    MaxAttempts = 2
    Utterance = 2
    MaxToolCalls = 3
    MaxAiClock = 3
    WasmGuests = {g1, g2}
    StateKeys = {"k", "j"}
    EntrySizes = {1, 3}
    StateBudget = 4
    EpochTickMs = 2
    GuestDeadlines = {2}
    GuestFuel = 1
    RtpCapacity = 1
    WasmPermissions <- MCWasmPermissions
    MaxWasmMs = 4
    MaxWasmInvokes = 3
INVARIANTS
    PluginsSound
    ScriptsIsolated
    GivesUpLast
    GuestsMetered
CHECK_DEADLOCK FALSE
