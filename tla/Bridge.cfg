SPECIFICATION BridgeSpec
CONSTANTS
    Calls = {c1, c2, c3}
    Codecs = {"pcmu", "opus"}
    BridgeFails = TRUE
    Conference = TRUE
    MaxRefresh = 2
    NoCall = NoCall
SYMMETRY CallSymmetry
INVARIANTS
    BridgesSound
    RefreshesSound
CHECK_DEADLOCK FALSE
