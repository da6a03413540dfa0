\* A published track: dynacast, restarts of its receiver, and its close.
SPECIFICATION TrackSpec
CONSTANTS
    s = s
    n = n
    Codecs = {"vp8", "av1"}
    Subscribers = {s}
    Nodes = {n}
    TopQuality = 2
    RegressionTarget = "vp8"
    UpLayers = {0, 1}
    DynacastScopes <- AllDynacast
    RestartScopes <- AllRestart
    TrackScopes <- TrackSet
INVARIANTS NobodyLeftBehind LayersAreServed ResyncBeforePackets
PROPERTIES EveryChangeIsTold FollowsSubscribers AskedRestartCompletes
CHECK_DEADLOCK FALSE
