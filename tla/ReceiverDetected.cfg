\* One of two buffers detects that its stream has begun again.
SPECIFICATION TrackSpec
CONSTANTS
    s = s
    n = n
    Codecs = {"vp8", "av1"}
    Subscribers = {s}
    Nodes = {n}
    TopQuality = 2
    RegressionTarget = "vp8"
    UpLayers = {0, 1}
    DynacastScopes <- AllDynacast
    RestartScopes <- AllRestart
    TrackScopes <- DetectedSet
PROPERTIES RestartCompletes
CHECK_DEADLOCK FALSE
