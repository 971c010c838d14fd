SPECIFICATION EngineSpec
CONSTANTS
    Displays = 1
    Threads <- Callers
    Settings <- EverySetting
INVARIANT RemoteKeepsDark
INVARIANT OffMeansDark
INVARIANT FollowsTopology
PROPERTY TopologyRestored
CHECK_DEADLOCK FALSE
