SPECIFICATION LiveSpec
CONSTANTS
    Devices <- EveryDevice
    Commands <- EveryCommand
    PowerOnRetries = 1
    MaxCalls = 2
    MaxFaults = 1
    MaxDelays = 0
    Prompt = TRUE
    MaxPending = 3
PROPERTY IdleDisconnects
PROPERTY UndisturbedWorkEnds
CHECK_DEADLOCK FALSE
