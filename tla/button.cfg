SPECIFICATION LiveSpec
CONSTANTS
    Devices <- EveryDevice
    MaxPresses = 3
    MaxCloses = 1
    MaxFaults = 2
    MaxDelays = 1
    MaxPending = 2
    Prompt = TRUE
INVARIANTS NoStrandedPress OneReader
PROPERTIES PressesInOrder PressesArrive
CHECK_DEADLOCK FALSE
