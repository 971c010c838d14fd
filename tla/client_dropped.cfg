SPECIFICATION Spec
CONSTANTS
    Devices <- PlainDevice
    Commands <- PowerCommands
    PowerOnRetries = 2
    MaxCalls = 2
    MaxFaults = 0
    MaxDelays = 0
    Prompt = TRUE
    MaxPending = 3
INVARIANT PowerOffHeld
CHECK_DEADLOCK FALSE
