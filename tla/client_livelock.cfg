SPECIFICATION LiveSpec
CONSTANTS
    Devices <- PlainDevice
    Commands <- PowerCommands
    PowerOnRetries = 2
    MaxCalls = 1
    MaxFaults = 1
    MaxDelays = 0
    Prompt = TRUE
    MaxPending = 3
PROPERTY RetryFires
CHECK_DEADLOCK FALSE
