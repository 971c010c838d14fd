SPECIFICATION LiveSpec
CONSTANTS
    Names <- ThreeNames
    Intents <- SomeIntents
    Paired = {1, 2}
    WithMac = {1, 2}
    Malformed = {2}
    Timeout = 1
    MaxFaults = 1
    Streaming = TRUE
INVARIANT DaemonReadsAsWritten
INVARIANT ConsoleReadsAsWritten
INVARIANT HeardInOrder
INVARIANT NoErrorMeansDone
INVARIANT WakesWhileTrying
PROPERTY ConsoleEnds
CHECK_DEADLOCK FALSE
