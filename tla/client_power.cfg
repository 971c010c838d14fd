SPECIFICATION Spec
CONSTANTS
    Devices <- PlainDevice
    Commands <- PlainCommands
    PowerOnRetries = 1
    MaxCalls = 2
    MaxFaults = 1
    MaxDelays = 1
    Prompt = FALSE
    MaxPending = 3
INVARIANT TypeOK
INVARIANT LatestIntentWins
INVARIANT BusyWhilePending
INVARIANT FlagMatchesOutcome
INVARIANT RetryBounded
INVARIANT NoStrandedWork
PROPERTY InOrder
PROPERTY ImplementsPowerSession
CHECK_DEADLOCK FALSE
