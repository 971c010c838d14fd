SPECIFICATION LiveSpec
CONSTANTS
    bus = bus
    socket = socket
    Callers <- TwoCallers
    PoolSize = 2
    MaxEvents = 5
INVARIANT WorkIsServed
INVARIANT BusyWhileWorking
PROPERTY DrainEnds
CHECK_DEADLOCK FALSE
