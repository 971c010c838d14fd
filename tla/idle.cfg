SPECIFICATION LiveSpec
CONSTANTS
    Clients <- AllClients
    Messages <- AllMessages
    MaxMoves = 2
    MaxSignals = 1
    MaxTroubles = 1
    MaxGuests = 1
INVARIANTS NoClientForgotten
PROPERTIES ReportsInOrder LastReportCounts ExitLeavesBusy StopEnds
CHECK_DEADLOCK FALSE
