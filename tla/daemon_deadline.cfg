SPECIFICATION Spec
CONSTANTS
    Displays = 1
    Threads <- WithOneResume
    Settings <- PlainSettings
    Resumes <- OneResume
    PowerOnAtLogin = TRUE
    Metadata = TRUE
    InhibitDelay = 10
    MaxRequests = 1
    MaxReports = 2
INVARIANT ReleasedInTime
CHECK_DEADLOCK FALSE
