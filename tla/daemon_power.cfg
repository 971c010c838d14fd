SPECIFICATION LiveSpec
CONSTANTS
    Displays = 1
    Threads <- WithTwoResumes
    Settings <- IdleSettings
    Resumes <- TwoResumes
    PowerOnAtLogin = TRUE
    Metadata = TRUE
    InhibitDelay = 2
    MaxRequests = 2
    MaxReports = 2
INVARIANT DarkInTime
INVARIANT RebootKeepsLit
INVARIANT AwakeIsLit
INVARIANT HandlerUnderLock
PROPERTY NightPasses
CHECK_DEADLOCK FALSE
