SPECIFICATION Spec
CONSTANTS
    FailLimit = 1
    FailWindow = 2
    MaxReboots = 2
    RebootWindow = 5
    KeepHistory = 3
    ActionSetting = "reboot"
    Interval = 1
    Cooldown = 2
    InitialDelay = 0
    PostDelay = 1
    HasStateFile = TRUE
    HasNtfy = FALSE
    Modes <- DaemonAndRestart
    Grain = 2
    SaveFaults = TRUE
    LoadFaults = FALSE
    MaxClock = 9
INVARIANTS
    TypeOK
    AttemptsAccounted
    RateLimit
    AcceptedIsTrue
    ProcessLimit
PROPERTY ImplementsBudget
