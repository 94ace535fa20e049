SPECIFICATION Spec
CONSTANTS
    FailLimit = 2
    FailWindow = 3
    MaxReboots = 1
    RebootWindow = 3
    KeepHistory = 2
    ActionSetting = "reboot"
    Interval = 1
    Cooldown = 2
    InitialDelay = 1
    PostDelay = 1
    HasStateFile = TRUE
    HasNtfy = TRUE
    Modes <- DaemonAndOnce
    Grain = 1
    SaveFaults = FALSE
    LoadFaults = FALSE
    MaxClock = 7
PROPERTY BreakerWaitsCooldown
