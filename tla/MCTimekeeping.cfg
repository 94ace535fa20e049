SPECIFICATION Spec
CONSTANTS
    Interval = 2
    Cooldown = 3
    InitialDelay = 1
    ExplicitMaxAge = 0
    LeastMaxAge = 3
    MaxCycle = 3
    MaxReboots = 1
    RebootWindow = 6
    Retention = 6
    Jumps <- BackAndForth
    WriteFaults = TRUE
    MaxJumps = 2
    MaxTime = 9
INVARIANTS
    TimeInv
    LiveIsHealthy
    HealthyMeansAlive
    RealTimeLimit
PROPERTY PacedByMonotonicClock
