SPECIFICATION Spec
CONSTANTS
    Interval = 1
    Cooldown = 5
    InitialDelay = 0
    ExplicitMaxAge = 0
    LeastMaxAge = 3
    MaxCycle = 2
    MaxReboots = 1
    RebootWindow = 6
    Retention = 24
    Jumps <- NoJumps
    WriteFaults = FALSE
    MaxJumps = 0
    MaxTime = 14
INVARIANT DerivedLimitIsSafe
CHECK_DEADLOCK FALSE
