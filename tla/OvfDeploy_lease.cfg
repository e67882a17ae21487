\* Two calls one after the other, every fault, pings slow and failing.
SPECIFICATION FairSpec
CONSTANTS
    Callers = {"find", "push"}
    PowerOn = TRUE
    Interval = 2
    JoinMax = 2
    CompleteMax = 1
    ReadyBudget = 1
    PowerBudget = 1
    LeaseLife = 9
    PingMax = 1
    MaxPingFails = 1
    Faults = {"conn", "lost", "lease", "task", "crash"}
    MaxRuns = 2
INVARIANTS
    TypeOK
    LeaseOutlivesUpload
    QuietEnd
PROPERTIES
    PushesAsPromised
    ShellsVanish
CHECK_DEADLOCK FALSE
