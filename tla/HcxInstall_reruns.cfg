\* Every combination of arguments, three faults of any kind, any number of runs.
SPECIFICATION FairSpec
CONSTANTS
    PowerOn = TRUE
    Options <- AllOptions
    WaitBudget = 1
    ReadyBudget = 1
    Faults = {"conn", "lost", "push", "host", "outage", "crash"}
    MaxFaults = 3
INVARIANTS
    TypeOK
    SuccessIsTrue
    RepeatIsNoOp
PROPERTIES
    RerunsConverge
