SPECIFICATION FairSpec
CONSTANTS
    PowerOn = TRUE
    Options <- VroOptions
    Pods = {p1, p2}
    NoPod = NoPod
    Polls = 1
    Faults = {"conn", "lost", "ssh", "slow", "push", "host", "break", "pod", "reboot", "crash"}
    MaxFaults = 2
INVARIANTS TypeOK SetupRunsOnce OneRunRestores
PROPERTY RerunsConverge
