\* Every argument combination, both orders of calls, services bouncing, sessions
\* expiring, answers lost, and another administrator at work.
SPECIFICATION FairSpec
CONSTANTS
    v1 = v1
    v2 = v2
    v3 = v3
    NoVersion = NoVersion
    Versions <- MCVersions
    PrefixPairs <- MCPrefixPairs
    InitInstalled = v1
    InitStaged = {v1, v2, v3, NoVersion}
    InitPending <- MCPending
    Rank <- MCRank
    Options <- Varied
    Entries = {"sls", "installed"}
    Faults = {"hard", "conn", "lost", "stagetimeout"}
    MaxOutage = 1
    MaxBounces = 2
    MaxMeddling = 1
    MaxTransient = 3
    DefaultTransient = 3
    StageBudget = 2
    InnerBudget = 2
    WaitBudget = 2
    InstallBudget = 3
    MaxCalls = 2
INVARIANTS
    TypeOK
    OutagesAreRidden
    CallAgreesWithAppliance
PROPERTIES
    ReportsAreTrue
    CallsReturn
CHECK_DEADLOCK FALSE
