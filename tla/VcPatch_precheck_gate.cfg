\* Prepare, prepare again after a failure, install.
SPECIFICATION Spec
CONSTANTS
    v1 = v1
    v2 = v2
    v3 = v3
    NoVersion = NoVersion
    Versions <- MCVersions
    PrefixPairs <- MCPrefixPairs
    InitInstalled = v1
    InitStaged = {NoVersion}
    InitPending <- MCPending
    Rank <- MCRank
    Options <- Plain
    Entries = {"sls"}
    Faults = {"hard"}
    MaxOutage = 0
    MaxBounces = 0
    MaxMeddling = 0
    MaxTransient = 3
    DefaultTransient = 3
    StageBudget = 2
    InnerBudget = 1
    WaitBudget = 2
    InstallBudget = 2
    MaxCalls = 3

PROPERTY InstallsArePrechecked
CHECK_DEADLOCK FALSE
