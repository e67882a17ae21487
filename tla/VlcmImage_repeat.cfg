\* A highstate, or its dry run, that anything may stop, and its repetition.
SPECIFICATION FairSpec
CONSTANTS
    Runs = {1, 2}
    Concurrent = FALSE
    Versions = {v1, v2}
    Wanted = {v2}
    DraftIds = {d1, d2}
    DraftActions = {"fail", "reuse", "delete"}
    Validate = {TRUE}
    Commit = {TRUE, FALSE}
    Test = {TRUE, FALSE}
    Sync = {FALSE}
    Budget = 1
    Faults = {"conn", "lost", "vanish"}
    MaxMoves = 0
    None = None
INVARIANTS
    TypeOK
    DraftsDoNotPileUp
PROPERTIES
    RunsEnd
CHECK_DEADLOCK FALSE
