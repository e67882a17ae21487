\* An administrator's draft next to the call's own.
SPECIFICATION Spec
CONSTANTS
    Runs = {1}
    Concurrent = FALSE
    Versions = {v1, v2}
    Wanted = {v2}
    DraftIds = {d1, d2, d3}
    DraftActions = {"delete"}
    Validate = {TRUE}
    Commit = {TRUE}
    Test = {FALSE}
    Sync = {FALSE}
    Budget = 1
    Faults = {}
    MaxMoves = 2
    None = None
INVARIANTS
    CommitsItsImage
CHECK_DEADLOCK FALSE
