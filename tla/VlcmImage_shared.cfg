\* Two highstates at once, each with a depot sync, and an administrator.
SPECIFICATION Spec
CONSTANTS
    Runs = {1, 2}
    Concurrent = TRUE
    Versions = {v1, v2}
    Wanted = {v1, v2}
    DraftIds = {d1, d2, d3}
    DraftActions = {"delete"}
    Validate = {FALSE}
    Commit = {TRUE}
    Test = {FALSE}
    Sync = {TRUE}
    Budget = 1
    Faults = {"task"}
    MaxMoves = 1
    None = None
INVARIANTS
    ImageIsAsAsked
    HostsAreAsAsked
CHECK_DEADLOCK FALSE
