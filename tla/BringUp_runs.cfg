\* Two runs with every option, overlapping or not, every fault.
SPECIFICATION FairSpec
CONSTANTS
    Runs = {1, 2}
    Concurrent = TRUE
    Entries = {"complete", "validated"}
    Wait = {TRUE, FALSE}
    Test = {TRUE, FALSE}
    ValidateFirst = {TRUE, FALSE}
    Budget = 1
    Faults = {"list", "conn", "lost"}
    None = None
INVARIANTS
    TypeOK
    OneBringup
    SuccessIsTrue
PROPERTIES
    RunsEnd
CHECK_DEADLOCK FALSE
