SPECIFICATION FairSpec
CONSTANTS
    Functions <- AllFunctions
    Runs = {r1, r2}
    Operator = Operator
    MaxFaults = 1
    MaxEdits = 1
    MaxTasks = 2
INVARIANTS TypeOK SuccessIsDeclared NothingIsHalfMade
PROPERTIES TwinsNeedARace   RerunsConverge
CHECK_DEADLOCK FALSE
