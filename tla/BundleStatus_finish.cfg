SPECIFICATION FairSpec
CONSTANTS
    f1 = f1
    f2 = f2
    Files <- Both
    Initial <- OneOfTwo
    HookAnswers <- YesNo
    ShareAnswers <- Yes
    MoveResults <- Moved
    Overlap = FALSE
    Removes = FALSE
    Errors = TRUE
    MaxCrashes = 1
    MaxTasks = 2
INVARIANTS TypeOK StatusAsStated
PROPERTIES FinishedEnds
CHECK_DEADLOCK FALSE
