SPECIFICATION Spec
CONSTANTS
    f1 = f1
    f2 = f2
    Files <- Both
    Initial <- Both
    HookAnswers <- YesNo
    ShareAnswers <- Yes
    MoveResults <- MovedOrNot
    Overlap = FALSE
    Removes = TRUE
    Errors = FALSE
    MaxCrashes = 1
    MaxTasks = 2
INVARIANTS ValidatedInPlace
PROPERTIES RestartKeepsFiles
CHECK_DEADLOCK FALSE
