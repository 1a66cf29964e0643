SPECIFICATION Spec
CONSTANTS
    Kinds <- OneKind
    MaxHour = 3
    Timely = TRUE
    CommitMayFail = TRUE
    TaskMayFail = FALSE
INVARIANTS RerunIsEnough
