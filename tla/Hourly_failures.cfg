SPECIFICATION Spec
CONSTANTS
    Kinds <- OneKind
    MaxHour = 3
    Timely = FALSE
    CommitMayFail = TRUE
    TaskMayFail = TRUE
INVARIANTS TypeOK OnTime
