SPECIFICATION FairSpec
CONSTANTS
    Kinds <- OneOfEach
    MaxHour = 3
    Timely = TRUE
    CommitMayFail = FALSE
    TaskMayFail = FALSE
INVARIANTS NothingLeftBehind
PROPERTIES Settles
