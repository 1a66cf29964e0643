SPECIFICATION SpecWithSweeps
CONSTANTS
    MaxDay = 2
    MayFail = FALSE
    Sleeps = TRUE
INVARIANTS GateHolds
