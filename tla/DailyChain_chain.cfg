SPECIFICATION FairSpec
CONSTANTS
    MaxDay = 3
    MayFail = TRUE
    Sleeps = TRUE
INVARIANTS TypeOK GateHolds SameDay
PROPERTIES ChainRecovers
