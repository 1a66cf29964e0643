SPECIFICATION MCSpec
CONSTANTS
    Slots = {s1, s2}
    None = None
    Batch = 2
    Seed = 1
    MayCrash = TRUE
    MaxItem = 4
    MaxFailures = 1
INVARIANTS TypeOK NoGap NoHole
PROPERTIES NoRefetch CatchUp KeepsPromise
