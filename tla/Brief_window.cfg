SPECIFICATION FairSpec
CONSTANTS
    MaxDay = 2
    Days <- MCDays
    Clusters = {c1}
    Marks = {up, down}
    None = None
    Stamps = {1, 2}
    MaxSlots = 2
    Retries = 2
    MaxLost = 2
    MayFail = TRUE
INVARIANTS TypeOK OncePerEdition MarkerHonest NoDoubleRow MarksStay
PROPERTIES BriefRecovers
