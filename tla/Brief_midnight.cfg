SPECIFICATION Spec
CONSTANTS
    MaxDay = 2
    Days <- MCDays
    Clusters = {c1}
    Marks = {up}
    None = None
    Stamps = {1, 2}
    MaxSlots = 2
    Retries = 1
    MaxLost = 1
    MayFail = FALSE
INVARIANTS OneDate
