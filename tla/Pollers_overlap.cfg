CONSTANTS
    Slots = {a, b}
    Count = 1
    None = None
    FreshSla = 0
    ContentSla = 1
    MaxVersion = 2
SPECIFICATION Spec
INVARIANTS TypeOK Acknowledged NeverEarly
PROPERTIES DeadFeedReported UpToDate
