SPECIFICATION HealthSpec
CONSTANTS
    Reaches = {1}
    Sla = 0
    ContentSla = 2
    MinDocs = 0
    BaselineWindows = 3
    BaselineMin = 1
    DropPercent = 20
    FooterHours = 2
    MaxPolls = 1
    MaxHour = 4
INVARIANTS UpperBoundOnLoss
CHECK_DEADLOCK FALSE
