SPECIFICATION MCSpec
CONSTANTS
    Articles = {1, 2, 3, 4}
    Corpora <- MCCorpora
    TitleJaccard = 35
    BodyJaccard = 30
    MinTitle = 2
    MinBody = 2
    MinSimhash = 3
    MaxBlock = 3
    MaxShare = 5
    MinCap = 3
    MaxRuns = 2
    Pages = {p1, p2}
    Window = 3
    DayLength = 2
    MaxTick = 6
    MaxDictionary = 2
    Entities = {e1, e2}
    Names = {n1, n2}
    Unlisted = Unlisted
    MaxSnapshot = 3
    Figures = {1, 2}
    Missing = Missing
    Silent = Silent
    WindowDays = 1
    RevisionDays = 1
    Rounding = 1
    MaxDay = 2
    Documents <- MCDocuments
    Writers = {w1, w2}
    Legacy <- MCLegacy
    Reaches = {1}
    Sla = 0
    ContentSla = 2
    MinDocs = 0
    BaselineWindows = 3
    BaselineMin = 1
    DropPercent = 20
    FooterHours = 2
    MaxPolls = 1
    MaxHour = 4
    Comments = {2, 3, 4}
    Forests <- MCForests
    MaxHops = 1
    MaxBronzeHour = 2
    MaxPasses = 3
    Registers <- MCRegisters
    Gazettes <- MCGazettes
    Spans <- MCSpans
    LegalForms = {"inc"}
    CommonWords = {"meta"}
    Boilerplate = {"filed"}
    Letters <- MCLetters
    Unknown = Unknown
    Reports = {1, 2, 3}
    Wires <- MCWires
    Firms = {1, 2}
    Followed = {1}
    Boards <- MCBoards
    Likeness <- MCLikeness
    NoItem = 0
    Scores = {0, 4}
    Saturation = 8
    Span = 3
    DayTicks = 2
    HistoryDays = 1
    LookbackDays = 1
    LastTick = 3
    MaxEvents = 3
    Builds = {b1, b2}
    Windows <- MCWindows
    Encoders = {v1, v2}
    Torn = Torn
    Batch = 1
    Retries = 2
    MaxBuilds = 3
    Swept <- MCSwept
    MinInputFiles = 2
    Retention = 1
    RetainLast = 1
    LastNight = 2
    MaxCommits = 3
    LiveTolerance = 1
    LastMorning = 5
INVARIANTS TablesTypeOK StoriesExact ResolveTrue RestatementsKept MaintenanceTrue HealthTrue ThreadsTrue LinksEarned PageTrue StreakTrue
CHECK_DEADLOCK FALSE
