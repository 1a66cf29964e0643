CONSTANTS
    Clusters = {c1, c2, c3}
    Texts = {t1, t2}
    MAX_ATTEMPTS = 2
    MaxEdits = 2
    MaxTrouble = 1

SPECIFICATION FairSpec

INVARIANTS
    TypeOK
    NoDoublePair
    CacheHonest
    RetryBound

PROPERTY
    Settles
