SPECIFICATION FairSpec
CONSTANTS
    t1 = t1
    t2 = t2
    s1 = s1
    Textures = {t1, t2}
    Sources = {s1}
    MaxRetries = 2
INVARIANTS NoLeak
PROPERTIES LoadEnds
\* A texture may be disposed of, and nothing is left to do.
CHECK_DEADLOCK FALSE
