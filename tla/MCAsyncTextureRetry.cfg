SPECIFICATION Spec
CONSTANTS
    t1 = t1
    t2 = t2
    s1 = s1
    Textures = {t1}
    Sources = {s1}
    MaxRetries = 3
PROPERTIES AnnouncedRetry
\* A texture may be disposed of, and nothing is left to do.
CHECK_DEADLOCK FALSE
