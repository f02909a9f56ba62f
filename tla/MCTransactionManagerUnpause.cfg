\* Requests are bounded: once all are answered and cleared, nothing is left to do.
CHECK_DEADLOCK FALSE
SPECIFICATION FairSpec
CONSTANTS
    Requests = {r1, r2, r3}
    Entries = {e1, e2}
    NoBatch = NoBatch
PROPERTIES
    AddedAnswered
