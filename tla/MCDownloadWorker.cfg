SPECIFICATION FairSpec
CONSTANTS
    Calls = {k1, k2}
    Dests = {d1, d2}
    Workers = {w1, w2}
    Size = 1
    PipeSize = 1
    NoCall = NoCall
    NoDest = NoDest
    NoWorker = NoWorker
INVARIANTS
    TableOfPending
    HonestAnswer
    NoVainWait
PROPERTIES
    SettledOnce
    CallsSettle
\* Calls are bounded: once all are done and the subprocesses ended, nothing is left to do.
CHECK_DEADLOCK FALSE
