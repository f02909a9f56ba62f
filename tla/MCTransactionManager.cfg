SPECIFICATION FairSpec
CONSTANTS
    Requests = {r1, r2, r3}
    Entries = {e1, e2}
    NoBatch = NoBatch
INVARIANTS
    QueuedOnList
    HoldBalance
    NoSleepingQueue
PROPERTIES
    SerialSpec
    AddedServed
