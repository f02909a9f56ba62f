SPECIFICATION FairSpec
CONSTANTS
    MaxSyncs = 3
    MaxFlips = 2
    MaxLaunches = 2
INVARIANTS
    OwnCatalog
    SyncingShown
    RefreshKept
PROPERTIES
    FilesOpened
\* Starts, synchronizations and changes of the network are bounded.
CHECK_DEADLOCK FALSE
