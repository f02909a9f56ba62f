SPECIFICATION FairDaemonSpec
CONSTANTS
    Apps = {a1, a2, a3}
    NoApp = NoApp
    MaxSearches = 4
    MaxWorkers = 2
INVARIANTS
    IdleMeansIdle
    NeverStranded
PROPERTIES
    Exits
