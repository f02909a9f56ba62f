SPECIFICATION FairSpecRun
CONSTANTS
    Runs = {r1}
    Entries = {e1, e2}
    UserEntries = {e1, e2}
    Bundles = {e2}
    Parts = {app}
    Wanted = {"install", "update"}
    Monitored = {"user"}
    MaxForeign = 1
INVARIANTS
    TruthfulSuccess
    TruthfulFailure
    CancellableWhileRaced
    NoEcho
PROPERTIES
    StreamSpec
    RunEnds
\* One transaction: when it is over nothing is left to do.
CHECK_DEADLOCK FALSE
