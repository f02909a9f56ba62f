SPECIFICATION Spec
CONSTANTS
    Entries = {e1, e2}
    Twins = {e1, e2}
    UserEntries = {e1}
    MaxChanges = 2
    MaxSyncs = 3
INVARIANTS
    LibraryFollows
    QuietAgrees
\* Changes are bounded: once the last is dealt with, nothing is left to do.
CHECK_DEADLOCK FALSE
