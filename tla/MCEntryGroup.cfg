SPECIFICATION Spec
CONSTANTS
    e1 = e1
    e2 = e2
    Entries = {e1, e2}
    Browsable = {e1}
    Score <- RemoteFirst
    Saved <- EmptyOrBoth
    MaxHolds = 1
    MaxChanges = 2
INVARIANTS
    FlagsFollow
    OfferedWhenFree
    MarksFollow
\* Notifications are bounded: after the last, a group without entries is left alone.
CHECK_DEADLOCK FALSE
