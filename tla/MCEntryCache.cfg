SPECIFICATION Spec
CONSTANTS
    Tasks = {t1, t2, t3}
    Sweeper = sweeper
    Checksums = {c1, c2}
    Records = {r1, r2}
    Objects = {o1, o2}
    Slots = {s1}
    NoTask = NoTask
    NoChecksum = NoChecksum
    NoRecord = NoRecord
    NoObject = NoObject
    NoSlot = NoSlot
INVARIANTS
    FileExclusion
    OneLivingObject
    NoCircularWait
    OwnerOfAwaited
    WriteLimit
    RecordAgreement
    QueuedCount
SYMMETRY Symmetry
