SPECIFICATION FairSpec
CONSTANTS
    Tasks = {t1, t2}
    Sweeper = sweeper
    Checksums = {c1}
    Records = {r1, r2}
    Objects = {o1, o2}
    Slots = {s1, s2}
    NoTask = NoTask
    NoChecksum = NoChecksum
    NoRecord = NoRecord
    NoObject = NoObject
    NoSlot = NoSlot
PROPERTIES
    ServiceSpec
    CallsReturn
    SweepsEnd
