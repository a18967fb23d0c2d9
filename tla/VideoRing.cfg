\* Three slots, inputs of different rates, one of which may fail.
CONSTANTS
    a = a
    b = b
    c = c
    CacheSize = 3
    Inputs = {a, b}
    Divisor <- Mixed
    Faulty = {a}
    MaxTicks = 6
    MaxCount = 2
    MaxGpuRefs = 1
SPECIFICATION FairSpec
INVARIANTS
    TypeOK
    NoTornPicture
    RingInv
    SkipsConserved
PROPERTIES
    ServesTimeline
    StopJoins
CHECK_DEADLOCK FALSE
