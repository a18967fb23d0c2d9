SPECIFICATION FairSpec
CONSTANTS
    Reconnectors = {"r1", "r2"}
    RetryMax = 2
    EncoderMayFail = FALSE
    SlowEncoders = FALSE
    MaxStarts = 2
    MaxStops = 0
    MaxForces = 0
    MaxRefusals = 3
    MaxDrops = 3
INVARIANTS
    TypeOK
    EndIsTold
PROPERTIES
    ReconnectEnds
CHECK_DEADLOCK FALSE
