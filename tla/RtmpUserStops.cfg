SPECIFICATION FairSpec
CONSTANTS
    Reconnectors = {"r1", "r2"}
    RetryMax = 1
    EncoderMayFail = FALSE
    SlowEncoders = FALSE
    MaxStarts = 3
    MaxStops = 3
    MaxForces = 0
    MaxRefusals = 2
    MaxDrops = 0
INVARIANTS
    EndIsTold
    StopIsObeyed
PROPERTIES
    CallsAreAnswered
CHECK_DEADLOCK FALSE
