SPECIFICATION Spec
CONSTANTS
    Reconnectors = {"r1", "r2"}
    RetryMax = 1
    EncoderMayFail = TRUE
    SlowEncoders = TRUE
    MaxStarts = 1
    MaxStops = 1
    MaxForces = 1
    MaxRefusals = 1
    MaxDrops = 1
INVARIANTS
    CapturesDoNotOverlap
CHECK_DEADLOCK FALSE
