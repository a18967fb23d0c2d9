SPECIFICATION Spec
CONSTANTS
    Reconnectors = {"r1", "r2"}
    RetryMax = 1
    EncoderMayFail = FALSE
    SlowEncoders = FALSE
    MaxStarts = 1
    MaxStops = 1
    MaxForces = 0
    MaxRefusals = 0
    MaxDrops = 1
INVARIANTS
    StopIsObeyed
CHECK_DEADLOCK FALSE
