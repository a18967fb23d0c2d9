\* Two encoders, one of which may fail, three textures in the queue, frames of one or two ticks.
SPECIFICATION FairSpec
CONSTANTS
    MaxTime = 5
    MaxCount = 2
    MaxToggles = 2
    MapMayFail = FALSE
    Encoders = {e1, e2}
    Textures = {1, 2, 3}
    MayFail = {e2}
    MaxEncoderStarts = 2
INVARIANTS
    TypeOK
    PictureIntact
    NoTickLost
    QuietAfterStop
PROPERTIES
    RawTimeline
    StopReturns
CHECK_DEADLOCK FALSE
