\* Two connections of two video tracks and an audio track.
CONSTANTS
    VideoTracks = {0, 1}
    Pattern <- Together
    drop_threshold = 0
    pframe_drop_threshold = 1
    Trigger = 1
    Bitrates <- Rates
    Estimates = {4490}
    FallsShort <- Short
    MaxFrames = 6
    MaxSessions = 2
SPECIFICATION Spec
INVARIANTS
    TypeOK
    Decodable
    CongestionIsMet
    QueueIsServed
PROPERTIES
    UpByStep
CHECK_DEADLOCK FALSE
