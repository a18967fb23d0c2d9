\* Two video tracks and two audio tracks, new or running encoders, two captures.
CONSTANTS
    VideoTracks = {0, 1}
    AudioTracks = {0, 1}
    Step <- Rates
    StartTs <- Clock
    Lead <- Leads
    Gop = 2
    Starts <- FreshOrRunning
    Early <- AudioOnly
    MaxSkew = 3
    MaxPackets = 9
    MaxSessions = 2
SPECIFICATION Spec
INVARIANTS
    TypeOK
    InOrder
    Playable
    TimesMatch
    InSync
CHECK_DEADLOCK FALSE
