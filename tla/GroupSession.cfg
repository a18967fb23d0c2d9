\* A texture encoder q at half the frame rate and an encoder p at the full rate,
\* fed by receive_video, that waits for its audio and may fail.
CONSTANTS
    p = p
    q = q
    Encoders = {p, q}
    Divisor <- FullAndHalf
    Raw = {p}
    Paired = {p}
    MayFail = {p}
    MaxTicks = 17
    MaxLead = 2
    MaxUpdates = 3
    MaxSessions = 1
SPECIFICATION Spec
INVARIANTS
    TypeOK
    SamePictureSamePts
    ReconfigureTogether
    UpdateApplied
    NoMissedStart
CHECK_DEADLOCK FALSE
