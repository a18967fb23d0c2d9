\* Two sources that share the display, the token and the recorder.
SPECIFICATION Spec
CONSTANTS
    Sources = {1, 2}
    MaxReaders = 2
    MaxCallbacks = 1
    MaxEvents = 2
INVARIANTS
    TypeOK
    SafeTeardown
    SurfaceHasReader
    ReadsLiveBuffer
    DestroyedIsClosed
    NothingLeftBehind
CHECK_DEADLOCK FALSE
