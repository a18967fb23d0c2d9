\* One source; the pump has read something when the capture is closed.
SPECIFICATION FairSpec
CONSTANTS
    Sources = {1}
    MaxReaders = 1
    MaxCallbacks = 0
    MaxEvents = 2
PROPERTIES
    PumpStopReturns
CHECK_DEADLOCK FALSE
