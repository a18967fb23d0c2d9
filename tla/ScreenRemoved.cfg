\* One source that is removed.
SPECIFICATION FairSpec
CONSTANTS
    Sources = {1}
    MaxReaders = 1
    MaxCallbacks = 0
    MaxEvents = 1
PROPERTIES
    RemovedIsDestroyed
CHECK_DEADLOCK FALSE
