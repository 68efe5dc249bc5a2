\* One fault of one of two dispatchers.
SPECIFICATION FairSpec
CONSTANTS
    e1 = e1  e2 = e2  e3 = e3  d1 = d1  d2 = d2
    Event = {e1}
    Dispatcher = {d1, d2}
    None = None
    BatchSize = 2
    Lease = 1
    MaxAttempts = 2
    BaseBackoff = 1
    MaxBackoff = 2
    MaxFaults = 1
PROPERTIES
    DeliveredAtLeastOnce
CHECK_DEADLOCK FALSE
