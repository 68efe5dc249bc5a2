\* Two dispatchers, batches of two, every kind of answer, lost answers, a fault.
SPECIFICATION FairSpec
CONSTANTS
    e1 = e1  e2 = e2  e3 = e3  d1 = d1  d2 = d2
    Event = {e1, e2}
    Dispatcher = {d1, d2}
    None = None
    BatchSize = 2
    Lease = 1
    MaxAttempts = 3
    BaseBackoff = 1
    MaxBackoff = 2
    MaxFaults = 1
INVARIANTS
    OneHolder
    PublishedWasAccepted
    RequestsBounded
    NotifiedOnce
PROPERTIES
    OutcomeIsFinal
    ImplementsDelivery
    EventSettles
CHECK_DEADLOCK FALSE
