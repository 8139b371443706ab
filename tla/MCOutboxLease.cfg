SPECIFICATION OutboxAlone
CONSTANTS
    e1 = e1
    e2 = e2
    d1 = d1
    d2 = d2
    w1 = w1
    None = None
    Event <- MCEvent
    CreatedAt <- MCCreatedAt
    Dispatcher <- MCDispatcher
    Worker <- MCWorker
    BatchSize = 2
    MaxRetries = 2
    MaxFaults = 2
    MaxOverruns = 0
    MaxRequeues = 0
    MaxCopies = 1
    DeliveryLimit = 1
    Failure <- AnyFailure
CHECK_DEADLOCK FALSE
INVARIANTS
    OneHolder
PROPERTIES
    NoSendAfterRecord
