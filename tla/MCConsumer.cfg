SPECIFICATION ConsumerAlone
CONSTANTS
    e1 = e1
    d1 = d1
    w1 = w1
    w2 = w2
    None = None
    Event <- MCOneEvent
    CreatedAt <- MCCreatedAt
    Dispatcher <- MCDispatcher
    Worker <- MCWorker
    BatchSize = 1
    MaxRetries = 1
    MaxFaults = 0
    MaxOverruns = 0
    MaxRequeues = 0
    MaxCopies = 2
    DeliveryLimit = 2
    Failure <- AnyFailure
CHECK_DEADLOCK FALSE
INVARIANTS
    AckedMeansDone
    OneOwner
PROPERTIES
    EventuallyDisposed
