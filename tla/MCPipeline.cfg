SPECIFICATION FairSpec
CONSTANTS
    e1 = e1
    d1 = d1
    d2 = d2
    w1 = w1
    None = None
    Event <- MCEvent
    CreatedAt <- MCCreatedAt
    Dispatcher <- MCDispatcher
    Worker <- MCOneWorker
    BatchSize = 1
    MaxRetries = 2
    MaxFaults = 1
    MaxOverruns = 0
    MaxRequeues = 0
    MaxCopies = 3
    DeliveryLimit = 1
    Failure <- AnyFailure
CHECK_DEADLOCK FALSE
INVARIANTS
    EffectOnce
PROPERTIES
    KeepsPromise
