SPECIFICATION FairSpec
CONSTANTS
    tab1 = tab1
    tab2 = tab2
    tab3 = tab3
    instance1 = instance1
    ann = ann
    ben = ben
    key1 = key1
    None = None
    Client <- MCClient
    Instance <- MCInstance
    User <- MCUser
    UserOf <- MCUserOf
    Key <- MCKey
    MaxRequests = 4
    MaxDrafts = 1
    MaxOpen = 2
    MaxFaults = 1
CHECK_DEADLOCK FALSE
INVARIANTS
    OneMessagePerKey
    SentIsPostedOnce
    UnseenIsUnread
PROPERTIES
    ContentIsTheSenders
    DueIsSettled
