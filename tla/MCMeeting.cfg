SPECIFICATION MCSpec
CONSTANTS
    host = host
    guest = guest
    tab1 = tab1
    tab2 = tab2
    p1 = p1
    p2 = p2
    mine = mine
    theirs = theirs
    k1 = k1
    Call <- MCCall
    CallTab <- MCCallTab
    SideOf <- MCSideOf
    MaxUpdates = 3
    None = None
    User <- MCUser
    Organizer = host
    Client <- MCClient
    UserOf <- MCUserOf
    ParticipantId <- MCParticipantId
    Horizon = 2
    MaxOpen = 2
    MaxEnds = 1
    MaxMoves = 1
CHECK_DEADLOCK FALSE
SYMMETRY RowSymmetry
INVARIANTS
    OneRowPerUser
    NobodySharesAfterLeaving
    KeptInTurn
    OutcomeHolds
PROPERTIES
    HistoryIsKeptInTurn
