SPECIFICATION Spec
CONSTANTS
    host = host
    guest = guest
    tab1 = tab1
    tab2 = tab2
    p1 = p1
    p2 = p2
    None = None
    User <- MCUser
    Organizer = host
    Client <- MCClient
    UserOf <- MCOnlyHost
    ParticipantId <- MCParticipantId
    Horizon = 2
    MaxOpen = 2
    MaxEnds = 1
    MaxMoves = 0
CHECK_DEADLOCK FALSE
SYMMETRY RowSymmetry
PROPERTY
    NoJoinAfterEnd
