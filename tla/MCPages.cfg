CONSTANTS
    User = {"A", "B"}
    MaxActs = 4
    MaxRequests = 2
    MaxFailures = 1
    Tab = {"t1", "t2"}
    Organization = {"o1", "o2"}
    Personal = "personal"
    MaxLookups = 3
    Limit = 2
    Drawings <- BoardScenes
    Meeting = {"m1", "m2", "m3"}
    Day = 1
    MaxTime = 2
    MaxPlans = 2
    MaxCrossing = 2
    MaxLosses = 1
    Person <- Somebody
    Organizer = "olga"
    Scenes <- RoomScenes
SPECIFICATION PagesSpec
CHECK_DEADLOCK FALSE
INVARIANTS
    BoardsAgree
    AdmittedBeforeJoin
    PagesAgree
    OneAccount
    ProfileAgrees
    CalendarAgrees
    ScopeAgrees
PROPERTIES
    RemindedInTime
