CONSTANTS
    t1 = t1
    t2 = t2
    MaxCalls = 2
    Tab = {t1, t2}
    Scenes <- RingScenes
    LoggedCall = {"k1", "k2"}
    MaxActs = 3
    MaxFailures = 1
    MaxTakes = 2
    MaxFaults = 1
SPECIFICATION CallsSpec
CHECK_DEADLOCK FALSE
INVARIANTS
    AnsweredIsOver
    PageIsHonest
    ListAgrees
    OneRecording
PROPERTIES
    CallSettles
    ClearedWasShown
    RecordingIsKept
