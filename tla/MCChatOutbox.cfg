CONSTANTS
    asha = asha
    ben = ben
    left = left
    right = right
    hello = hello
    again = again
    photo = photo
    plan = plan
    Account <- MCAccount
    Tab <- MCTab
    Text <- MCText
    File <- MCFile
    MaxIds = 2
    Scenes <- MCScenes
SPECIFICATION FairSpec
CHECK_DEADLOCK FALSE
INVARIANTS
    PostedOnceByAuthor
    NothingIsLost
PROPERTIES
    EventuallySent
