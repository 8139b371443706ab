CONSTANTS
    work = work
    home = home
    own = own
    theirs = theirs
    chat = chat
    later = later
    todo = todo
    ring = ring
    Conv <- MCConv
    Item <- MCItem
    Home <- MCHome
    Of <- MCOf
    Mine <- MCMine
    Scenes <- MCScenes
SPECIFICATION FairSpec
PROPERTIES
    Converges
