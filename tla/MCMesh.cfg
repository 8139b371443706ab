SPECIFICATION Spec
CONSTANTS
    anna = anna
    bela = bela
    User <- MCUser
    Rank <- MCRank
    HubFirst = TRUE
    Grants <- MCMicrophone
    Budgets <- MCBudgets
CHECK_DEADLOCK FALSE
INVARIANTS
    Heard
PROPERTIES
    PairConnects
