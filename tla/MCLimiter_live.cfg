SPECIFICATION FlowSpec
CONSTANTS
    k1 = k1
    k2 = k2
    Keys = {k1}
    Ids = {"x"}
    Lists <- MCLists
    Lease = 2
    Epoch = 4
    Chain = 2
    Cap = 1
    Budgets <- MCLiveBudgets
PROPERTIES
    GoneIsFreed
    LostAnswerRepaired
