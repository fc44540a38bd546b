SPECIFICATION FairSpec
CONSTANTS
    Jobs = {j1}
    NoJob = NoJob
    Me = Me
    Others = {u1}
    Identities = {i1}
    CallBudget = 1
    FactoryMayRaise = TRUE
    EarlyCancel = FALSE
    MaxRestarts = 1
PROPERTIES
    CancellationEnds
