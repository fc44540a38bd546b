SPECIFICATION FairSpec
CONSTANTS
    Jobs = {j1, j2}
    NoJob = NoJob
    Me = Me
    Others = {u1}
    Identities = {i1, i2}
    CallBudget = 2
    FactoryMayRaise = TRUE
    EarlyCancel = TRUE
    MaxRestarts = 2
INVARIANTS
    AtMostOneActive
    CollectsAsBound
PROPERTIES
    KeepsPromise
    
    EveryJobEnds
