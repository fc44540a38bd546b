SPECIFICATION FairSpec
CONSTANTS
    q1 = q1
    q2 = q2
    q3 = q3
    m1 = m1
    Callers <- FourCallers
    Queries <- ThreeQueries
    Unsafe <- OnlyQ3
    Cost <- CostOfCallers
    Risk <- RiskOfCallers
    Policies <- MixedPolicies
    Free = Free
    HistoryLimit = 5
    InnerWaitTask = FALSE
    ReportMayRaise = FALSE
    CallersCancel = TRUE
    MaxGeneration = 2
    MaxRestarts = 0
    MaxDays = 0
PROPERTIES
    QueueDrains
