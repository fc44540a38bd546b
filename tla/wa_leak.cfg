SPECIFICATION Spec
CONSTANTS
    q1 = q1
    q2 = q2
    q3 = q3
    m1 = m1
    Callers <- ThreeCallers
    Queries <- TwoQueries
    Unsafe = {}
    Cost <- CostOfCallers
    Risk <- RiskOfCallers
    Policies <- NarrowAudit
    Free = Free
    HistoryLimit = 5
    InnerWaitTask = FALSE
    ReportMayRaise = TRUE
    CallersCancel = FALSE
    MaxGeneration = 1
    MaxRestarts = 0
    MaxDays = 0
INVARIANTS
    CapacityReturned
