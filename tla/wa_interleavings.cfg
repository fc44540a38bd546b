SPECIFICATION Spec
CONSTANTS
    q1 = q1
    q2 = q2
    q3 = q3
    m1 = m1
    Callers <- ThreeCallers
    Queries <- TwoQueries
    Unsafe = {}
    Cost <- CostOfCallers
    Risk <- RiskOfCallers
    Policies <- MixedPolicies
    Free = Free
    HistoryLimit = 5
    InnerWaitTask = TRUE
    ReportMayRaise = TRUE
    CallersCancel = TRUE
    MaxGeneration = 2
    MaxRestarts = 1
    MaxDays = 1
INVARIANTS
    SlotsCovered
    NoLostWakeup
    LedgerCoversSent
PROPERTIES
    AdmissionRespectsLimits
    AdmittedUnderCurrentPolicy
