SPECIFICATION FairSpec
CONSTANTS
    Runs = {r1, r2}
    NoRun = NoRun
    Identities = {i1, i2}
    CallBudget = 1
    Limits = {1}
    FactoryMayRaise = TRUE
    EarlyCancel = TRUE
    MaxRestarts = 1
    MaxDays = 1
INVARIANTS
    ActiveRunsFollowPolicy
PROPERTIES
    KeepsPromise
    ScheduleGoesOn
    DailyLimitHolds
