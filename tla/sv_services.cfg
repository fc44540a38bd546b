SPECIFICATION ServicesSpec
CONSTANTS
    Destinations = {d1, d2}
    OpsPolicies = {o1, o2}
    MaxEvents = 6
    BatchSize = 2
    MaxAttempts = 2
    MaxAuditRestarts = 1
    MaxReconciles = 1
    Nowhere = Nowhere
    Schedules = {s1, s2}
    Conns = {c1, c2}
    Series = {q1}
    Weekdays = {"mon"}
    Directions = {"above"}
    DailyBudget = 1
    GlobalBudget = 2
    MaxDays = 2
    MaxForecasts = 3
    MaxForecastRestarts = 1
    NoSchedule = NoSchedule
CHECK_DEADLOCK FALSE
INVARIANTS
    NothingSkipped
    
    
PROPERTIES
    ForecastsAreDurable
    DueIsServed
