SPECIFICATION RoutingSpec
CONSTANTS
    Tenants = {"a", "b"}
    Movers = {"a"}
    Components = {"db", "files"}
    Databases = {"db"}
    MaxGenerations = 2
    MaxReverses = 2
    MaxVersion = 2
    KeepCount = 0
    Profiles = {{"chain", "finalize", "rollback"}}
INVARIANTS RouteServesLatest
CHECK_DEADLOCK FALSE
