SPECIFICATION GovernanceSpec
CONSTANTS
    Tenants = {"a", "b"}
    Movers = {"a"}
    Components = {"db", "files"}
    Databases = {"db"}
    MaxGenerations = 2
    MaxReverses = 2
    MaxVersion = 2
    KeepCount = 0
    Profiles <- SomeProfiles
    Detections = {"d"}
    Queries = {"q"}
    Fields = {}
    Edits <- TwoTexts
    Outcomes <- FewAndMany
    MaxVersions = 3
    MaxGates = 2
    MaxReviews = 2
    MaxTasks = 2
    MaxHandoffs = 1
    MaxBases = 2
    MaxSnapshots = 1
    MaxCrashes = 1
    Catalogs <- SomeCatalogs
    Apps = {"search"}
    AnyApp = "any"
    RuntimeQuery = "scheduler"
    RuntimeRows <- HealthyAndSilent
    MaxRefreshes = 1
    MaxObservations = 1
    MaxChecks = 1
    Nothing = Nothing
    ForeignPackages <- SomePackages
    MaxConfigured = 1
    MaxInspected = 1
    MaxFailures = 2
    Scopes = {"east", "west"}
    PackageSize = 1
    MaxReports = 3
    MaxPackages = 2
INVARIANTS
    RouteServesLatest
    
    ApprovalHasItsGate
    ExportsNameAcceptedGate
    LowRiskIsApprovedHead
    ClaimsHoldOfSplunk
    ServedIsWhole
    
    
    SignalInOneReview
PROPERTIES
    PushedWasApproved
CHECK_DEADLOCK FALSE
