CONSTANTS
    Profiles = {"control", "staged"}
    Control = "control"
    Targets = {"chat"}
    MaxRuns = 4
    MaxTournaments = 2
    MaxEdits = 1
    MaxDigest = 2
    MaxVersion = 2
    MaxRequests = 2
    Locals = {"embed"}
    Ollamas = {"chat"}
    Embedder = "embed"
    HistoryKept = 2
    BatchSize = 1
    Symptoms = {{"network"}, {}}
    MaxPulls = 3
    MaxRevision = 2
    MaxChunks = 2
SPECIFICATION ModelsSpec
INVARIANTS
    OneActivePromotion
    PromotedAsEvaluated
PROPERTIES
    PullsEnd
CHECK_DEADLOCK FALSE
