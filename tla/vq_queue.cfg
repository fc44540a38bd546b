CONSTANTS
    Requests = {r1, r2, r3}
    Contracts = {c1, c2}
    NoContract = NoContract
    OverlappingRuns = FALSE
    MaxRestarts = 1
SPECIFICATION Spec
INVARIANTS  RunsAsPreflighted ResultIsOfContract
CHECK_DEADLOCK FALSE
