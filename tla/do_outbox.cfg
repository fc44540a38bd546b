SPECIFICATION FairSpec
CONSTANTS
    hook = hook
    ticket = ticket
    container = container
    Packages = {p1}
    Destinations <- TicketAndContainer
    Nowhere = Nowhere
    Kind <- KindOfAll
    MaxAttempts = 2
    MaxRetries = 1
    MaxRestarts = 1
INVARIANTS
    JiraAsksFirst
    DeliveredWasReceived
PROPERTIES
    JobsSettle
