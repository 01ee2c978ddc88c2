\* One issue over two snapshots with a refused save; two sources that keep one
\* row each; two messages of which one is kept.  Each restarts once.
CONSTANTS
    Issues = {1}  Seeded = {}  Priority <- MCPriority  Family <- MCFamily
    Cadence = 1  ConcurrencyLimit = 1  FamilyLimit = 1  LeaseLimit = 2
    MaxSnapshot = 2  MaxClock = 2  MaxFailures = 1  MaxRestarts = 1
    CorpusReturns = FALSE  MaxForeign = 1  Requests = {"CREATE", "PAUSE", "READ"}  None = None
    Source = {kalshi, gemini}  CatalogRetention = 1  MaxAge = 1  Interval = 2
    CatalogMaxClock = 5
    Messages = 2  LeaseWindow = 1  OutboxRetention = 1  PerTick = 2  RetryDelay <- MCRetryDelay
    TieWinner = "IN_APP"  OutboxMaxClock = 3  MaxFailedSaves = 1  Acknowledges = TRUE
    NoDelivery = NoDelivery
SPECIFICATION SearchSpec
INVARIANTS
    CountedOnce OneLeasePerIssue EvidenceKeepsItsSource RequestsAreBounded
CHECK_DEADLOCK FALSE
