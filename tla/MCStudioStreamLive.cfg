\* One page and no failure of a single request.
CONSTANTS
    Clients = {c1}
    None = None
    MaxState = 2
    MaxRestarts = 1
    MaxLosses = 1
    MaxFailures = 0
    TornBodies = FALSE
SPECIFICATION FairSpec
PROPERTIES
    LatestIsShown
CHECK_DEADLOCK FALSE
