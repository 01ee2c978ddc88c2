\* One page, two changes, two restarts, a lost connection and a failure, bodies torn too.
CONSTANTS
    Clients = {c1}
    None = None
    MaxState = 2
    MaxRestarts = 2
    MaxLosses = 1
    MaxFailures = 1
    TornBodies = TRUE
SPECIFICATION Spec
INVARIANTS
    LiveAnswersAreCurrent
PROPERTIES
    LiveNeverGoesBack
CHECK_DEADLOCK FALSE
