CONSTANTS
    Machines = {"leases", "campaign"}
    l1 = l1  l2 = l2  l3 = l3  s1 = s1  s2 = s1  g1 = g1  g2 = g2  g3 = g3
    t1 = t1  t2 = t2  t3 = t3  a = a  b = b  lead = lead
    Lease = {l1, l2, l3}  Snapshot = {s1}  SnapshotOf <- MCSnapshotOf
    Signature = {g1, g2}  None = None  MaxAttempts = 2  Retention = 3
    FastLimit = 1  DeepLimit = 1  DeepGate = {TRUE}  MayEnrich = FALSE  MaxCrashes = 1
    Task = {t1, t2}  MaxRuns = 2  MaxRevisions = 2  MaxConcurrent = 1
    MaxInvocations = 3  RunInvocations = 1  OncePerTask = TRUE
    SavesMayFail = FALSE  MayRestart = FALSE
    Case = {a}  Lead = {}  DefaultPolicies <- MCPolicies
    DeskRetention = 1  Window = 1  ObservationLimit = 1
    MaxFailedSaves = 0  MaxRestarts = 0  NoEntry = NoEntry
SPECIFICATION FairSpec
PROPERTIES
    DeepWorkEnds MembersAreAttempted
CHECK_DEADLOCK FALSE
