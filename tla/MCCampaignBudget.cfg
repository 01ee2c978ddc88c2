CONSTANTS
    Machines = {"campaign"}
    l1 = l1  l2 = l2  l3 = l3  s1 = s1  s2 = s2  g1 = g1  g2 = g2  g3 = g3
    t1 = t1  t2 = t2  t3 = t3  a = a  b = b  lead = lead
    Lease = {l1, l2, l3}  Snapshot = {s1, s2}  SnapshotOf <- MCSnapshotOf
    Signature = {g1, g2, g3}  None = None  MaxAttempts = 2  Retention = 3
    FastLimit = 2  DeepLimit = 1  DeepGate = {TRUE}  MayEnrich = FALSE  MaxCrashes = 1
    Task = {t1, t2}  MaxRuns = 3  MaxRevisions = 2  MaxConcurrent = 2
    MaxInvocations = 2  RunInvocations = 1  OncePerTask = FALSE
    SavesMayFail = FALSE  MayRestart = FALSE
    Case = {a, b}  Lead = {}  DefaultPolicies <- MCPolicies
    DeskRetention = 1  Window = 1  ObservationLimit = 1
    MaxFailedSaves = 1  MaxRestarts = 1  NoEntry = NoEntry
SPECIFICATION Spec
SYMMETRY WorkSymmetry
INVARIANT BudgetIsRespected
CHECK_DEADLOCK FALSE
