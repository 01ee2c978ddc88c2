CONSTANTS
    Machines = {"leases", "campaign"}
    l1 = l1  l2 = l2  l3 = l3  s1 = s1  s2 = s2  g1 = g1  g2 = g2  g3 = g3
    t1 = t1  t2 = t2  t3 = t3  a = a  b = b  lead = lead
    Lease = {l1, l2, l3}  Snapshot = {s1, s2}  SnapshotOf <- MCSnapshotOf
    Signature = {g1, g2}  None = None  MaxAttempts = 2  Retention = 2
    FastLimit = 2  DeepLimit = 2  DeepGate = {TRUE, FALSE}  MayEnrich = TRUE  MaxCrashes = 1
    Task = {t1, t2}  MaxRuns = 2  MaxRevisions = 3  MaxConcurrent = 2
    MaxInvocations = 1  RunInvocations = 2  OncePerTask = TRUE
    SavesMayFail = TRUE  MayRestart = TRUE
    Case = {a, b}  Lead = {}  DefaultPolicies <- MCPolicies
    DeskRetention = 1  Window = 1  ObservationLimit = 1
    MaxFailedSaves = 1  MaxRestarts = 1  NoEntry = NoEntry
SPECIFICATION Spec
SYMMETRY LeaseSymmetry
INVARIANTS
    SlotsAreRespected RunningIsRecorded UnfinishedIsScheduled OnlyUnseenRepeats
    OnceRespected
CHECK_DEADLOCK FALSE
