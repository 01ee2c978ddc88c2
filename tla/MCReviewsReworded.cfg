\* Two proposals of one scope with a change of claims, a rewording, a manual review and a
\* crash; four investigations and three runs of the archaeologist for two kept records;
\* two requests beside two fast lanes; two scopes of evidence.
CONSTANTS
    Proposals = {1, 2}  Contract <- MCContract  Automatic = {"a"}  None = None
    MaxAttempts = 2  Slots = 2  ClaimsReturn = FALSE
    MaxTerms = 2  MaxClaims = 1  MaxChanges = 1  MaxManual = 1  MaxCrashes = 1
    Tasks = {t1, t2, t3}  Scopes = {s1, s2}  DeskRecords = 2  MaxInvestigations = 4
    MaxFailedSaves = 2  MaxRestarts = 1
    Runs = {a1, a2, a3}  RunAttempts = 2  RunFailedSaves = 1
    Requests = {q1, q2}  LeaseTasks = {t2, t3}  RequestTasks = {t1, t2}  LeaseScope = s1
    MaxRuns = 3  MaxFailures = 1
    r1 = r1  r2 = r2
SPECIFICATION ResearchSpec
INVARIANTS
    OneReviewPerScope
CHECK_DEADLOCK FALSE
