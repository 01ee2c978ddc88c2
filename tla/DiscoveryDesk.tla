---------------------------- MODULE DiscoveryDesk ----------------------------
(***************************************************************************)
(* Discovery runs: invokeDiscovery and runFast of                          *)
(* packages/control-plane/src/server.ts over the ledger of                 *)
(* discovery-ledger.ts and its table (save, load and findByTaskId of       *)
(* operational-store.ts).  Requests for a task that runs share its run;    *)
(* the fast lane of a search lease runs its task on its own.  A run waits  *)
(* for the pool of workers and, after it is recorded, for the projection   *)
(* to be published; either may fail, and the process may end.              *)
(*                                                                         *)
(* Both lists are newest first.  A scope is the question, the venues and   *)
(* the catalog context of a task.                                          *)
(***************************************************************************)
EXTENDS Naturals, SequencesExt, FiniteSets, Selection

CONSTANTS
    Requests,           \* HTTP requests
    Tasks,              \* task ids
    LeaseTasks,         \* task ids of the fast lane of search leases
    RequestTasks,       \* task ids that requests name
    Scopes,             \* scopes of a task
    LeaseScope,         \* the scope of the task of a lease
    Retention,          \* retentionLimit of the ledger
    MaxRuns,            \* bound: runs of the pool
    MaxFailures,        \* bound: saves and publications that fail
    MaxRestarts,        \* bound: restarts of the process
    None                \* no run, no record

Run == 1..MaxRuns
Record == [task : Tasks, scope : Scopes, run : Run]

\* A run under way, and what its promise will be settled with.
Flight == [task : Tasks, scope : Scopes, lane : {"REQUEST", "LEASE"},
           phase : {"POOL", "PUBLISHING"}, result : Record \cup {None}]

Waiting == [state : {"WAITING"}, task : Tasks, scope : Scopes, run : Run]
Answered == [state : {"ANSWERED"}, task : Tasks, scope : Scopes, record : Record]
Request == [state : {"NEW", "ERROR"}] \cup Waiting \cup Answered

RetentionAssumption == Retention \in Nat \ {0}
TasksAssumption == LeaseTasks \cup RequestTasks \subseteq Tasks
ScopesAssumption == LeaseScope \in Scopes
NoneAssumption == None \notin Record

VARIABLES
    runs,           \* DiscoveryLedger.#runs
    rows,           \* discovery_runs
    pending,        \* pendingRuns
    flights,        \* runs under way
    requests,       \* requests and their answers
    started,        \* runs started so far
    committed,      \* records the table has ever held
    failures,       \* saves and publications that failed
    restarts        \* restarts so far

vars == <<runs, rows, pending, flights, requests, started, committed, failures, restarts>>

Init ==
    /\ runs = <<>> /\ rows = <<>>
    /\ pending = [t \in Tasks |-> None]
    /\ flights = [k \in {} |-> None]
    /\ requests = [r \in Requests |-> [state |-> "NEW"]]
    /\ started = 0
    /\ committed = {}
    /\ failures = 0 /\ restarts = 0

\* Deviation: one record more than the retention is kept.
KeepsOneMore(list) ==
    SubSeq(list, 1, IF Len(list) <= Retention THEN Len(list) ELSE Retention + 1)

Newest(list) == SubSeq(list, 1, IF Len(list) < Retention THEN Len(list) ELSE Retention)

\* The records of other tasks.
Others(list, t) == Only(list, {x \in ToSet(list) : x.task # t})

Of(list, t) == {list[i] : i \in {j \in DOMAIN list : list[j].task = t}}

\* findByTaskId: the ledger, then the table.
Found(t) == IF Of(runs, t) # {} THEN Of(runs, t) ELSE Of(rows, t)

Starts(t, s, l) ==
    /\ started < MaxRuns
    /\ started' = started + 1
    /\ flights' = [k \in DOMAIN flights \cup {started + 1} |->
                     IF k = started + 1
                     THEN [task |-> t, scope |-> s, lane |-> l, phase |-> "POOL",
                           result |-> None]
                     ELSE flights[k]]

-----------------------------------------------------------------------------
(* invokeDiscovery: replay, join or start.                                 *)

Answers(r, answer) == requests' = [requests EXCEPT ![r] = answer]

Replay(r, t, s) ==
    /\ \E record \in Found(t) :
         IF record.scope = s
         THEN Answers(r, [state |-> "ANSWERED", task |-> t, scope |-> s, record |-> record])
         ELSE Answers(r, [state |-> "ERROR"])
    /\ UNCHANGED <<pending, flights, started>>

\* Deviation: a pending run is joined whatever its scope.
JoinsAny(t, s) == TRUE

MayJoin(t, s) == \A k \in DOMAIN flights : k = pending[t] => flights[k].scope = s

Join(r, t, s) ==
    /\ Found(t) = {} /\ pending[t] # None
    /\ Answers(r, IF MayJoin(t, s)
                  THEN [state |-> "WAITING", task |-> t, scope |-> s, run |-> pending[t]]
                  ELSE [state |-> "ERROR"])
    /\ UNCHANGED <<pending, flights, started>>

\* Deviation: the pending run is registered after the pool has answered.
RegistersLater(t) == UNCHANGED pending

Registers(t) == pending' = [pending EXCEPT ![t] = started + 1]

StartRun(r, t, s) ==
    /\ Found(t) = {} /\ pending[t] = None
    /\ Starts(t, s, "REQUEST")
    /\ Registers(t)
    /\ Answers(r, [state |-> "WAITING", task |-> t, scope |-> s, run |-> started + 1])

Invoke(r, t, s) ==
    /\ requests[r].state = "NEW"
    /\ Replay(r, t, s) \/ Join(r, t, s) \/ StartRun(r, t, s)
    /\ UNCHANGED <<runs, rows, committed, failures, restarts>>

\* runFast: a record of the task is the answer; a pending run is not looked up.
RunFast(t) ==
    /\ Found(t) = {}
    /\ \A k \in DOMAIN flights : flights[k].lane = "LEASE" => flights[k].task # t
    /\ Starts(t, LeaseScope, "LEASE")
    /\ UNCHANGED <<runs, rows, pending, requests, committed, failures, restarts>>

-----------------------------------------------------------------------------
(* DiscoveryLedger.record.                                                 *)

\* Deviation: a second run of the task takes the place of the first.
Replaced(record) ==
    Newest(<<record>> \o Others(rows, record.task))

\* ON CONFLICT(task_id) DO NOTHING, and the trim.
Inserted(record) ==
    IF Of(rows, record.task) = {} THEN Newest(<<record>> \o rows) ELSE rows

\* Deviation: the record of the run is kept in memory, whatever is stored.
RecordsItsOwn(record) ==
    runs' = Newest(<<record>> \o Others(runs, record.task))

\* The record that is stored goes to the front of the ledger.
Retains(record) ==
    \E stored \in Of(rows', record.task) :
       runs' = Newest(<<stored>> \o Others(runs, record.task))

Settles(k, record) ==
    flights' = IF flights[k].lane = "LEASE"
               THEN [j \in DOMAIN flights \ {k} |-> flights[j]]
               ELSE [flights EXCEPT ![k].phase = "PUBLISHING", ![k].result = record]

\* The save commits.  A row of another scope is found only then.
SaveRun(k) ==
    LET flight == flights[k]
        record == [task |-> flight.task, scope |-> flight.scope, run |-> k]
    IN  /\ flight.phase = "POOL"
        /\ rows' = Inserted(record)
        /\ committed' = committed \cup Range(rows')
        /\ \E stored \in Of(rows', record.task) :
             IF stored.scope = record.scope
             THEN Retains(record) /\ Settles(k, stored)
             ELSE UNCHANGED runs /\ Settles(k, None)
        /\ UNCHANGED failures

\* The pool has no answer, or the save is refused.
RunFails(k) ==
    /\ flights[k].phase = "POOL"
    /\ Settles(k, None)
    /\ UNCHANGED <<runs, rows, committed, failures>>

PoolAnswers(k) ==
    /\ SaveRun(k) \/ RunFails(k)
    /\ UNCHANGED <<pending, requests, started, restarts>>

-----------------------------------------------------------------------------
(* The projection is published, which may throw, and the promise settles.  *)

\* Deviation: a failed run leaves those who joined it without an answer.
AnswersPassed(k, result) ==
    requests' = [r \in Requests |->
        LET request == requests[r]
        IN  IF request.state = "WAITING" /\ request.run = k /\ result # None
            THEN [state |-> "ANSWERED", task |-> request.task, scope |-> request.scope,
                  record |-> result]
            ELSE request]

Answer(k, result) ==
    requests' = [r \in Requests |->
        LET request == requests[r]
        IN  IF request.state = "WAITING" /\ request.run = k
            THEN IF result = None
                 THEN [state |-> "ERROR"]
                 ELSE [state |-> "ANSWERED", task |-> request.task,
                       scope |-> request.scope, record |-> result]
            ELSE request]

\* Deviation: without finally, a failed run stays registered.
ReleasesPassed(t, result) ==
    pending' = IF result = None THEN pending ELSE [pending EXCEPT ![t] = None]

Releases(t, result) == pending' = [pending EXCEPT ![t] = None]

Publish(k) ==
    /\ flights[k].phase = "PUBLISHING"
    /\ \E failed \in {0, 1} :
         LET result == IF failed = 1 THEN None ELSE flights[k].result
         IN  /\ failures + failed <= MaxFailures
             /\ failures' = failures + failed
             /\ Answer(k, result)
             /\ Releases(flights[k].task, result)
    /\ flights' = [j \in DOMAIN flights \ {k} |-> flights[j]]
    /\ UNCHANGED <<runs, rows, started, committed, restarts>>

\* The process ends, and with it every run and request that waits.
Restart ==
    /\ restarts < MaxRestarts
    /\ restarts' = restarts + 1
    /\ runs' = rows
    /\ pending' = [t \in Tasks |-> None]
    /\ flights' = [k \in {} |-> None]
    /\ requests' = [r \in Requests |->
                      IF requests[r].state = "WAITING" THEN [state |-> "ERROR"] ELSE requests[r]]
    /\ UNCHANGED <<rows, started, committed, failures>>

Advance == \E k \in DOMAIN flights : PoolAnswers(k) \/ Publish(k)

Next ==
    \/ \E r \in Requests, t \in RequestTasks, s \in Scopes : Invoke(r, t, s)
    \/ \E t \in LeaseTasks : RunFast(t)
    \/ Advance
    \/ Restart

Spec == Init /\ [][Next]_vars

\* The workers of the pool have deadlines, and promises are settled.
FairSpec == Spec /\ WF_vars(Advance)

-----------------------------------------------------------------------------

\* Types: the variables, with ledger and table within the retention.
TypeOK ==
    /\ \A list \in {runs, rows} : list \in Seq(Record) /\ Len(list) <= Retention
    /\ pending \in [Tasks -> Run \cup {None}]
    /\ DOMAIN flights \subseteq Run /\ \A k \in DOMAIN flights : flights[k] \in Flight
    /\ requests \in [Requests -> Request]
    /\ started \in 0..MaxRuns
    /\ committed \subseteq Record
    /\ failures \in 0..MaxFailures
    /\ restarts \in 0..MaxRestarts

\* ARCHITECTURE.md: concurrent requests for one task share a run.
OneRunPerTask ==
    \A j, k \in DOMAIN flights :
        flights[j].task = flights[k].task /\ flights[j].lane = flights[k].lane => j = k

\* A request is answered with a record of its own task and scope, one that the
\* table has held.
AnswersBindScope ==
    \A r \in Requests : requests[r].state = "ANSWERED" =>
        /\ requests[r].record \in committed
        /\ requests[r].record.task = requests[r].task
        /\ requests[r].record.scope = requests[r].scope

\* The ledger shows nothing that was not stored, and what both retain for a task
\* is the same, though they may trim in different orders.
LedgerAgreesWithTable ==
    /\ Range(runs) \subseteq committed
    /\ \A i \in DOMAIN runs : Of(rows, runs[i].task) \subseteq {runs[i]}

\* The record of a task stays the one first stored until its row is trimmed.
StoredRunIsFinal ==
    [][\A i \in DOMAIN rows : Of(rows', rows[i].task) \subseteq {rows[i]}]_rows

\* A run ends and releases its task, so that a failed one can be repeated.
TaskIsReleased == \A t \in Tasks : pending[t] # None ~> pending[t] = None

\* Every request that waits is answered.
RequestsAreAnswered == \A r \in Requests :
    requests[r].state = "WAITING" ~> requests[r].state \in {"ANSWERED", "ERROR"}
=============================================================================
