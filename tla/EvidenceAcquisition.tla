------------------------- MODULE EvidenceAcquisition -------------------------
(***************************************************************************)
(* The scheduler that fetches the official documents evidence requirements *)
(* ask for (control-plane/src/evidence-acquisition-scheduler.ts).          *)
(* Requirements that accept the same documents share one scope and one job.*)
(* Every timer tick reconciles the jobs with the server's requirements,    *)
(* gives expired leases back and starts fetches for the jobs that are due; *)
(* a fetch ends later, in a callback that reads the job again.             *)
(*                                                                         *)
(* Times are relative to the present: wait is the time to the next         *)
(* attempt (0 or less when due, the oldest least), lease and fresh what is *)
(* left of a lease and of a capture's freshness, age the order of the last *)
(* saves (0 for a save at this instant).  Advance moves them all, so no    *)
(* clock needs a bound.  A job row and its copy in memory are written      *)
(* together and pruned by the same order: jobs stands for both.            *)
(***************************************************************************)
EXTENDS Integers, FiniteSets, Sequences, SequencesExt

CONSTANTS Jobs,             \* scopes, numbered in the order of their requirements
          Current,          \* the scopes whose evidence must stay current
          Tables,           \* fetch policies a build may have: a route or None each
          None,             \* no route, no capture
          Concurrency,      \* concurrencyLimit
          PerTick,          \* maxRequestsPerTick
          MaxAttempts,
          LeaseTime, RetryDelay, FreshFor,
          Retention,        \* jobs kept (retentionLimit)
          MaxRequirements,  \* MAX_REQUIREMENTS_PER_JOB
          MaxDemand,        \* bound: requirements the server has for each scope
          MaxRequests,      \* bound: jobs operators start or retry
          MaxRestarts       \* bound: restarts

AcquisitionAssumption ==
  /\ Jobs \subseteq Nat /\ IsFiniteSet(Jobs) /\ Current \subseteq Jobs
  /\ {Concurrency, PerTick, MaxAttempts, LeaseTime, RetryDelay, FreshFor,
      Retention, MaxRequirements} \subseteq Nat \ {0}
  /\ MaxDemand \in [Jobs -> Nat]
  /\ {MaxRequests, MaxRestarts} \subseteq Nat

VARIABLES jobs,      \* the retained jobs, in memory and in SQLite
          active,    \* #active: the fetches in flight and the job each leased
          table,     \* the policies of the running build
          demand,    \* how many requirements the server has for each scope
          requests,  \* jobs operators started or retried
          restarts,
          spent      \* history: fetches since a capture, a new route or a retry

vars == <<jobs, active, table, demand, requests, restarts, spent>>

Statuses == {"PENDING", "LEASED", "RETRY_WAIT", "CAPTURED", "STALE",
             "UNSUPPORTED", "EXHAUSTED"}
Runnable == {"PENDING", "RETRY_WAIT", "STALE"}
Min2(a, b) == IF a < b THEN a ELSE b
Max2(a, b) == IF a < b THEN b ELSE a

-----------------------------------------------------------------------------
(* Saving a job. *)

Newer(js, i, j) == \/ js[i].age < js[j].age
                   \/ js[i].age = js[j].age /\ i > j

\* #saveJob of every record of new: the row is written, the memory's copy
\* replaced, and both keep the Retention jobs written last.
Saved(js, new) ==
  LET all == [j \in DOMAIN new |-> [new[j] EXCEPT !.age = 0]] @@ js
  IN  IF Cardinality(DOMAIN all) <= Retention THEN all
      ELSE [j \in {j \in DOMAIN all :
                     Cardinality({i \in DOMAIN all : Newer(all, i, j)}) < Retention}
              |-> all[j]]

Only(j, job) == j :> job

-----------------------------------------------------------------------------
(* reconcile *)

\* A job whose route is chosen afresh: nothing fetched, nothing captured.
Rerouted(j, needs) ==
  [status |-> IF table[j] = None THEN "UNSUPPORTED" ELSE "PENDING",
   route |-> table[j], needs |-> needs, attempts |-> 0, wait |-> 0,
   lease |-> 0, capture |-> None, age |-> 0]

(* Deviation: a new route keeps the document fetched by the old one. *)
RouteChangedKeep(js, j, needs) ==
  Only(j, [Rerouted(j, needs) EXCEPT !.capture = js[j].capture])

\* The route changed: the policies of this build are not those of the job.
RouteChanged(js, j, needs) == Only(j, Rerouted(j, needs))

(* Deviation: the history's evidence follows the policies too. *)
MustRerouteAny(job, j) == job.route # table[j]

MustReroute(job, j) ==
  job.route # table[j] /\ (job.capture = None \/ j \in Current)

OutOfDate(job, j) ==
  job.status = "CAPTURED" /\ j \in Current /\ job.capture.fresh = 0

\* One scope of the requirements: a new job, a new route, a refresh that has
\* fallen due, or only more requirements.
ReconciledScope(js, j) ==
  LET needs == IF j \in DOMAIN js THEN Max2(js[j].needs, demand[j]) ELSE demand[j]
  IN  IF j \notin DOMAIN js THEN Saved(js, Only(j, Rerouted(j, needs)))
      ELSE IF MustReroute(js[j], j) THEN Saved(js, RouteChanged(js, j, needs))
      ELSE IF OutOfDate(js[j], j)
      THEN Saved(js, Only(j, [js[j] EXCEPT !.needs = needs, !.status = "STALE"]))
      ELSE IF needs # js[j].needs
      THEN Saved(js, Only(j, [js[j] EXCEPT !.needs = needs]))
      ELSE js

Demanded == {j \in Jobs : demand[j] > 0}
Overfull(j) == demand[j] > MaxRequirements

\* The first scope with too many requirements makes reconcile throw: the
\* scopes before it are saved, the others are not looked at.
Refused == \E j \in Demanded : Overfull(j)
Reached == {j \in Demanded : \A i \in Demanded : Overfull(i) => j < i}

InOrder == SetToSortSeq(Jobs, <)
ScopesReconciled ==
  FoldLeft(LAMBDA js, j : IF j \in Reached THEN ReconciledScope(js, j) ELSE js,
           jobs, InOrder)

(* Deviation: a failed attempt does not count against the budget. *)
GivenUncounted(job) ==
  [job EXCEPT !.status = "RETRY_WAIT", !.wait = RetryDelay * job.attempts,
              !.lease = 0]

\* A lease given back: the next attempt later each time, none after the last.
Given(job) ==
  [job EXCEPT !.status = IF job.attempts >= MaxAttempts THEN "EXHAUSTED"
                                                        ELSE "RETRY_WAIT",
              !.wait = IF job.attempts >= MaxAttempts THEN 0
                       ELSE RetryDelay * job.attempts,
              !.lease = 0]

(* Deviation: leases are given back without a look at the fetches in flight. *)
LeasesRecoveredActive(js) ==
  LET expired == {j \in DOMAIN js : js[j].status = "LEASED" /\ js[j].lease = 0}
  IN  Saved(js, [j \in expired |-> Given(js[j])])

(* Deviation: leases are never given back. *)
LeasesRecoveredNever(js) == js

\* #recoverExpiredLeases: a lease whose fetch is gone is given back when it
\* runs out.
LeasesRecovered(js) ==
  LET expired == {j \in DOMAIN js :
                    js[j].status = "LEASED" /\ js[j].lease = 0
                      /\ j \notin DOMAIN active}
  IN  Saved(js, [j \in expired |-> Given(js[j])])

Reconciled == IF Refused THEN ScopesReconciled ELSE LeasesRecovered(ScopesReconciled)

-----------------------------------------------------------------------------
(* The scheduler's steps. *)

NoJobs == [j \in {} |-> None]

Init == /\ jobs = NoJobs /\ active = NoJobs
        /\ table \in Tables
        /\ demand = [j \in Jobs |-> 0]
        /\ requests = 0 /\ restarts = 0
        /\ spent = [j \in Jobs |-> 0]

\* Research records ask for more evidence; what jobs already ask for is among
\* the server's requirements, so a scope's never become fewer.
Ask(j) == /\ demand[j] < MaxDemand[j]
          /\ demand' = [demand EXCEPT ![j] = @ + 1]
          /\ UNCHANGED <<jobs, active, table, requests, restarts, spent>>

\* The history after reconcile: a job given a new route starts again.
Restarted(j) == j \in DOMAIN jobs /\ j \in Reached /\ MustReroute(jobs[j], j)
Kept == [j \in Jobs |-> IF Restarted(j) THEN 0 ELSE spent[j]]

(* Deviation: a lease does not count the attempt it starts. *)
LeasedUncounted(job) ==
  [job EXCEPT !.status = "LEASED", !.lease = LeaseTime]

Leased(job) == [job EXCEPT !.status = "LEASED", !.attempts = @ + 1,
                           !.lease = LeaseTime]

\* #dispatch of the jobs in S: each is leased in the store, then fetched.
Dispatch(js, S) ==
  /\ jobs' = Saved(js, [j \in S |-> Leased(js[j])])
  /\ active' = [j \in DOMAIN active \cup S |->
                  IF j \in S THEN Leased(js[j]) ELSE active[j]]
  /\ spent' = [j \in Jobs |-> IF j \in S THEN Kept[j] + 1 ELSE Kept[j]]

Due(js) == {j \in DOMAIN js : js[j].status \in Runnable /\ js[j].wait <= 0
                                /\ j \notin DOMAIN active}

(* Deviation: fetches in flight take no slot. *)
AvailableEach == PerTick

Available == Max2(0, Min2(Concurrency - Cardinality(DOMAIN active), PerTick))

\* The jobs a tick may start: as many of those due longest as there is room
\* for (ties, which the code settles by creation time, in any order).
Chosen(js, S) ==
  /\ S \subseteq Due(js)
  /\ Cardinality(S) = Min2(Available, Cardinality(Due(js)))
  /\ \A i \in S, j \in Due(js) \ S : js[i].wait <= js[j].wait

Tick == /\ \/ /\ Refused
              /\ jobs' = Reconciled /\ spent' = Kept
              /\ UNCHANGED active
           \/ /\ ~Refused
              /\ \E js \in {Reconciled} : \E S \in SUBSET Due(js) :
                   Chosen(js, S) /\ Dispatch(js, S)
        /\ UNCHANGED <<table, demand, requests, restarts>>

\* runJob: an operator starts one job, whatever the number of slots.
RunJob(j) ==
  /\ requests < MaxRequests /\ requests' = requests + 1
  /\ \E js \in {Reconciled} :
       IF ~Refused /\ j \in DOMAIN js \ DOMAIN active /\ js[j].status \in Runnable
       THEN Dispatch(js, {j})
       ELSE jobs' = js /\ spent' = Kept /\ UNCHANGED active
  /\ UNCHANGED <<table, demand, restarts>>

\* reconcile on its own, as every projection of the server does it.
Reconcile == /\ jobs' = Reconciled /\ spent' = Kept
             /\ UNCHANGED <<active, table, demand, requests, restarts>>

RetryExhaustedJob(j) ==
  /\ requests < MaxRequests /\ requests' = requests + 1
  /\ j \in DOMAIN jobs /\ jobs[j].status = "EXHAUSTED"
  /\ jobs' = Saved(jobs, Only(j, [jobs[j] EXCEPT !.status = "PENDING",
                                                 !.attempts = 0, !.wait = 0]))
  /\ spent' = [spent EXCEPT ![j] = 0]
  /\ UNCHANGED <<active, table, demand, restarts>>

\* The job as the callback of a fetch finds it.
Found(j) == IF j \in DOMAIN jobs THEN jobs[j] ELSE active[j]
Landed(j) == active' = [i \in DOMAIN active \ {j} |-> active[i]]

Captured(j) ==
  [Found(j) EXCEPT !.status = "CAPTURED", !.attempts = 0, !.wait = 0, !.lease = 0,
    !.capture = [route |-> active[j].route,
                 fresh |-> IF j \in Current THEN FreshFor ELSE 0]]

\* The document arrived: job and capture are written in one transaction.
FetchSucceeds(j) ==
  /\ j \in DOMAIN active /\ Found(j).route = active[j].route
  /\ Landed(j)
  /\ jobs' = Saved(jobs, Only(j, Captured(j)))
  /\ spent' = [spent EXCEPT ![j] = 0]
  /\ UNCHANGED <<table, demand, requests, restarts>>

\* The fetch failed, timed out, or its capture could not be written.
FetchFails(j) ==
  /\ j \in DOMAIN active
  /\ Landed(j)
  /\ jobs' = Saved(jobs, Only(j, Given(Found(j))))
  /\ UNCHANGED <<table, demand, requests, restarts, spent>>

\* The fetch ended and the store took neither the capture nor the failure: the
\* job stays leased with nothing in flight.
FetchUnsaved(j) ==
  /\ j \in DOMAIN active
  /\ Landed(j)
  /\ UNCHANGED <<jobs, table, demand, requests, restarts, spent>>

\* The process stops, its fetches with it; another build may start on the rows.
Restart == /\ restarts < MaxRestarts
           /\ restarts' = restarts + 1
           /\ active' = NoJobs
           /\ table' \in Tables
           /\ UNCHANGED <<jobs, demand, requests, spent>>

-----------------------------------------------------------------------------
(* Time. *)

\* What is past keeps its order only: the job due longest has the least wait.
\* The others' next attempt is not read before it is set again.
Waiting(js) == {j \in DOMAIN js : js[j].status \in Runnable \cup {"CAPTURED"}}
WaitAfter(js, w) ==
  IF w > 0 THEN w - 1
  ELSE -Cardinality({js[j].wait : j \in Waiting(js)} \cap (w .. 0))
AgeAfter(js, a) == 1 + Cardinality({js[j].age : j \in DOMAIN js} \cap (0 .. a - 1))

Later(js, job) ==
  [job EXCEPT !.wait = IF job.status \in Runnable \cup {"CAPTURED"}
                       THEN WaitAfter(js, @) ELSE 0,
              !.age = AgeAfter(js, @),
              !.lease = Max2(0, @ - 1),
              !.capture = IF @ = None THEN None
                          ELSE [@ EXCEPT !.fresh = Max2(0, @ - 1)]]

Advance == /\ jobs' = [j \in DOMAIN jobs |-> Later(jobs, jobs[j])]
           /\ UNCHANGED <<active, table, demand, requests, restarts, spent>>

Next == \/ Tick \/ Reconcile \/ Restart \/ Advance
        \/ \E j \in Jobs : \/ Ask(j) \/ RunJob(j) \/ RetryExhaustedJob(j)
                           \/ FetchSucceeds(j) \/ FetchFails(j) \/ FetchUnsaved(j)

Spec == Init /\ [][Next]_vars

FetchEnds(j) == FetchSucceeds(j) \/ FetchFails(j) \/ FetchUnsaved(j)

\* The timer fires again and again, a fetch is aborted when its policy's time
\* is up, and time passes.
FairSpec == /\ Spec
            /\ WF_vars(Tick) /\ WF_vars(Advance)
            /\ \A j \in Jobs : WF_vars(FetchEnds(j))

-----------------------------------------------------------------------------
(* Properties. *)

\* Type invariant of the scheduler's state.
TypeOK ==
  /\ DOMAIN jobs \subseteq Jobs /\ Cardinality(DOMAIN jobs) <= Retention
  /\ DOMAIN active \subseteq Jobs
  /\ \A j \in DOMAIN jobs :
       /\ jobs[j].status \in Statuses
       /\ jobs[j].attempts \in 0 .. MaxAttempts
       /\ jobs[j].needs \in 1 .. MaxRequirements
       /\ jobs[j].wait \in -Cardinality(Jobs) .. RetryDelay * MaxAttempts
       /\ jobs[j].lease \in 0 .. LeaseTime
       /\ jobs[j].status \in {"CAPTURED", "STALE"} => jobs[j].capture # None
       /\ jobs[j].status = "UNSUPPORTED" <=> jobs[j].route = None
  /\ \A j \in Jobs : demand[j] \in 0 .. MaxDemand[j]
  /\ table \in Tables

\* While a fetch is in flight its job stays leased, on the route the fetch
\* took, however long the fetch lasts and whatever reconcile, operators and
\* the expiry of the lease do meanwhile: nothing else may start or settle it.
FetchIsLeased ==
  \A j \in DOMAIN active :
    /\ j \in DOMAIN jobs /\ jobs[j].status = "LEASED"
    /\ jobs[j].route = active[j].route

\* A retained capture was fetched on its job's present route, through every
\* change of policies at a restart: the constructor, which refuses to start on
\* a capture of another lineage, always starts.
CaptureHasItsRoute ==
  \A j \in DOMAIN jobs :
    jobs[j].capture # None => jobs[j].capture.route = jobs[j].route

\* Between captures, new routes and operators' retries a scope is fetched at
\* most MaxAttempts times, counting the fetches a crash cut off and those
\* whose end could not be saved; and it is given up only after that many.
BudgetIsBounded ==
  \A j \in Jobs :
    /\ spent[j] <= MaxAttempts
    /\ j \in DOMAIN jobs /\ jobs[j].status = "EXHAUSTED" => spent[j] = MaxAttempts

\* A tick never brings the fetches in flight above the limit, also when
\* operators have started more than the limit themselves.
TicksRespectTheLimit ==
  [][Tick => Cardinality(DOMAIN active')
               <= Max2(Cardinality(DOMAIN active), Concurrency)]_vars

\* Evidence captured for a historical requirement is never fetched again nor
\* replaced, whatever policies later builds have.
HistoryStays ==
  [][\A j \in DOMAIN jobs \ Current :
       jobs[j].capture # None =>
         /\ j \in DOMAIN jobs' /\ jobs'[j].capture = jobs[j].capture
         /\ jobs'[j].status = "CAPTURED" /\ j \notin DOMAIN active']_vars

Unsettled(j) ==
  /\ demand[j] > 0
  /\ j \notin DOMAIN jobs \/ jobs[j].status \in Runnable \cup {"LEASED"}
       \/ OutOfDate(jobs[j], j)

\* Evidence someone needs is fetched in the end, and fetched again when it is
\* no longer fresh: no scope waits for ever behind others, a crashed fetch or
\* a lease nobody holds (it is captured, given up or found unsupported).
DemandIsSettled == \A j \in Jobs : Unsettled(j) ~> ~Unsettled(j)
=============================================================================
