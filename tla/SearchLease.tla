----------------------------- MODULE SearchLease -----------------------------
(***************************************************************************)
(* The search-lease scheduler (control-plane/src/search-lease-scheduler.ts)*)
(* A lease runs a cheap fast lane once; if that finds a candidate with a   *)
(* novel signature, a deep lane investigates it, queued behind a limit of  *)
(* its own, with a budget of attempts.  The process may crash between any  *)
(* two writes of the store.                                                *)
(*                                                                         *)
(* JavaScript runs one piece of code at a time.  Between two awaits the    *)
(* scheduler persists several records in a row; todo holds the leases such *)
(* a piece of code has still to deal with, and only a crash comes between. *)
(***************************************************************************)
EXTENDS LeaseStore

CONSTANTS
  FastLimit,     \* concurrencyLimit
  DeepLimit,     \* deepConcurrencyLimit
  DeepGate,      \* values that deepEnabled() may take at run time
  MayEnrich,     \* whether enrichPrices is configured and may be needed
  MaxCrashes     \* bound: crashes in a behaviour

ASSUME SchedulerAssumption ==
  /\ FastLimit \in Nat \ {0} /\ DeepLimit \in Nat \ {0}
  /\ DeepGate \subseteq BOOLEAN /\ MayEnrich \in BOOLEAN /\ MaxCrashes \in Nat

VARIABLES
  fast,          \* lease -> what its #execute is waiting for
  task,          \* lease -> its place in #activeDeep and #queuedDeep
  race,          \* lease -> the deep lanes a queued lease waits for one of
  todo,          \* leases the running piece of code has still to deal with
  deepEnabled,   \* deepEnabled()
  known,         \* keys of #corpora
  crashes,
  \* History, which no action reads: what a lookup missed, what was set aside.
  overlooked,    \* lease -> leases of its signature that DuplicateOf did not see
  halted         \* unfinished leases this process has given up

procVars == <<fast, task, race, todo, deepEnabled, known>>
historyVars == <<overlooked, halted>>
leaseVars == <<storeVars, procVars, crashes, historyVars>>

Idle == [at |-> "IDLE", signature |-> None, duplicateOf |-> None]
RunningFast == [Idle EXCEPT !.at = "FAST"]

LeaseTypeOK ==
  /\ StoreTypeOK
  /\ fast \in [Lease -> [at : {"IDLE", "FAST", "ENRICHING"},
                         signature : Signature \cup {None},
                         duplicateOf : Lease \cup {None}]]
  /\ task \in [Lease -> {"NONE", "QUEUED", "WOKEN", "RUNNING"}]
  /\ race \in [Lease -> SUBSET Lease]
  /\ todo \in Seq({l \in Lease : record[l].deep \in {"PENDING", "RUNNING", "FAILED"}})
  /\ deepEnabled \in BOOLEAN /\ known \subseteq Snapshot
  /\ crashes \in 0..MaxCrashes
  /\ overlooked \in [Lease -> SUBSET Lease] /\ halted \subseteq Lease

LeaseInit ==
  /\ StoreInit
  /\ fast = [l \in Lease |-> Idle]
  /\ task = [l \in Lease |-> "NONE"]
  /\ race = [l \in Lease |-> {}]
  /\ todo = <<>> /\ deepEnabled \in DeepGate /\ known = {} /\ crashes = 0
  /\ overlooked = [l \in Lease |-> {}] /\ halted = {}

-----------------------------------------------------------------------------
(* Helpers *)

Quiet == todo = <<>>

ActiveFast == {l \in Lease : fast[l].at # "IDLE"}
ActiveDeep == {l \in Lease : task[l] = "RUNNING"}

Held(l) == l \in Range(memory)

\* #activeNovelty: the lease whose deep lane investigates the signature.
Holder(s) == {l \in ActiveDeep : record[l].signature = s}

\* Deviation: candidates are never compared.
NeverDuplicate(l, s) == None

\* The lease whose signature l's candidate repeats, as seen now.
DuplicateOf(l, s) ==
  LET same == Only(memory, {k \in Lease : /\ k # l /\ record[k].status = "PASS"
                                          /\ record[k].signature = s})
  IN IF same # <<>> THEN Head(same)
     ELSE IF Holder(s) # {} THEN CHOOSE k \in Holder(s) : TRUE
     ELSE None

\* Leases with signature s that such a lookup does not see: their candidate is
\* not recorded while prices are fetched, or the list has forgotten them.
Unseen(l, s) ==
  {k \in Lease \ {l} :
     \/ fast[k].at = "ENRICHING" /\ fast[k].signature = s
     \/ ~Held(k) /\ record[k].signature = s}

PassRecord(deep, s, duplicate) ==
  [status |-> "PASS", deep |-> deep, attempts |-> <<>>, signature |-> s,
   duplicateOf |-> duplicate]

\* Deviation: the attempt stays open when the stage ends.
StageOnly(r, status) == [r EXCEPT !.deep = status]

LastAttempt(r, status) ==
  [r EXCEPT !.deep = status, !.attempts[Len(r.attempts)] = status]

-----------------------------------------------------------------------------
(* The fast lane *)

\* begin: issues a lease or resumes an issued one.
Begin(l) ==
  /\ Quiet /\ fast[l] = Idle
  /\ Cardinality(ActiveFast) < FastLimit
  /\ \/ /\ Held(l) /\ record[l].status = "ISSUED"
        /\ UNCHANGED <<storeVars, known>>
     \/ /\ ~Held(l)
        /\ Persist(l, IssuedRecord, {SnapshotOf[l]})
        /\ known' = known \cup {SnapshotOf[l]}
  /\ fast' = [fast EXCEPT ![l] = RunningFast]
  /\ UNCHANGED <<task, race, todo, deepEnabled, crashes, historyVars>>

\* begin of a lease the list has forgotten and the store has not: the corpus is
\* saved, then saveSearchLeaseRecord throws.
BeginRefused(l) ==
  /\ Quiet /\ fast[l] = Idle
  /\ Cardinality(ActiveFast) < FastLimit
  /\ ~Held(l) /\ ~CanSave(l, IssuedRecord)
  /\ corpora' = corpora \cup {SnapshotOf[l]}
  /\ known' = known \cup {SnapshotOf[l]}
  /\ UNCHANGED <<record, rows, memory, fast, task, race, todo, deepEnabled, crashes,
                 historyVars>>

\* The checkpoint of #execute: candidate s, the duplicate found before enrichment.
Checkpoint(l, s, duplicate, blocked) ==
  LET r == IF s = None \/ blocked THEN PassRecord("NOT_RUN", None, None)
           ELSE IF duplicate # None THEN PassRecord("NOT_RUN", s, duplicate)
           ELSE IF ~deepEnabled THEN PassRecord("NOT_RUN", s, None)
           ELSE PassRecord("PENDING", s, None)
  IN /\ Persist(l, r, {})
     /\ fast' = [fast EXCEPT ![l] = Idle]
     /\ todo' = IF r.deep = "PENDING" THEN <<l>> ELSE <<>>
     /\ UNCHANGED <<task, race, deepEnabled, known, crashes>>

\* runFast resolves with candidate s, or none.
FastReturns(l, s) ==
  /\ Quiet /\ fast[l].at = "FAST"
  /\ LET duplicate == IF s = None THEN None ELSE DuplicateOf(l, s)
         missed == IF s = None \/ duplicate # None THEN {} ELSE Unseen(l, s)
     IN
     /\ \/ \E blocked \in BOOLEAN : Checkpoint(l, s, duplicate, blocked)
        \/ /\ MayEnrich /\ s # None
           /\ fast' = [fast EXCEPT ![l] =
                [at |-> "ENRICHING", signature |-> s, duplicateOf |-> duplicate]]
           /\ UNCHANGED <<storeVars, task, race, todo, deepEnabled, known, crashes>>
     /\ overlooked' = [k \in Lease |-> IF k = l THEN missed ELSE overlooked[k] \ {l}]
  /\ UNCHANGED halted

\* enrichPrices resolves; the duplicate is still the one found before.
PricesReturn(l) ==
  /\ Quiet /\ fast[l].at = "ENRICHING"
  /\ \E blocked \in BOOLEAN :
       Checkpoint(l, fast[l].signature, fast[l].duplicateOf, blocked)
  /\ UNCHANGED historyVars

\* Something #execute waits for, or a check of it, throws.
FastFails(l) ==
  /\ Quiet /\ fast[l].at # "IDLE"
  /\ Persist(l, FailedRecord, {})
  /\ fast' = [fast EXCEPT ![l] = Idle]
  /\ UNCHANGED <<task, race, todo, deepEnabled, known, crashes, historyVars>>

\* Deviation: only leases issued by this process are looked at.
FailIssuedHere(l) ==
  /\ Quiet /\ Held(l) /\ record[l].status = "ISSUED" /\ fast[l] = Idle
  /\ SnapshotOf[l] \in known
  /\ Persist(l, FailedRecord, {})
  /\ UNCHANGED <<procVars, crashes, historyVars>>

\* failExpiredIssued and failIssuedForUnavailableSnapshots.
FailIssued(l) ==
  /\ Quiet /\ Held(l) /\ record[l].status = "ISSUED" /\ fast[l] = Idle
  /\ Persist(l, FailedRecord, {})
  /\ UNCHANGED <<procVars, crashes, historyVars>>

-----------------------------------------------------------------------------
(* The deep lane *)

\* Deviation: resumption grants one more attempt whatever the budget.
InterruptAndRetry ==
  /\ ~Quiet
  /\ LET l == Head(todo) IN
     /\ record[l].deep = "RUNNING"
     /\ Persist(l, LastAttempt(record[l], "FAILED"), {})
     /\ UNCHANGED <<procVars, crashes, historyVars>>

\* resumeDeepWork finds an attempt that a crash interrupted.
Interrupt ==
  /\ ~Quiet
  /\ LET l == Head(todo) IN
     /\ record[l].deep = "RUNNING"
     /\ Persist(l, LastAttempt(record[l], "FAILED"), {})
     /\ todo' = IF Len(record[l].attempts) >= MaxAttempts THEN Tail(todo) ELSE todo
     /\ UNCHANGED <<fast, task, race, deepEnabled, known, crashes, historyVars>>

\* resumeDeepWork and retryDeep make a failed stage pending again.
MakePending ==
  /\ ~Quiet
  /\ LET l == Head(todo) IN
     /\ record[l].deep = "FAILED"
     /\ Persist(l, [record[l] EXCEPT !.deep = "PENDING"], {})
     /\ UNCHANGED <<procVars, crashes, historyVars>>

\* #launchDeep of a pending lease.
Enqueue(l) ==
  /\ deepEnabled /\ Cardinality(ActiveDeep) >= DeepLimit
  /\ task' = [task EXCEPT ![l] = "QUEUED"]
  /\ race' = [race EXCEPT ![l] = ActiveDeep]
  /\ todo' = Tail(todo)
  /\ UNCHANGED <<storeVars, halted>>

\* #executeDeep up to the await of runDeep.
RunDeep(l) ==
  /\ deepEnabled /\ Cardinality(ActiveDeep) < DeepLimit
  /\ Len(record[l].attempts) < MaxAttempts
  /\ Holder(record[l].signature) \subseteq {l}
  /\ Persist(l, [record[l] EXCEPT !.deep = "RUNNING",
                                  !.attempts = Append(@, "RUNNING")], {})
  /\ task' = [task EXCEPT ![l] = "RUNNING"]
  /\ todo' = Tail(todo)
  /\ UNCHANGED <<race, halted>>

\* The signature is being investigated: the lease becomes a duplicate.  If the
\* store refuses, the exception also ends the loop of resumeDeepWork.
BecomeDuplicate(l) ==
  /\ deepEnabled /\ Cardinality(ActiveDeep) < DeepLimit
  /\ \E k \in Holder(record[l].signature) \ {l} :
       LET r == PassRecord("NOT_RUN", record[l].signature, k) IN
       \/ Persist(l, r, {}) /\ todo' = Tail(todo) /\ UNCHANGED halted
       \/ /\ ~CanSave(l, r) /\ UNCHANGED storeVars
          /\ todo' = <<>> /\ halted' = halted \cup Range(todo)
  /\ UNCHANGED <<task, race>>

\* The promise of #launchDeep is rejected at once.
LaunchRejected ==
  /\ ~deepEnabled
  /\ todo' = Tail(todo) /\ halted' = halted \cup {Head(todo)}
  /\ UNCHANGED <<storeVars, task, race>>

LaunchDeep ==
  /\ ~Quiet
  /\ record[Head(todo)].deep = "PENDING"
  /\ \/ Enqueue(Head(todo)) \/ RunDeep(Head(todo))
     \/ BecomeDuplicate(Head(todo)) \/ LaunchRejected
  /\ UNCHANGED <<fast, deepEnabled, known, crashes, overlooked>>

\* Deviation: a failed lane wakes nobody.
DeepReturnsQuietly(l, status) ==
  /\ Quiet /\ task[l] = "RUNNING"
  /\ Persist(l, LastAttempt(record[l], status), {})
  /\ task' = [k \in Lease |-> IF k = l THEN "NONE"
                              ELSE IF l \in race[k] /\ status = "PASS" THEN "WOKEN"
                              ELSE task[k]]
  /\ race' = [k \in Lease |-> IF l \in race[k] THEN {} ELSE race[k]]
  /\ UNCHANGED <<fast, todo, deepEnabled, known, crashes, historyVars>>

\* runDeep resolves or rejects; whoever raced for the slot is woken.
DeepReturns(l, status) ==
  /\ Quiet /\ task[l] = "RUNNING"
  /\ Persist(l, LastAttempt(record[l], status), {})
  /\ task' = [k \in Lease |-> IF k = l THEN "NONE"
                              ELSE IF l \in race[k] THEN "WOKEN" ELSE task[k]]
  /\ race' = [k \in Lease |-> IF l \in race[k] THEN {} ELSE race[k]]
  /\ UNCHANGED <<fast, todo, deepEnabled, known, crashes, historyVars>>

\* Deviation: the woken lease takes the slot without looking again.
WakeIntoSlot(l) ==
  /\ Quiet /\ task[l] = "WOKEN"
  /\ Persist(l, [record[l] EXCEPT !.deep = "RUNNING",
                                  !.attempts = Append(@, "RUNNING")], {})
  /\ task' = [task EXCEPT ![l] = "RUNNING"]
  /\ UNCHANGED <<fast, race, todo, deepEnabled, known, crashes, historyVars>>

\* A woken lease leaves the queue and launches again.
Wake(l) ==
  /\ Quiet /\ task[l] = "WOKEN"
  /\ task' = [task EXCEPT ![l] = "NONE"]
  /\ todo' = <<l>>
  /\ UNCHANGED <<storeVars, fast, race, deepEnabled, known, crashes, historyVars>>

RetryDeep(l) ==
  /\ Quiet /\ deepEnabled /\ task[l] = "NONE" /\ Held(l)
  /\ record[l].status = "PASS" /\ record[l].deep = "FAILED"
  /\ Len(record[l].attempts) < MaxAttempts
  /\ SnapshotOf[l] \in known \cup corpora
  /\ todo' = <<l>>
  /\ UNCHANGED <<storeVars, fast, task, race, deepEnabled, known, crashes, historyVars>>

-----------------------------------------------------------------------------
(* The process *)

\* Deviation: finished leases are resumed too.
ResumesAll(l) == record[l].status = "PASS" /\ SnapshotOf[l] \in corpora

\* Deviation: only what was queued is resumed.
ResumesPending(l) == record[l].deep = "PENDING" /\ SnapshotOf[l] \in corpora

Unfinished(l) == record[l].deep \in {"PENDING", "RUNNING"}

\* What resumeDeepWork looks at, given the lease was loaded.
Resumes(l) ==
  /\ record[l].status = "PASS" /\ Unfinished(l)
  /\ SnapshotOf[l] \in corpora

\* A crash, and the restart: the store is loaded and resumeDeepWork runs.
CrashAndRestart ==
  /\ crashes < MaxCrashes
  /\ crashes' = crashes + 1
  /\ memory' = Loaded
  /\ record' = [l \in Lease |-> IF l \in Range(rows) THEN record[l] ELSE NoRecord]
  /\ fast' = [l \in Lease |-> Idle]
  /\ task' = [l \in Lease |-> "NONE"]
  /\ race' = [l \in Lease |-> {}]
  /\ known' = {}
  /\ todo' = IF deepEnabled THEN Only(Loaded, {l \in Lease : Resumes(l)}) ELSE <<>>
  /\ halted' = {l \in Lease : Unfinished(l) /\ (deepEnabled => SnapshotOf[l] \notin corpora)}
  /\ UNCHANGED <<rows, corpora, deepEnabled, overlooked>>

\* An operator switches the automation.
SwitchDeep ==
  /\ Quiet
  /\ deepEnabled' \in DeepGate \ {deepEnabled}
  /\ UNCHANGED <<storeVars, fast, task, race, todo, known, crashes, historyVars>>

LeaseNext ==
  \/ \E l \in Lease :
       \/ Begin(l) \/ BeginRefused(l)
       \/ \E s \in Signature \cup {None} : FastReturns(l, s)
       \/ PricesReturn(l) \/ FastFails(l) \/ FailIssued(l)
       \/ \E status \in {"PASS", "FAILED"} : DeepReturns(l, status)
       \/ Wake(l) \/ RetryDeep(l)
  \/ Interrupt \/ MakePending \/ LaunchDeep
  \/ CrashAndRestart \/ SwitchDeep

\* Every lane has a deadline, code that was started runs on, woken promises run
\* and the issue scheduler fails expired leases at every tick.
LeaseFairness ==
  /\ WF_leaseVars(Interrupt \/ MakePending \/ LaunchDeep)
  /\ \A l \in Lease :
       /\ WF_leaseVars(\/ PricesReturn(l) \/ FastFails(l)
                       \/ \E s \in Signature \cup {None} : FastReturns(l, s))
       /\ WF_leaseVars(\E status \in {"PASS", "FAILED"} : DeepReturns(l, status))
       /\ WF_leaseVars(Wake(l))
       /\ WF_leaseVars(FailIssued(l))

LeaseSpec == LeaseInit /\ [][LeaseNext]_leaseVars
LeaseFairSpec == LeaseSpec /\ LeaseFairness

-----------------------------------------------------------------------------
(* Properties *)

\* What this process investigates is RUNNING in the store and in the list, with
\* the one running attempt last, and nobody else records a running attempt but a
\* lease whose stage is RUNNING: crashes and restarts leave no second one.
RunningIsRecorded ==
  \A l \in Lease :
    /\ task[l] = "RUNNING" =>
         record[l].deep = "RUNNING" /\ Held(l) /\ l \in Range(rows)
    /\ \A i \in 1..Len(record[l].attempts) :
         record[l].attempts[i] = "RUNNING" =>
           record[l].deep = "RUNNING" /\ i = Len(record[l].attempts)

\* A pending stage has an attempt left, over all interruptions and retries: the
\* budget check of #executeDeep never throws at a lease that waited for its slot.
PendingHasBudget ==
  \A l \in Lease :
    record[l].deep = "PENDING" => Len(record[l].attempts) < MaxAttempts

\* The deep lane's slots are never exceeded, however many leases wake at once,
\* and no two of them investigate the same signature at the same time.
SlotsAreRespected ==
  /\ Cardinality(ActiveDeep) <= DeepLimit
  /\ Cardinality(ActiveFast) <= FastLimit
  /\ \A k, l \in ActiveDeep :
       record[k].signature = record[l].signature => k = l

\* A lease whose fast lane passed never runs it again while the store has it.
FastLaneRunsOnce ==
  [][\A l \in Lease :
       record[l].status \in {"PASS", "FAILED"} /\ l \in Range(rows)
         => fast'[l] = Idle]_leaseVars

\* Unfinished deep work is on its way: a RUNNING stage is investigated by this
\* process, a PENDING one is woken or waits for a lane that runs.  A lease is left
\* behind only if a restart did not load it or did not find its corpus, if the
\* automation was off when it was its turn, or if the store refused to link it to
\* the lease that investigates its signature - and with it those after it.
UnfinishedIsScheduled ==
  Quiet => \A l \in Lease : Held(l) /\ l \notin halted =>
    /\ record[l].deep = "RUNNING" => task[l] = "RUNNING"
    /\ record[l].deep = "PENDING" =>
         \/ task[l] = "WOKEN"
         \/ task[l] = "QUEUED" /\ race[l] \cap ActiveDeep # {}

Repeats(k, l) ==
  /\ k # l /\ record[k].signature # None /\ record[k].signature = record[l].signature
  /\ record[k].attempts # <<>> /\ record[l].attempts # <<>>

\* docs/design/ai-discovery-and-control-plane.md: "A prior signature creates a
\* duplicate link and consumes no pi call."
OneInvestigationPerSignature == \A k, l \in Lease : ~Repeats(k, l)

\* What holds of it: a signature is investigated for a second lease only if the
\* later lookup could not see the first, which had found its candidate and was
\* waiting for prices, or which the list had forgotten.  Waiting for a slot,
\* retries, crashes and the automation's switch never repeat one.
OnlyUnseenRepeats ==
  \A k, l \in Lease : Repeats(k, l) => k \in overlooked[l] \/ l \in overlooked[k]

\* A repeated lease on the same snapshot "restores the terminal result": the
\* scheduler has every result that the store would not let it issue again.
StoredLeaseIsKnown ==
  \A l \in Lease : l \in Range(rows) /\ record[l].status # "ISSUED" => Held(l)

\* What must be resumed after a restart can be: its corpus is retained.
UnresolvedHasCorpus ==
  \A l \in Range(rows) : Unresolved(record[l]) => SnapshotOf[l] \in corpora

\* Every deep stage that was scheduled ends, and every issued lease is closed,
\* also across crashes.
DeepWorkEnds ==
  \A l \in Lease :
    record[l].deep \in {"PENDING", "RUNNING"} ~> record[l].deep \in {"PASS", "FAILED"}

IssuedIsClosed ==
  \A l \in Lease : record[l].status = "ISSUED" ~> record[l].status \in {"PASS", "FAILED"}
=============================================================================
