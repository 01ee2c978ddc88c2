------------------------ MODULE SearchIssueScheduler ------------------------
(***************************************************************************)
(* The scheduler of search issues (packages/control-plane/src/             *)
(* search-issue-scheduler.ts) with the ticks, requests and refreshes of    *)
(* server.ts that drive it.  An issue is searched by one lease for each    *)
(* corpus snapshot; the lease scheduler, modelled in detail in SearchLease,*)
(* is seen here as what it promises: a lease is ISSUED, runs, and becomes  *)
(* PASS or FAILED, or its promise rejects and it stays ISSUED.             *)
(*                                                                         *)
(* A tick, a completion and a request run without interruption; a tick is  *)
(* split into the leases it closes and the issues it dispatches, and       *)
(* phase keeps everything else out.  A promise that a tick leaves without  *)
(* a handler ends the process when it rejects.  Every save writes the      *)
(* table before the list in memory, so one variable stands for both.       *)
(***************************************************************************)
EXTENDS Naturals, Sequences, SequencesExt, FiniteSets

CONSTANTS
    Issues,             \* issue ids, in the order of localeCompare
    Seeded,             \* issues that exist from the start
    Priority,           \* priority of each issue
    Family,             \* family key of each issue
    Cadence,            \* cadenceMs in units of the clock
    ConcurrencyLimit,   \* concurrencyLimit
    FamilyLimit,        \* familyConcurrencyLimit
    LeaseLimit,         \* concurrencyLimit of the lease scheduler
    MaxSnapshot,        \* bound: corpus snapshots
    MaxClock,           \* bound: the last time
    MaxFailures,        \* bound: saves that fail and leases that reject
    MaxRestarts,        \* bound: restarts of the process
    CorpusReturns,      \* whether a restart may bring back an earlier corpus
    MaxForeign,         \* bound: slots that leases of no issue take
    Requests,           \* what the operator asks for besides runs
    None                \* no issue, no lease

Snapshot == 1..MaxSnapshot
Lease == Issues \X Snapshot

Issue == [enabled : BOOLEAN, next : Nat, last : Lease \cup {None},
          runs : Nat, passed : Nat, failed : Nat]

ASSUME LimitAssumption == ConcurrencyLimit \in 1..8 /\ FamilyLimit \in 1..4
ASSUME LeaseLimitAssumption == LeaseLimit \in Nat \ {0}
ASSUME IssueAssumption ==
    /\ Issues \subseteq Nat /\ IsFiniteSet(Issues) /\ Seeded \subseteq Issues
    /\ Priority \in [Issues -> 1..5]
ASSUME BoundAssumption ==
    /\ Cadence \in Nat /\ MaxClock \in Nat /\ MaxForeign \in Nat
    /\ MaxSnapshot \in Nat \ {0}
ASSUME RequestAssumption == Requests \subseteq {"CREATE", "PAUSE", "READ"}
ASSUME NoneAssumption == None \notin Lease /\ None \notin Issue

VARIABLES
    clock,          \* the time
    snapshot,       \* the current corpus snapshot
    newest,         \* the newest snapshot so far
    refreshing,     \* catalogRefreshScheduler.refreshing
    issues,         \* #issues
    active,         \* #active: the lease that each issue waits for
    owner,          \* who holds the promise of an active issue
    leases,         \* status of each lease in the lease scheduler
    running,        \* its #active
    foreign,        \* slots of the lease scheduler that others hold
    inbox,          \* #notifications, by lease
    phase,          \* where the tick is
    due,            \* leases the tick has to record, then issues it has to dispatch
    counted,        \* how often each lease was counted as a run
    failures,       \* failed saves and rejected leases so far
    restarts        \* restarts so far

desk == <<issues, active, owner, inbox, counted>>
lower == <<leases, running, foreign>>
corpus == <<snapshot, newest, refreshing>>
vars == <<clock, corpus, desk, lower, phase, due, failures, restarts>>

NewIssue == [enabled |-> TRUE, next |-> 0, last |-> None, runs |-> 0, passed |-> 0,
             failed |-> 0]

Init ==
    /\ clock = 0 /\ snapshot = 1 /\ newest = 1 /\ refreshing = FALSE
    /\ issues = [i \in Issues |-> IF i \in Seeded THEN NewIssue ELSE None]
    /\ active = [i \in Issues |-> None]
    /\ owner = [i \in Issues |-> "SCHEDULE"]
    /\ leases = [l \in Lease |-> "NONE"]
    /\ running = {} /\ foreign = 0
    /\ inbox = [l \in Lease |-> "NONE"]
    /\ phase = "IDLE" /\ due = <<>>
    /\ counted = [l \in Lease |-> 0]
    /\ failures = 0 /\ restarts = 0

Exists(i) == issues[i] # None
Terminal(l) == leases[l] \in {"PASS", "FAILED", "EXPIRED"}
Active == {i \in Issues : active[i] # None}
Later(t) == IF t > MaxClock THEN MaxClock ELSE t

Fails == failures < MaxFailures /\ failures' = failures + 1

\* The process ends: what waited is gone, what was issued is not.  It starts
\* with the last stored catalogs, also of sources that failed since.
ProcessEnds ==
    /\ restarts < MaxRestarts
    /\ restarts' = restarts + 1
    /\ active' = [i \in Issues |-> None]
    /\ owner' = [i \in Issues |-> "SCHEDULE"]
    /\ running' = {} /\ foreign' = 0
    /\ phase' = "IDLE" /\ due' = <<>>
    /\ refreshing' = FALSE
    /\ snapshot' \in IF CorpusReturns THEN 1..snapshot ELSE {snapshot}

-----------------------------------------------------------------------------
(* #complete                                                               *)

IssuedOf(i) == {l \in Lease : l[1] = i /\ leases[l] = "ISSUED"}

\* Deviation: the lease of the last run is counted again.
CountsAgain(i, l) == leases[l] # "EXPIRED"

\* A lease is counted unless it was the last one, or expired before it ran.
Counts(i, l) == issues[i].last # l /\ leases[l] # "EXPIRED"

Recorded(i, l) ==
    LET count == IF Counts(i, l) THEN 1 ELSE 0
    IN  [enabled |-> issues[i].enabled, next |-> issues[i].next, last |-> l,
         runs |-> issues[i].runs + count,
         passed |-> issues[i].passed + (IF leases[l] = "PASS" THEN count ELSE 0),
         failed |-> issues[i].failed + (IF leases[l] = "FAILED" THEN count ELSE 0)]

\* Deviation: a notification that is there is saved again.
NotifiesAgain(l) == inbox' = [inbox EXCEPT ![l] = "UNREAD"]

\* #notify: of a failure or a candidate; one with the same identity is kept.
Notify(l) == inbox' = [inbox EXCEPT ![l] = IF @ = "NONE" THEN "UNREAD" ELSE @]

MayNotify(l) ==
    IF leases[l] = "EXPIRED"
    THEN UNCHANGED inbox
    ELSE Notify(l) \/ (leases[l] = "PASS" /\ UNCHANGED inbox)

Count(i, l) ==
    counted' = IF Counts(i, l) THEN [counted EXCEPT ![l] = @ + 1] ELSE counted

\* The issue and the notification are saved; an abandoned lease makes it due.
Complete(i, l, next) ==
    /\ issues' = [issues EXCEPT ![i] = [Recorded(i, l) EXCEPT !.next = next]]
    /\ Count(i, l)
    /\ MayNotify(l)

\* The save of the issue or that of its notification is refused.
CompleteFails(i, l) ==
    /\ \/ UNCHANGED <<issues, counted>>
       \/ /\ issues' = [issues EXCEPT ![i] = Recorded(i, l)]
          /\ Count(i, l)
    /\ UNCHANGED inbox

-----------------------------------------------------------------------------
(* #dispatch                                                               *)

InFamily(i) == {j \in Active : Family[j] = Family[i]}

\* Deviation: without the limits on active issues.
HasLease(i) == active[i] = None

MayDispatch(i) ==
    /\ active[i] = None
    /\ Cardinality(Active) < ConcurrencyLimit
    /\ Cardinality(InFamily(i)) < FamilyLimit

\* Deviation: an issued lease is not resumed.
CurrentLease(i) == <<i, snapshot>>

\* Deviation: a lease of any issue is resumed.
AnyLease(i) ==
    IF \E l \in Lease : leases[l] = "ISSUED"
    THEN CHOOSE l \in Lease : leases[l] = "ISSUED" ELSE <<i, snapshot>>

\* resumeIssued, or begin on the current snapshot.
LeaseFor(i) ==
    IF IssuedOf(i) # {} THEN CHOOSE l \in IssuedOf(i) : TRUE ELSE <<i, snapshot>>

SlotFree == Cardinality(running) + foreign < LeaseLimit

IsBusy(i) == ~Terminal(LeaseFor(i)) /\ LeaseFor(i) \notin running /\ ~SlotFree

\* The lease scheduler takes or replays the lease.
Launch(l) ==
    /\ leases' = IF Terminal(l) THEN leases ELSE [leases EXCEPT ![l] = "ISSUED"]
    /\ running' = IF Terminal(l) THEN running ELSE running \cup {l}
    /\ UNCHANGED foreign

Dispatch(i, who) ==
    /\ MayDispatch(i) /\ ~IsBusy(i)
    /\ Launch(LeaseFor(i))
    /\ issues' = [issues EXCEPT ![i].next = Later(clock + Cadence)]
    /\ active' = [active EXCEPT ![i] = LeaseFor(i)]
    /\ owner' = [owner EXCEPT ![i] = who]
    /\ UNCHANGED <<inbox, counted, failures>>

\* The save of the issue is refused when its lease has already begun.
DispatchFails(i) ==
    /\ MayDispatch(i) /\ ~IsBusy(i)
    /\ Fails
    /\ Launch(LeaseFor(i))
    /\ UNCHANGED desk

-----------------------------------------------------------------------------
(* tick: leases that expired are closed, then due issues are dispatched.   *)

\* Deviation: the leases of paused issues stay as they are.
OrphansOfEnabled == {l \in Lease : leases[l] = "ISSUED" /\ issues[l[1]].enabled} \ running

\* Issued leases that do not run.
Orphans == {l \in Lease : leases[l] = "ISSUED"} \ running

\* Those of them that have passed their deadline are closed.
Tick(expired) ==
    /\ phase = "IDLE" /\ ~refreshing
    /\ expired \subseteq Orphans
    /\ leases' = [l \in Lease |-> IF l \in expired THEN "EXPIRED" ELSE leases[l]]
    /\ due' = SetToSeq(expired)
    /\ phase' = "RECORD"
    /\ UNCHANGED <<clock, corpus, desk, running, foreign, failures, restarts>>

\* An issue whose lease was closed is due.  A refused save ends the tick.
RecordExpired ==
    /\ phase = "RECORD" /\ due # <<>>
    /\ LET l == Head(due)
       IN  \/ /\ Complete(l[1], l, clock)
              /\ due' = Tail(due) /\ UNCHANGED <<phase, failures>>
           \/ /\ CompleteFails(l[1], l) /\ Fails
              /\ due' = <<>> /\ phase' = "IDLE"
    /\ UNCHANGED <<clock, corpus, active, owner, lower, restarts>>

IsDue(i) ==
    /\ Exists(i) /\ active[i] = None
    /\ issues[i].enabled
    /\ issues[i].next <= clock \/ IssuedOf(i) # {}

Before(i, j) ==
    \/ Priority[i] > Priority[j]
    \/ Priority[i] = Priority[j] /\ \/ issues[i].next < issues[j].next
                                    \/ issues[i].next = issues[j].next /\ i < j

\* Due issues that find a place in their family.
Placed ==
    LET ready == {i \in Issues : IsDue(i)}
        ahead(i) == {j \in ready : Family[j] = Family[i] /\ j # i /\ Before(j, i)}
    IN  {i \in ready : Cardinality(ahead(i)) + Cardinality(InFamily(i)) < FamilyLimit}

\* The issues of S in order (there is one such sequence).
Rankings(S) ==
    {q \in [1..Cardinality(S) -> S] :
        \A j, k \in 1..Cardinality(S) : j < k => Before(q[j], q[k])}

Available == IF Cardinality(Active) < ConcurrencyLimit
             THEN ConcurrencyLimit - Cardinality(Active) ELSE 0

Select ==
    /\ phase = "RECORD" /\ due = <<>>
    /\ \E ranked \in Rankings(Placed) :
         due' = SubSeq(ranked, 1, IF Len(ranked) < Available THEN Len(ranked) ELSE Available)
    /\ phase' = IF due' = <<>> THEN "IDLE" ELSE "DISPATCH"
    /\ UNCHANGED <<clock, corpus, desk, lower, failures, restarts>>

\* A busy lease scheduler or a refused save ends the tick.
DispatchNext ==
    /\ phase = "DISPATCH"
    /\ \/ /\ Dispatch(Head(due), "SCHEDULE")
          /\ due' = Tail(due)
          /\ phase' = IF Tail(due) = <<>> THEN "IDLE" ELSE "DISPATCH"
       \/ /\ IsBusy(Head(due)) /\ UNCHANGED <<desk, lower, failures>>
          /\ phase' = "IDLE" /\ due' = <<>>
       \/ /\ DispatchFails(Head(due))
          /\ phase' = "IDLE" /\ due' = <<>>
    /\ UNCHANGED <<clock, corpus, restarts>>

-----------------------------------------------------------------------------
(* Requests of the operator                                                *)

RunNow(i) ==
    /\ phase = "IDLE" /\ Exists(i)
    /\ Dispatch(i, "OPERATOR") \/ DispatchFails(i)
    /\ UNCHANGED <<clock, corpus, phase, due, restarts>>

Create(i) ==
    /\ "CREATE" \in Requests
    /\ phase = "IDLE" /\ ~Exists(i)
    /\ issues' = [issues EXCEPT ![i] = [NewIssue EXCEPT !.next = clock]]
    /\ UNCHANGED <<clock, corpus, active, owner, inbox, counted, lower,
                   phase, due, failures, restarts>>

SetEnabled(i, enabled) ==
    /\ "PAUSE" \in Requests
    /\ phase = "IDLE" /\ Exists(i)
    /\ issues' = [issues EXCEPT ![i].enabled = enabled,
                                ![i].next = IF enabled THEN clock ELSE @]
    /\ UNCHANGED <<clock, corpus, active, owner, inbox, counted, lower,
                   phase, due, failures, restarts>>

Acknowledge(l) ==
    /\ "READ" \in Requests
    /\ phase = "IDLE" /\ inbox[l] = "UNREAD"
    /\ inbox' = [inbox EXCEPT ![l] = "READ"]
    /\ UNCHANGED <<clock, corpus, issues, active, owner, counted, lower,
                   phase, due, failures, restarts>>

-----------------------------------------------------------------------------
(* Leases end and the issues that wait for them are completed.             *)

LeaseEnds(l, status) ==
    /\ phase = "IDLE" /\ l \in running
    /\ leases' = [leases EXCEPT ![l] = status]
    /\ running' = running \ {l}
    /\ UNCHANGED <<clock, corpus, desk, foreign, phase, due, failures, restarts>>

\* The end of a lease could not be saved.  Only a request handles that, and
\* what follows the promise does not run.
LeaseRejects(l) ==
    /\ phase = "IDLE" /\ l \in running
    /\ Fails
    /\ IF \E i \in Active : active[i] = l /\ owner[i] = "OPERATOR"
       THEN /\ running' = running \ {l}
            /\ owner' = [i \in Issues |-> IF active[i] = l THEN "REJECTED" ELSE owner[i]]
            /\ UNCHANGED <<snapshot, refreshing, active, foreign, phase, due, restarts>>
       ELSE ProcessEnds
    /\ UNCHANGED <<clock, newest, issues, inbox, counted, leases>>

\* The issue is released before its completion is saved.
Release(i) == /\ active' = [active EXCEPT ![i] = None]
              /\ owner' = [owner EXCEPT ![i] = "SCHEDULE"]

Settle(i) ==
    /\ phase = "IDLE"
    /\ active[i] # None /\ owner[i] # "REJECTED" /\ Terminal(active[i])
    /\ \/ /\ Complete(i, active[i], issues[i].next)
          /\ Release(i)
          /\ UNCHANGED <<snapshot, refreshing, running, foreign, phase, due, failures, restarts>>
       \/ /\ Fails
          /\ CompleteFails(i, active[i])
          /\ IF owner[i] = "OPERATOR"
             THEN /\ Release(i)
                  /\ UNCHANGED <<snapshot, refreshing, running, foreign, phase, due, restarts>>
             ELSE ProcessEnds
    /\ UNCHANGED <<clock, newest, leases>>

-----------------------------------------------------------------------------
(* The rest of the process                                                 *)

TimePasses ==
    /\ phase = "IDLE" /\ clock < MaxClock
    /\ clock' = clock + 1
    /\ UNCHANGED <<corpus, desk, lower, phase, due, failures, restarts>>

RefreshStarts ==
    /\ phase = "IDLE" /\ ~refreshing /\ newest < MaxSnapshot
    /\ refreshing' = TRUE
    /\ UNCHANGED <<clock, snapshot, newest, desk, lower, phase, due, failures, restarts>>

\* Each source that answers or fails makes a new corpus, which requests see at once.
SourceSettles ==
    /\ phase = "IDLE" /\ refreshing /\ newest < MaxSnapshot
    /\ newest' = newest + 1 /\ snapshot' = newest + 1
    /\ UNCHANGED <<clock, refreshing, desk, lower, phase, due, failures, restarts>>

RefreshEnds ==
    /\ phase = "IDLE" /\ refreshing
    /\ refreshing' = FALSE
    /\ UNCHANGED <<clock, snapshot, newest, desk, lower, phase, due, failures, restarts>>

\* Leases without an issue come and go.
OtherLeases(n) ==
    /\ phase = "IDLE"
    /\ n < foreign \/ (n = foreign + 1 /\ SlotFree)
    /\ foreign' = n
    /\ UNCHANGED <<clock, corpus, desk, leases, running, phase, due,
                   failures, restarts>>

Restart ==
    /\ ProcessEnds
    /\ UNCHANGED <<clock, newest, issues, inbox, counted, leases, failures>>

TickStep == \/ \E expired \in SUBSET Orphans : Tick(expired)
            \/ RecordExpired
            \/ Select
            \/ DispatchNext

Ends(l) == \E status \in {"PASS", "FAILED"} : LeaseEnds(l, status)

Next ==
    \/ TickStep
    \/ \E i \in Issues : \/ RunNow(i)
                         \/ Create(i)
                         \/ \E enabled \in BOOLEAN : SetEnabled(i, enabled)
                         \/ Settle(i)
    \/ \E l \in Lease : Acknowledge(l) \/ Ends(l) \/ LeaseRejects(l)
    \/ TimePasses
    \/ RefreshStarts
    \/ SourceSettles
    \/ RefreshEnds
    \/ \E n \in 0..MaxForeign : OtherLeases(n)
    \/ Restart

Spec == Init /\ [][Next]_vars

\* Ticks that find an orphan past its deadline.
Closes(l) == \E expired \in SUBSET Orphans : l \in expired /\ Tick(expired)

\* A tick runs to its end.  Timers fire, lanes have deadlines, promises are
\* settled and refreshes time out, each between two ticks: strong fairness.
Fairness ==
    /\ SF_vars(\E expired \in SUBSET Orphans : Tick(expired))
    /\ WF_vars(RecordExpired) /\ WF_vars(Select) /\ WF_vars(DispatchNext)
    /\ \A l \in Lease : SF_vars(Ends(l)) /\ SF_vars(Closes(l))
    /\ \A i \in Issues : SF_vars(Settle(i))
    /\ SF_vars(RefreshEnds) /\ SF_vars(TimePasses)

FairSpec == Spec /\ Fairness

-----------------------------------------------------------------------------

\* Types: the variables, an issue being active only if it exists.
TypeOK ==
    /\ clock \in 0..MaxClock /\ snapshot \in 1..newest
    /\ newest \in Snapshot /\ refreshing \in BOOLEAN
    /\ issues \in [Issues -> Issue \cup {None}]
    /\ \A i \in Issues : active[i] \in {None} \cup {l \in Lease : l[1] = i /\ Exists(i)}
    /\ owner \in [Issues -> {"OPERATOR", "SCHEDULE", "REJECTED"}]
    /\ leases \in [Lease -> {"NONE", "ISSUED", "PASS", "FAILED", "EXPIRED"}]
    /\ running \subseteq Lease /\ foreign \in 0..MaxForeign
    /\ inbox \in [Lease -> {"NONE", "UNREAD", "READ"}]
    /\ phase \in {"IDLE", "RECORD", "DISPATCH"} /\ due \in Seq(Issues \cup Lease)
    /\ counted \in [Lease -> Nat]
    /\ failures \in 0..MaxFailures /\ restarts \in 0..MaxRestarts

\* Requests and ticks together fill no more slots than the limits allow, over
\* all issues and in every family.
LimitsAreKept ==
    /\ Cardinality(Active) <= ConcurrencyLimit
    /\ \A i \in Active : Cardinality(InFamily(i)) <= FamilyLimit
    /\ Cardinality(running) + foreign <= LeaseLimit

\* One lease of an issue runs at a time: a lease whose issue lost track of it,
\* because a save was refused or the process ended, is resumed before another
\* one is begun on a newer snapshot.
OneLeasePerIssue ==
    \A i \in Issues : Cardinality(IssuedOf(i)) <= 1

\* A lease is counted once, however often it is replayed, and the counters of an
\* issue add up (the tests: a retained lease is not counted twice).
CountedOnce ==
    /\ \A l \in Lease : counted[l] <= 1
    /\ \A i \in Issues : Exists(i) =>
         /\ issues[i].runs = issues[i].passed + issues[i].failed
         /\ issues[i].runs = Cardinality({l \in Lease : l[1] = i /\ counted[l] = 1})

\* A notification that was read stays read, though its lease is replayed.
ReadStaysRead == [][\A l \in Lease : inbox[l] = "READ" => inbox'[l] = "READ"]_inbox

\* A lease that was issued is closed in the end, whatever was refused, paused or
\* ended in between.
IssuedIsClosed == \A l \in Lease : leases[l] = "ISSUED" ~> leases[l] # "ISSUED"

\* server.ts: the next tick retries issues.  An active issue is released.
IssuesAreReleased == \A i \in Issues : active[i] # None ~> active[i] = None

\* The design notes: a failed lease enters the inbox.
FailuresAreNoticed == \A l \in Lease : leases[l] = "FAILED" ~> inbox[l] # "NONE"
=============================================================================
