------------------------ MODULE CatalogObservation ------------------------
(***************************************************************************)
(* The desk that observes the public catalogs of the venues                *)
(* (packages/control-plane/src/catalog-observation.ts), the scheduler that *)
(* refreshes it (catalog-refresh-scheduler.ts) and the table of raw        *)
(* observations (operational-store.ts), on which contract texts are        *)
(* evidence.                                                               *)
(*                                                                         *)
(* A refresh asks every source at once; an answer is decoded, saved and    *)
(* shown in one turn.  An observation is its source and the time of the    *)
(* request, which is its receivedAt; each one is taken to have listings.   *)
(* The table is the sequence of its rows in the order of rowid.            *)
(***************************************************************************)
EXTENDS Naturals, SequencesExt, FiniteSets, FiniteSetsExt, Selection

CONSTANTS
    Source,         \* registered sources
    Retention,      \* retentionLimit of rows for each source
    MaxAge,         \* contextMaxAgeMs
    Interval,       \* intervalMs of the scheduler
    MaxClock,       \* bound: the last time
    MaxRestarts     \* bound: restarts of the process

RetentionAssumption == Retention \in Nat \ {0}
SourceAssumption == IsFiniteSet(Source) /\ Source # {}
TimeAssumption == {MaxAge, Interval, MaxRestarts} \subseteq Nat /\ MaxClock \in Nat \ {0}

Time == 1..MaxClock
Never == 0
Observation == Source \X Time

VARIABLES
    clock,          \* the time
    latest,         \* latest: receivedAt of the observation of a source
    diagnostic,     \* whether the last attempt of a source failed
    pending,        \* sources whose attempt is in flight
    refreshing,     \* #refreshing of the desk and #active of the scheduler
    startedAt,      \* lastStartedAt, and the time of the attempts
    nextRefreshAt,  \* nextRefreshAt
    lastResult,     \* lastResult
    rows,           \* catalog_observations
    evidence,       \* observations that contract texts refer to
    restarts        \* restarts so far

desk == <<latest, diagnostic, pending>>
scheduler == <<refreshing, startedAt, nextRefreshAt, lastResult>>
table == <<rows, evidence>>
vars == <<clock, desk, scheduler, table, restarts>>

Init ==
    /\ clock = 1
    /\ latest = [s \in Source |-> Never]
    /\ diagnostic = [s \in Source |-> FALSE]
    /\ pending = {}
    /\ refreshing = FALSE /\ startedAt = Never /\ nextRefreshAt = 1
    /\ lastResult = "NONE"
    /\ rows = <<>> /\ evidence = {}
    /\ restarts = 0

Rows == ToSet(rows)

-----------------------------------------------------------------------------
(* What may be shown                                                       *)

\* #contextEligibility: received, the last attempt succeeded, and not stale.
Eligible(s) == latest[s] # Never /\ ~diagnostic[s] /\ clock <= latest[s] + MaxAge

\* What the identity of the corpus depends on.
Corpus == [s \in Source |-> IF Eligible(s) THEN latest[s] ELSE Never]

-----------------------------------------------------------------------------
(* The refresh                                                             *)

\* Deviation: an attempt that starts forgets that the last one failed.
Forgets(s) == FALSE

\* What an attempt that starts leaves of the last diagnostic.
AtStart(s) == diagnostic[s]

\* refresh: a request during a refresh shares it.  A refresh takes some time.
Refresh ==
    /\ ~refreshing /\ startedAt < clock
    /\ refreshing' = TRUE /\ startedAt' = clock
    /\ nextRefreshAt' = clock + Interval
    /\ pending' = Source
    /\ diagnostic' = [s \in Source |-> AtStart(s)]
    /\ UNCHANGED <<clock, latest, lastResult, table, restarts>>

Tick == nextRefreshAt <= clock /\ Refresh

RunNow == Refresh

\* Deviation: the rows of all sources are counted together.
PassedOver(all, s) == {o \in ToSet(all) : o \notin evidence}

\* Deviation: rows with evidence are counted and deleted like others.
PassedOverEvidence(all, s) == {o \in ToSet(all) : o[1] = s}

\* Rows of the source that retention looks at: those without evidence.
Retained(all, s) == {o \in ToSet(all) : o[1] = s /\ o \notin evidence}

\* saveCatalogObservation: the row is inserted and old rows of the source go.
Saved(o) ==
    LET all == IF o \in Rows THEN rows ELSE Append(rows, o)
        rank(p) == Cardinality({q \in Retained(all, o[1]) :
                                  \E i, j \in DOMAIN all : all[i] = p /\ all[j] = q /\ i < j})
        goes(p) == p \in Retained(all, o[1]) /\ rank(p) >= Retention
    IN  Only(all, {p \in ToSet(all) : ~goes(p)})

Answers(s) ==
    /\ s \in pending
    /\ rows' = Saved(<<s, startedAt>>)
    /\ latest' = [latest EXCEPT ![s] = startedAt]
    /\ diagnostic' = [diagnostic EXCEPT ![s] = FALSE]
    /\ pending' = pending \ {s}
    /\ UNCHANGED <<clock, scheduler, evidence, restarts>>

\* No answer in time, a bad one, or one that cannot be saved.
Fails(s) ==
    /\ s \in pending
    /\ diagnostic' = [diagnostic EXCEPT ![s] = TRUE]
    /\ pending' = pending \ {s}
    /\ UNCHANGED <<clock, latest, scheduler, table, restarts>>

\* Deviation: a refresh ends with its first source.
FirstSettled == pending # Source

AllSettled == pending = {}

\* Deviation: an observation that is kept after a failure counts as current.
StatusOfKept == IF \A s \in Source : latest[s] # Never THEN "READY" ELSE "DEGRADED"

\* READY is a desk whose sources are all current.
Status == IF \A s \in Source : latest[s] # Never /\ ~diagnostic[s] THEN "READY" ELSE "DEGRADED"

RefreshEnds ==
    /\ refreshing /\ AllSettled
    /\ refreshing' = FALSE
    /\ lastResult' = Status
    /\ UNCHANGED <<clock, desk, startedAt, nextRefreshAt, table, restarts>>

-----------------------------------------------------------------------------
(* Evidence and restarts                                                   *)

\* materializeContractTextEvidence: from the latest observation, current or not.
\* The table refuses it when the raw observation is gone.
Materialize(s) ==
    /\ latest[s] # Never /\ <<s, latest[s]>> \in Rows \ evidence
    /\ evidence' = evidence \cup {<<s, latest[s]>>}
    /\ UNCHANGED <<clock, desk, scheduler, rows, restarts>>

\* loadCatalogObservations: as many rows as all sources may retain, newest first.
Window ==
    LET limit == Retention * Cardinality(Source)
        first == IF Len(rows) > limit THEN Len(rows) - limit + 1 ELSE 1
    IN  ToSet(SubSeq(rows, first, Len(rows)))

\* Deviation: the oldest row of a source is taken.
OldestLoaded(s) ==
    LET mine == {o[2] : o \in {o \in Window : o[1] = s}}
    IN  IF mine = {} THEN Never ELSE Min(mine)

\* The newest row of a source in the window.
Loaded(s) ==
    LET mine == {o[2] : o \in {o \in Window : o[1] = s}}
    IN  IF mine = {} THEN Never ELSE Max(mine)

Restart ==
    /\ restarts < MaxRestarts
    /\ restarts' = restarts + 1
    /\ latest' = [s \in Source |-> Loaded(s)]
    /\ diagnostic' = [s \in Source |-> FALSE]
    /\ pending' = {}
    /\ refreshing' = FALSE /\ startedAt' = Never /\ nextRefreshAt' = clock
    /\ lastResult' = "NONE"
    /\ UNCHANGED <<clock, table>>

TimePasses ==
    /\ clock < MaxClock
    /\ clock' = clock + 1
    /\ UNCHANGED <<desk, scheduler, table, restarts>>

Next ==
    \/ Tick
    \/ RunNow
    \/ \E s \in Source : Answers(s) \/ Fails(s) \/ Materialize(s)
    \/ RefreshEnds
    \/ Restart
    \/ TimePasses

Spec == Init /\ [][Next]_vars

-----------------------------------------------------------------------------

\* Types: the variables, attempts being in flight only during a refresh.
TypeOK ==
    /\ clock \in Time
    /\ latest \in [Source -> {Never} \cup Time]
    /\ diagnostic \in [Source -> BOOLEAN]
    /\ pending \subseteq Source /\ (pending # {} => refreshing)
    /\ refreshing \in BOOLEAN /\ startedAt \in {Never} \cup Time /\ nextRefreshAt \in Nat
    /\ lastResult \in {"NONE", "READY", "DEGRADED"}
    /\ rows \in Seq(Observation) /\ evidence \subseteq Observation
    /\ restarts \in 0..MaxRestarts

\* The observation that a source shows is in the table, so that evidence can be
\* taken from it at any time, whatever the retention deleted for others.
LatestIsStored == \A s \in Source : latest[s] # Never => <<s, latest[s]>> \in Rows

\* Evidence keeps its raw observation, however many newer ones arrive.
EvidenceKeepsItsSource == evidence \subseteq Rows

\* READY: every source answered in the refresh that ended last, none earlier.
ReadyIsComplete ==
    lastResult = "READY" /\ ~refreshing => \A s \in Source : latest[s] = startedAt

\* A source does not go back to an older observation, in a refresh or a restart.
LatestNeverGoesBack ==
    [][\A s \in Source : latest'[s] = Never \/ latest'[s] >= latest[s]]_latest

\* A source that left the corpus, stale or failed, comes back with a newer
\* observation only, unless the process starts again: within one process the
\* identity of a corpus, which identifies leases, does not return.
CorpusDoesNotReturn ==
    [][\A s \in Source : Corpus[s] = Never /\ Corpus'[s] # Never
                         => latest'[s] > latest[s] \/ restarts' > restarts]_vars

\* The tests: a source retains its last success.  A restart finds it again.
LastSuccessSurvives ==
    [][restarts' > restarts =>
         \A s \in Source : (\E o \in Rows : o[1] = s) => latest'[s] # Never]_vars
=============================================================================
