----------------------------- MODULE LeaseStore -----------------------------
(***************************************************************************)
(* Where search leases are kept: the rows of search_lease_records and      *)
(* search_lease_corpora in SQLite (control-plane/src/operational-store.ts) *)
(* and the scheduler's own list of them (#records of                       *)
(* search-lease-scheduler.ts).                                             *)
(*                                                                         *)
(* #persist writes the store first and then its list, so a lease that is   *)
(* in both is the same record in both and one function holds them; rows    *)
(* and memory say who still has it.  They forget different leases: the     *)
(* store keeps the latest created, the list the latest changed.            *)
(***************************************************************************)
EXTENDS Integers, SequencesExt, Selection

CONSTANTS
  Lease, Snapshot,
  SnapshotOf,      \* lease -> the corpus snapshot it searches
  Signature,       \* novelty signatures of candidates
  None,            \* no signature, no lease
  MaxAttempts,     \* budget.maxDeepAttempts
  Retention        \* retentionLimit

ASSUME StoreAssumption ==
  /\ SnapshotOf \in [Lease -> Snapshot]
  /\ None \notin Lease \cup Signature
  /\ MaxAttempts \in Nat \ {0}
  /\ Retention \in Nat \ {0}

VARIABLES
  record,    \* lease -> its record, NoRecord if neither side has it
  rows,      \* leases of search_lease_records in rowid order
  corpora,   \* snapshots of search_lease_corpora
  memory     \* leases of #records, the last persisted first

storeVars == <<record, rows, corpora, memory>>

LeaseStatus == {"ABSENT", "ISSUED", "PASS", "FAILED"}
DeepStatus == {"NOT_RUN", "PENDING", "RUNNING", "PASS", "FAILED"}
AttemptStatus == {"RUNNING", "PASS", "FAILED"}

Record == [status : LeaseStatus, deep : DeepStatus, attempts : Seq(AttemptStatus),
           signature : Signature \cup {None}, duplicateOf : Lease \cup {None}]

NoRecord == [status |-> "ABSENT", deep |-> "NOT_RUN", attempts |-> <<>>,
             signature |-> None, duplicateOf |-> None]

IssuedRecord == [NoRecord EXCEPT !.status = "ISSUED"]
FailedRecord == [NoRecord EXCEPT !.status = "FAILED"]

Terminal(r) == r.status \in {"PASS", "FAILED"} /\ r.deep \notin {"PENDING", "RUNNING"}

Unresolved(r) == r.status = "ISSUED" \/ r.deep \in {"PENDING", "RUNNING"}

StoreTypeOK ==
  /\ record \in [Lease -> Record]
  /\ \A l \in Lease : Len(record[l].attempts) <= MaxAttempts
  /\ rows \in Seq(Lease) /\ memory \in Seq(Lease)
  /\ corpora \subseteq Snapshot

StoreInit ==
  /\ record = [l \in Lease |-> NoRecord]
  /\ rows = <<>> /\ memory = <<>>
  /\ corpora = {}

-----------------------------------------------------------------------------
(* saveSearchLeaseRecord *)

\* The deep stage's inputIdentity: a skipped stage has none.
HasInput(r) == r.deep # "NOT_RUN"

\* prior's attempts are kept, the running one may end.
KeepsAttempts(prior, next) ==
  \A i \in 1..Len(prior.attempts) :
    /\ i <= Len(next.attempts)
    /\ \/ next.attempts[i] = prior.attempts[i]
       \/ i = Len(prior.attempts) /\ prior.attempts[i] = "RUNNING"

AllowedDeepStateTransition(prior, next) ==
  LET more == Len(next.attempts) - Len(prior.attempts) IN
  \/ prior.deep = "PENDING" /\ next.deep = "RUNNING" /\ more = 1
  \/ prior.deep = "RUNNING" /\ next.deep \in {"PASS", "FAILED"} /\ more = 0
  \/ prior.deep = "FAILED" /\ next.deep = "PENDING" /\ more = 0

DuplicateWhilePending(prior, next) ==
  /\ prior.deep = "PENDING" /\ next.deep = "NOT_RUN"
  /\ prior.attempts = <<>> /\ next.attempts = <<>>
  /\ prior.duplicateOf = None /\ next.duplicateOf # None
  /\ prior.signature = next.signature

MonotonicDeepTransition(prior, next) ==
  /\ prior.status = "PASS" /\ next.status = "PASS"
  /\ \/ prior.signature = next.signature /\ prior.duplicateOf = next.duplicateOf
     \/ DuplicateWhilePending(prior, next)
  /\ HasInput(prior) = HasInput(next)
  /\ KeepsAttempts(prior, next)
  /\ AllowedDeepStateTransition(prior, next) \/ DuplicateWhilePending(prior, next)

\* Deviation: any row may be overwritten.
SaveAnything(l, r) == TRUE

\* The row of l may become r; otherwise the call throws and changes nothing.
CanSave(l, r) ==
  l \in Range(rows) =>
    /\ r.status # "ISSUED"
    /\ record[l].status = "ISSUED" \/ MonotonicDeepTransition(record[l], r)

\* The store after l became r: the oldest terminal rows beyond the limit go.
RowsAfter(l, rec) ==
  LET saved == IF l \in Range(rows) THEN rows ELSE Append(rows, l)
      others == Only(saved, {k \in Lease : k # l /\ Terminal(rec[k])})
      kept == Retention - (IF Terminal(rec[l]) THEN 1 ELSE 0)
      deleted == {others[i] : i \in 1..(Len(others) - kept)}
  IN Only(saved, Lease \ deleted)

\* #records after l became r: unresolved leases stay, the terminal ones that
\* were persisted longest ago make room for them.
MemoryAfter(l, rec) ==
  LET recent == <<l>> \o Only(memory, Lease \ {l})
      terminal == Only(recent, {k \in Lease : Terminal(rec[k])})
      slots == Retention - (Len(recent) - Len(terminal))
      evicted == {terminal[i] : i \in {j \in 1..Len(terminal) : j > slots}}
  IN IF Len(recent) <= Retention THEN recent
     ELSE Only(recent, Lease \ evicted)

\* Deviation: corpora are pruned before the row is written.
PersistPrunesFirst(l, r, created) ==
  LET rec == [record EXCEPT ![l] = r] IN
  /\ CanSave(l, r)
  /\ rows' = RowsAfter(l, rec)
  /\ memory' = MemoryAfter(l, rec)
  /\ record' = [k \in Lease |->
       IF k \in Range(rows') \cup Range(memory') THEN rec[k] ELSE NoRecord]
  /\ corpora' = {s \in corpora \cup created : \E k \in Range(rows) : SnapshotOf[k] = s}

\* #persist.  created is the snapshot that saveSearchLeaseCorpus has just
\* written, if any; corpora no row refers to are pruned.
Persist(l, r, created) ==
  LET rec == [record EXCEPT ![l] = r] IN
  /\ CanSave(l, r)
  /\ rows' = RowsAfter(l, rec)
  /\ memory' = MemoryAfter(l, rec)
  /\ record' = [k \in Lease |->
       IF k \in Range(rows') \cup Range(memory') THEN rec[k] ELSE NoRecord]
  /\ corpora' = {s \in corpora \cup created : \E k \in Range(rows') : SnapshotOf[k] = s}

\* loadSearchLeaseRecords: unresolved rows first, then the latest, up to the limit.
Loaded ==
  LET latest == Reverse(rows)
      unresolved == {k \in Lease : Unresolved(record[k])}
      ordered == Only(latest, unresolved) \o Only(latest, Lease \ unresolved)
  IN SubSeq(ordered, 1, IF Len(ordered) < Retention THEN Len(ordered) ELSE Retention)
=============================================================================
