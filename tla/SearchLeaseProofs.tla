-------------------------- MODULE SearchLeaseProofs --------------------------
(***************************************************************************)
(* What holds of the search-lease scheduler for any number of leases, any  *)
(* limits, any retention and any number of crashes.                        *)
(*                                                                         *)
(* LeaseInv relates each lane to the record it works on.  It is inductive  *)
(* because the two retention rules forget terminal records only: whatever  *)
(* the process is busy with has a record that is not terminal, so no call  *)
(* of #persist for another lease can touch it (BusyKeep), and the records  *)
(* that a restart finds unfinished are all still rows of the store.        *)
(* PersistStep and RestStep then leave one lease to look at per action.    *)
(*                                                                         *)
(* The second half, HistoryInv, adds ClaimInv, that of two leases with one *)
(* claim on a signature one could not see the other when it looked, and    *)
(* WorkInv, that unfinished work is on its way or was left behind.         *)
(***************************************************************************)
EXTENDS SearchLease, FiniteFolds

\* A record as far as it speaks for itself: attempts belong to passed leases,
\* only the last one runs, and then so does the stage; a pending stage has an
\* attempt left.
RecordSound(r) ==
  /\ r.status # "PASS" => r.deep = "NOT_RUN" /\ r.attempts = <<>>
  /\ r.deep = "RUNNING" => r.attempts # <<>>
  /\ \A i \in 1..Len(r.attempts) :
       r.attempts[i] = "RUNNING" => r.deep = "RUNNING" /\ i = Len(r.attempts)
  /\ r.deep = "PENDING" => Len(r.attempts) < MaxAttempts

\* The store never loses a lease that is not finished.
StoreInv ==
  /\ StoreTypeOK
  /\ IsInjective(rows)
  /\ \A l \in Lease : RecordSound(record[l])
  /\ \A l \in Lease : Unresolved(record[l]) => l \in Range(rows)

\* What this process does with a lease is what its record says, and the list has
\* the record.  Of the leases still to be dealt with only the first may have
\* ended its stage, for a retry within its budget.
LaneSound(l) ==
  LET r == record[l] IN
  /\ fast[l] # Idle => r.status = "ISSUED" /\ Held(l)
  /\ task[l] \in {"QUEUED", "WOKEN"} => r.deep = "PENDING" /\ Held(l)
  /\ task[l] = "RUNNING" => r.deep = "RUNNING" /\ Held(l)
  /\ race[l] # {} => task[l] = "QUEUED"
  /\ l \in Range(todo) =>
       /\ task[l] = "NONE"
       /\ \/ r.deep \in {"PENDING", "RUNNING"} /\ Held(l)
          \/ r.deep = "FAILED" /\ l = Head(todo) /\ Len(r.attempts) < MaxAttempts

\* The types of what the process keeps; todo is more exact in LaneSound.
ProcessTypes ==
  /\ fast \in [Lease -> [at : {"IDLE", "FAST", "ENRICHING"},
                         signature : Signature \cup {None},
                         duplicateOf : Lease \cup {None}]]
  /\ task \in [Lease -> {"NONE", "QUEUED", "WOKEN", "RUNNING"}]
  /\ race \in [Lease -> SUBSET Lease]
  /\ todo \in Seq(Lease)
  /\ deepEnabled \in BOOLEAN /\ known \subseteq Snapshot
  /\ crashes \in 0..MaxCrashes

\* The lanes are finitely many, so that their number means something.
SlotsInv == IsFiniteSet(ActiveDeep) /\ IsFiniteSet(ActiveFast) /\ SlotsAreRespected

\* The inductive invariant.
LeaseInv ==
  /\ StoreInv /\ ProcessTypes
  /\ IsInjective(todo)
  /\ \A l \in Lease : LaneSound(l)
  /\ SlotsInv

-----------------------------------------------------------------------------
(* The store *)

\* The store forgets terminal leases only, never the one that is being saved.
LEMMA RowsKeep ==
  ASSUME NEW l \in Lease, NEW rec, rows \in Seq(Lease)
  PROVE  LET kept == RowsAfter(l, rec) IN
         /\ kept \in Seq(Lease) /\ l \in Range(kept)
         /\ Range(kept) \subseteq Range(rows) \cup {l}
         /\ \A k \in Range(rows) : ~Terminal(rec[k]) => k \in Range(kept)
         /\ IsInjective(rows) => IsInjective(kept)
<1> DEFINE saved == IF l \in Range(rows) THEN rows ELSE Append(rows, l)
           terminal == {k \in Lease : k # l /\ Terminal(rec[k])}
           others == Only(saved, terminal)
           kept == Retention - (IF Terminal(rec[l]) THEN 1 ELSE 0)
           deleted == {others[i] : i \in 1..(Len(others) - kept)}
<1>1. RowsAfter(l, rec) = Only(saved, Lease \ deleted)
  BY DEF RowsAfter
<1>2. /\ saved \in Seq(Lease) /\ Range(saved) = Range(rows) \cup {l}
      /\ IsInjective(rows) => IsInjective(saved)
  BY RangeOfAppend
<1> HIDE DEF saved, terminal
<1>3. others \in Seq(Lease) /\ Range(others) = Range(saved) \cap terminal
  BY <1>2, OnlyKeeps
<1>4. kept \in Int /\ kept >= 0
  BY StoreAssumption DEF StoreAssumption
<1>5. deleted \subseteq terminal
  <2> HIDE DEF kept
  <2>1. DOMAIN others = 1..Len(others) /\ Len(others) \in Nat
    BY <1>3
  <2>2. \A i \in 1..(Len(others) - kept) : i \in 1..Len(others)
    BY <2>1, <1>4
  <2>3. \A i \in 1..(Len(others) - kept) : others[i] \in Range(others)
    BY <2>1, <2>2 DEF Range
  <2> QED BY <2>3, <1>3
<1> HIDE DEF deleted
<1>6. /\ Only(saved, Lease \ deleted) \in Seq(Lease)
      /\ Range(Only(saved, Lease \ deleted)) = Range(saved) \cap (Lease \ deleted)
      /\ IsInjective(saved) => IsInjective(Only(saved, Lease \ deleted))
  BY <1>2, OnlyKeeps
<1>7. l \notin deleted /\ \A k \in deleted : Terminal(rec[k])
  BY <1>5 DEF terminal
<1>8. Range(rows) \subseteq Lease
  BY DEF Range
<1> QED BY <1>1, <1>2, <1>6, <1>7, <1>8

\* So does the list.
LEMMA MemoryKeeps ==
  ASSUME NEW l \in Lease, NEW rec, memory \in Seq(Lease)
  PROVE  LET kept == MemoryAfter(l, rec) IN
         /\ kept \in Seq(Lease)
         /\ Range(kept) \subseteq Range(memory) \cup {l}
         /\ \A k \in Range(memory) \cup {l} : ~Terminal(rec[k]) => k \in Range(kept)
<1> DEFINE others == Only(memory, Lease \ {l})
           first == <<l>>
           recent == first \o others
           done == {k \in Lease : Terminal(rec[k])}
           terminal == Only(recent, done)
           slots == Retention - (Len(recent) - Len(terminal))
           evicted == {terminal[i] : i \in {j \in 1..Len(terminal) : j > slots}}
<1>1. MemoryAfter(l, rec) =
        IF Len(recent) <= Retention THEN recent ELSE Only(recent, Lease \ evicted)
  BY DEF MemoryAfter
<1>2. others \in Seq(Lease) /\ Range(others) = Range(memory) \cap (Lease \ {l})
  BY OnlyKeeps
<1>3. Range(memory) \subseteq Lease /\ first \in Seq(Lease) /\ Range(first) = {l}
  <2>1. DOMAIN first = {1} /\ first[1] = l
    OBVIOUS
  <2> QED BY <2>1 DEF Range
<1> HIDE DEF first, others
<1>4. recent \in Seq(Lease) /\ Range(recent) = Range(memory) \cup {l}
  BY <1>2, <1>3, RangeOfConcat
<1> HIDE DEF recent, done
<1>5. terminal \in Seq(Lease) /\ Range(terminal) = Range(recent) \cap done
  BY <1>4, OnlyKeeps
<1>6. evicted \subseteq done
  <2> HIDE DEF slots
  <2>1. DOMAIN terminal = 1..Len(terminal)
    BY <1>5
  <2>2. \A i \in 1..Len(terminal) : terminal[i] \in Range(terminal)
    BY <2>1 DEF Range
  <2> QED BY <2>2, <1>5
<1> HIDE DEF evicted
<1>7. /\ Only(recent, Lease \ evicted) \in Seq(Lease)
      /\ Range(Only(recent, Lease \ evicted)) = Range(recent) \cap (Lease \ evicted)
  BY <1>4, OnlyKeeps
<1>8. \A k \in evicted : Terminal(rec[k])
  BY <1>6 DEF done
<1> QED BY <1>1, <1>3, <1>4, <1>7, <1>8

\* #persist: the lease has its new record, no other record changes but those
\* forgotten, and leases that are not finished are kept where they are.
LEMMA PersistKeeps ==
  ASSUME StoreTypeOK, NEW l \in Lease, NEW r \in Record, Len(r.attempts) <= MaxAttempts,
         NEW created \in SUBSET Snapshot, Persist(l, r, created)
  PROVE  /\ StoreTypeOK'
         /\ record'[l] = r /\ l \in Range(rows')
         /\ ~Terminal(r) => l \in Range(memory')
         /\ \A k \in Lease : k # l => record'[k] \in {record[k], NoRecord}
         /\ \A k \in Lease : k # l /\ ~Terminal(record[k]) /\ k \in Range(rows) =>
              k \in Range(rows') /\ record'[k] = record[k]
         /\ \A k \in Lease : k # l /\ ~Terminal(record[k]) /\ k \in Range(memory) =>
              k \in Range(memory') /\ record'[k] = record[k]
         /\ IsInjective(rows) => IsInjective(rows')
<1> DEFINE rec == [record EXCEPT ![l] = r]
<1>1. rec[l] = r /\ \A k \in Lease : k # l => rec[k] = record[k]
  BY DEF StoreTypeOK
<1>2. rows \in Seq(Lease) /\ memory \in Seq(Lease)
  BY DEF StoreTypeOK
<1>3. /\ rows' = RowsAfter(l, rec) /\ memory' = MemoryAfter(l, rec)
      /\ record' = [k \in Lease |->
                      IF k \in Range(rows') \cup Range(memory') THEN rec[k] ELSE NoRecord]
      /\ corpora' \subseteq corpora \cup created
  BY DEF Persist
<1> HIDE DEF rec
<1>4. /\ rows' \in Seq(Lease) /\ l \in Range(rows')
      /\ \A k \in Range(rows) : ~Terminal(rec[k]) => k \in Range(rows')
      /\ IsInjective(rows) => IsInjective(rows')
  BY <1>2, <1>3, RowsKeep
<1>5. /\ memory' \in Seq(Lease)
      /\ \A k \in Range(memory) \cup {l} : ~Terminal(rec[k]) => k \in Range(memory')
  BY <1>2, <1>3, MemoryKeeps
<1>6. NoRecord \in Record /\ Len(NoRecord.attempts) <= MaxAttempts
  BY StoreAssumption DEF StoreAssumption, NoRecord, Record, LeaseStatus, DeepStatus
<1>7. \A k \in Lease : record'[k] \in Record /\ Len(record'[k].attempts) <= MaxAttempts
  BY <1>1, <1>3, <1>6 DEF StoreTypeOK
<1>8. record' \in [Lease -> Record]
  BY <1>3, <1>7
<1>9. StoreTypeOK'
  BY <1>3, <1>4, <1>5, <1>7, <1>8 DEF StoreTypeOK
<1> QED BY <1>1, <1>3, <1>4, <1>5, <1>9

\* Whatever is saved is sound, and so is the store afterwards.
LEMMA PersistSound ==
  ASSUME StoreInv, NEW l \in Lease, NEW r \in Record, Len(r.attempts) <= MaxAttempts,
         RecordSound(r), NEW created \in SUBSET Snapshot, Persist(l, r, created)
  PROVE  StoreInv'
<1>1. /\ StoreTypeOK' /\ IsInjective(rows')
      /\ record'[l] = r /\ l \in Range(rows')
      /\ \A k \in Lease : k # l => record'[k] \in {record[k], NoRecord}
      /\ \A k \in Lease : k # l /\ ~Terminal(record[k]) /\ k \in Range(rows) =>
           k \in Range(rows') /\ record'[k] = record[k]
  BY PersistKeeps DEF StoreInv
<1>2. RecordSound(NoRecord) /\ ~Unresolved(NoRecord)
  BY DEF RecordSound, NoRecord, Unresolved
<1>3. \A k \in Lease : RecordSound(record'[k])
  BY <1>1, <1>2 DEF StoreInv
<1>4. ASSUME NEW k \in Lease, Unresolved(record'[k]) PROVE k \in Range(rows')
  <2>1. CASE k = l
    BY <1>1, <2>1
  <2>2. CASE k # l
    <3>1. record'[k] = record[k]
      BY <1>1, <1>2, <1>4, <2>2
    <3>2. k \in Range(rows) /\ ~Terminal(record[k])
      BY <3>1, <1>4 DEF StoreInv, Unresolved, Terminal
    <3> QED BY <3>2, <1>1, <2>2
  <2> QED BY <2>1, <2>2
<1> QED BY <1>1, <1>3, <1>4 DEF StoreInv, RecordSound, Unresolved

-----------------------------------------------------------------------------
(* Records *)

\* The records of a lease that was issued, or failed in the fast lane.
LEMMA NewRecords ==
  /\ \A r \in {IssuedRecord, FailedRecord} :
       r \in Record /\ RecordSound(r) /\ Len(r.attempts) <= MaxAttempts
  /\ IssuedRecord.status = "ISSUED" /\ IssuedRecord.deep = "NOT_RUN"
  /\ FailedRecord.deep = "NOT_RUN"
<1>1. \A status \in {"ISSUED", "FAILED"} :
        [NoRecord EXCEPT !.status = status] =
          [status |-> status, deep |-> "NOT_RUN", attempts |-> <<>>, signature |-> None,
           duplicateOf |-> None]
  BY DEF NoRecord
<1>2. <<>> \in Seq(AttemptStatus) /\ Len(<<>>) = 0 /\ 0 <= MaxAttempts
  BY StoreAssumption DEF StoreAssumption
<1>3. \A status \in {"ISSUED", "FAILED"} :
        [status |-> status, deep |-> "NOT_RUN", attempts |-> <<>>, signature |-> None,
         duplicateOf |-> None] \in Record
  BY <1>2 DEF Record, LeaseStatus, DeepStatus
<1> QED BY <1>1, <1>2, <1>3 DEF IssuedRecord, FailedRecord, RecordSound

\* The record of a lease whose fast lane passed.
LEMMA PassRecords ==
  ASSUME NEW deep \in {"NOT_RUN", "PENDING"}, NEW s \in Signature \cup {None},
         NEW duplicate \in Lease \cup {None}
  PROVE  LET r == PassRecord(deep, s, duplicate) IN
         /\ r \in Record /\ RecordSound(r) /\ Len(r.attempts) <= MaxAttempts
         /\ r.deep = deep /\ r.status = "PASS" /\ r.attempts = <<>>
<1>1. PassRecord(deep, s, duplicate) =
        [status |-> "PASS", deep |-> deep, attempts |-> <<>>, signature |-> s,
         duplicateOf |-> duplicate]
  BY DEF PassRecord
<1>2. <<>> \in Seq(AttemptStatus) /\ Len(<<>>) = 0
  OBVIOUS
<1> QED BY <1>1, <1>2, StoreAssumption DEF StoreAssumption, Record, LeaseStatus, DeepStatus,
             RecordSound

\* A running stage ends: its last attempt is closed.
LEMMA EndedRecords ==
  ASSUME NEW r \in Record, RecordSound(r), Len(r.attempts) <= MaxAttempts,
         r.deep = "RUNNING", NEW status \in {"PASS", "FAILED"}
  PROVE  LET e == LastAttempt(r, status) IN
         /\ e \in Record /\ RecordSound(e) /\ Len(e.attempts) = Len(r.attempts)
         /\ Len(e.attempts) <= MaxAttempts
         /\ e.deep = status /\ e.status = "PASS" /\ e.signature = r.signature
         /\ e.status = r.status /\ e.duplicateOf = r.duplicateOf
<1> DEFINE n == Len(r.attempts)
           e == LastAttempt(r, status)
<1>1. /\ r.attempts \in Seq(AttemptStatus) /\ r.attempts # <<>> /\ r.status = "PASS"
      /\ n \in Nat \ {0} /\ status \in AttemptStatus
  BY DEF Record, RecordSound, AttemptStatus
<1>2. e = [status |-> r.status, deep |-> status,
           attempts |-> [r.attempts EXCEPT ![n] = status],
           signature |-> r.signature, duplicateOf |-> r.duplicateOf]
  <2> DEFINE t == [r EXCEPT !.deep = status]
  <2>1. t = [status |-> r.status, deep |-> status, attempts |-> r.attempts,
             signature |-> r.signature, duplicateOf |-> r.duplicateOf]
    BY DEF Record
  <2>2. e = [t EXCEPT !.attempts[n] = status]
    BY DEF LastAttempt
  <2> HIDE DEF t, e
  <2> QED BY <2>1, <2>2
<1>3. /\ [r.attempts EXCEPT ![n] = status] \in Seq(AttemptStatus)
      /\ Len([r.attempts EXCEPT ![n] = status]) = n
      /\ \A i \in 1..n : [r.attempts EXCEPT ![n] = status][i] =
                        IF i = n THEN status ELSE r.attempts[i]
  BY <1>1
<1>4. e \in Record
  BY <1>2, <1>3, <1>1 DEF Record, DeepStatus
<1>5. \A i \in 1..n : e.attempts[i] # "RUNNING"
  BY <1>1, <1>2, <1>3 DEF RecordSound
<1> QED BY <1>1, <1>2, <1>3, <1>4, <1>5 DEF RecordSound

\* A failed stage within its budget is pending again.
LEMMA PendingRecords ==
  ASSUME NEW r \in Record, RecordSound(r), r.deep = "FAILED", Len(r.attempts) < MaxAttempts
  PROVE  LET e == [r EXCEPT !.deep = "PENDING"] IN
         /\ e \in Record /\ RecordSound(e) /\ Len(e.attempts) <= MaxAttempts
         /\ e.deep = "PENDING" /\ e.signature = r.signature
         /\ e.status = r.status /\ e.duplicateOf = r.duplicateOf
<1> DEFINE e == [r EXCEPT !.deep = "PENDING"]
<1>1. e = [status |-> r.status, deep |-> "PENDING", attempts |-> r.attempts,
           signature |-> r.signature, duplicateOf |-> r.duplicateOf]
  BY DEF Record
<1>2. e \in Record /\ r.attempts \in Seq(AttemptStatus) /\ MaxAttempts \in Nat
  BY <1>1, StoreAssumption DEF StoreAssumption, Record, DeepStatus
<1>3. r.status = "PASS" /\ \A i \in 1..Len(r.attempts) : r.attempts[i] # "RUNNING"
  BY DEF RecordSound
<1> QED BY <1>1, <1>2, <1>3 DEF RecordSound

\* A pending stage starts another attempt.
LEMMA StartedRecords ==
  ASSUME NEW r \in Record, RecordSound(r), r.deep = "PENDING"
  PROVE  LET e == [r EXCEPT !.deep = "RUNNING", !.attempts = Append(@, "RUNNING")] IN
         /\ e \in Record /\ RecordSound(e) /\ Len(e.attempts) <= MaxAttempts
         /\ e.deep = "RUNNING" /\ e.signature = r.signature
         /\ e.status = r.status /\ e.duplicateOf = r.duplicateOf
<1> DEFINE e == [r EXCEPT !.deep = "RUNNING", !.attempts = Append(@, "RUNNING")]
           n == Len(r.attempts)
<1>1. e = [status |-> r.status, deep |-> "RUNNING", attempts |-> Append(r.attempts, "RUNNING"),
           signature |-> r.signature, duplicateOf |-> r.duplicateOf]
  <2> DEFINE t == [r EXCEPT !.deep = "RUNNING"]
  <2>1. t = [status |-> r.status, deep |-> "RUNNING", attempts |-> r.attempts,
             signature |-> r.signature, duplicateOf |-> r.duplicateOf]
    BY DEF Record
  <2>2. e = [t EXCEPT !.attempts = Append(r.attempts, "RUNNING")]
    OBVIOUS
  <2> HIDE DEF t, e
  <2> QED BY <2>1, <2>2
<1>2. /\ r.attempts \in Seq(AttemptStatus) /\ n \in Nat /\ "RUNNING" \in AttemptStatus
      /\ MaxAttempts \in Nat /\ n < MaxAttempts
  BY StoreAssumption DEF StoreAssumption, Record, AttemptStatus, RecordSound
<1>3. /\ Append(r.attempts, "RUNNING") \in Seq(AttemptStatus)
      /\ Len(Append(r.attempts, "RUNNING")) = n + 1
      /\ \A i \in 1..n : Append(r.attempts, "RUNNING")[i] = r.attempts[i]
      /\ Append(r.attempts, "RUNNING") # <<>>
  BY <1>2
<1>4. e \in Record
  BY <1>1, <1>3 DEF Record, DeepStatus
<1>5. r.status = "PASS" /\ \A i \in 1..n : r.attempts[i] # "RUNNING"
  BY DEF RecordSound
<1>6. \A i \in 1..n + 1 : i \in 1..n \/ i = n + 1
  BY <1>2
<1>7. \A i \in 1..n + 1 : e.attempts[i] = "RUNNING" => i = n + 1
  BY <1>1, <1>3, <1>5, <1>6
<1> QED BY <1>1, <1>2, <1>3, <1>4, <1>5, <1>7 DEF RecordSound

-----------------------------------------------------------------------------
(* Lanes *)

\* What this process has to do with a lease.
Busy(k) == fast[k] # Idle \/ task[k] # "NONE" \/ k \in Range(todo)

\* A queued lease may be woken; nothing else happens to k's place.
Unmoved(k) ==
  \/ task'[k] = task[k] /\ race'[k] = race[k]
  \/ task[k] = "QUEUED" /\ task'[k] = "WOKEN" /\ race'[k] = {}

\* A sequence of one lease.
LEMMA SingleRange ==
  ASSUME NEW l \in Lease
  PROVE  /\ <<l>> \in Seq(Lease) /\ IsInjective(<<l>>) /\ Range(<<l>>) = {l}
         /\ Head(<<l>>) = l
<1>1. DOMAIN <<l>> = {1} /\ <<l>>[1] = l /\ <<l>> \in Seq(Lease) /\ Head(<<l>>) = l
  OBVIOUS
<1> QED BY <1>1 DEF Range, IsInjective

\* No lease at all.
LEMMA EmptyRange ==
  /\ <<>> \in Seq(Lease) /\ IsInjective(<<>>) /\ Range(<<>>) = {}
<1>1. DOMAIN <<>> = {} /\ <<>> \in Seq(Lease)
  OBVIOUS
<1> QED BY <1>1 DEF Range, IsInjective

\* No call of #persist takes away what the process is busy with.
LEMMA BusyKeep ==
  ASSUME LeaseInv, NEW l \in Lease, NEW r \in Record, Len(r.attempts) <= MaxAttempts,
         NEW created \in SUBSET Snapshot, Persist(l, r, created),
         Quiet \/ l = Head(todo), NEW k \in Lease, k # l, Busy(k)
  PROVE  record'[k] = record[k] /\ k \in Range(memory)  /\ k \in Range(memory')
<1>1. ~Terminal(record[k]) /\ k \in Range(memory)
  <2>1. LaneSound(k) /\ task[k] \in {"NONE", "QUEUED", "WOKEN", "RUNNING"}
    BY DEF LeaseInv, ProcessTypes
  <2>2. CASE k \in Range(todo)
    <3>1. ~Quiet
      BY <2>2, EmptyRange DEF Quiet
    <3> QED BY <2>1, <2>2, <3>1 DEF LaneSound, Terminal, Held
  <2>3. CASE k \notin Range(todo)
    BY <2>1, <2>3 DEF Busy, LaneSound, Terminal, Held
  <2> QED BY <2>2, <2>3
<1> QED BY <1>1, PersistKeeps DEF LeaseInv, StoreInv

\* What it takes for a step that persists l to preserve the invariant.
LEMMA PersistStep ==
  ASSUME LeaseInv, NEW l \in Lease, NEW r \in Record, Len(r.attempts) <= MaxAttempts,
         RecordSound(r), NEW created \in SUBSET Snapshot, Persist(l, r, created),
         Quiet \/ l = Head(todo),
         ProcessTypes', IsInjective(todo'), LaneSound(l)', SlotsInv',
         \A k \in Lease : k # l => /\ fast'[k] = fast[k] /\ Unmoved(k)
                                   /\ k \in Range(todo') => k \in Range(todo)
  PROVE  LeaseInv'
<1>1. StoreInv'
  BY PersistSound DEF LeaseInv
<1>2. ASSUME NEW k \in Lease, k # l PROVE LaneSound(k)'
  <2>1. LaneSound(k) /\ task[k] \in {"NONE", "QUEUED", "WOKEN", "RUNNING"}
    BY DEF LeaseInv, ProcessTypes
  <2>2. Busy(k) => record'[k] = record[k] /\ k \in Range(memory')
    BY <1>2, BusyKeep
  <2>3. /\ fast'[k] = fast[k] /\ Unmoved(k)
        /\ k \in Range(todo') => k \in Range(todo)
    BY <1>2
  <2>4. k \in Range(todo') => record[k].deep \in {"PENDING", "RUNNING"} /\ task'[k] = "NONE"
    <3>1. Quiet => Range(todo) = {}
      BY EmptyRange DEF Quiet
    <3> QED BY <3>1, <2>1, <2>3, <1>2 DEF LaneSound, Unmoved
  <2>5. fast'[k] # Idle => record'[k].status = "ISSUED" /\ k \in Range(memory')
    BY <2>1, <2>2, <2>3 DEF LaneSound, Busy
  <2>6. /\ task'[k] \in {"QUEUED", "WOKEN"} => record'[k].deep = "PENDING" /\ k \in Range(memory')
        /\ task'[k] = "RUNNING" => record'[k].deep = "RUNNING" /\ k \in Range(memory')
        /\ race'[k] # {} => task'[k] = "QUEUED"
    BY <2>1, <2>2, <2>3 DEF LaneSound, Busy, Unmoved
  <2>7. k \in Range(todo') =>
          record'[k].deep \in {"PENDING", "RUNNING"} /\ k \in Range(memory')
    BY <2>2, <2>3, <2>4 DEF Busy
  <2> QED BY <2>4, <2>5, <2>6, <2>7 DEF LaneSound, Held
<1>3. \A k \in Lease : LaneSound(k)'
  BY <1>2
<1> QED BY <1>1, <1>3 DEF LeaseInv

\* Lanes that end leave the limits respected.
LEMMA SlotsShrink ==
  ASSUME SlotsInv, ActiveDeep' \subseteq ActiveDeep, ActiveFast' \subseteq ActiveFast,
         \A k \in ActiveDeep' : record'[k].signature = record[k].signature
  PROVE  SlotsInv'
<1>1. /\ IsFiniteSet(ActiveDeep') /\ Cardinality(ActiveDeep') <= Cardinality(ActiveDeep)
      /\ IsFiniteSet(ActiveFast') /\ Cardinality(ActiveFast') <= Cardinality(ActiveFast)
  BY FS_Subset DEF SlotsInv
<1>2. /\ Cardinality(ActiveDeep) \in Nat /\ Cardinality(ActiveFast) \in Nat
      /\ Cardinality(ActiveDeep') \in Nat /\ Cardinality(ActiveFast') \in Nat
      /\ DeepLimit \in Nat /\ FastLimit \in Nat
  BY <1>1, FS_CardinalityType, SchedulerAssumption DEF SlotsInv, SchedulerAssumption
<1>3. Cardinality(ActiveDeep) <= DeepLimit /\ Cardinality(ActiveFast) <= FastLimit
  BY DEF SlotsInv, SlotsAreRespected
<1>4. Cardinality(ActiveDeep') <= DeepLimit /\ Cardinality(ActiveFast') <= FastLimit
  BY <1>1, <1>2, <1>3
<1>5. \A k, m \in ActiveDeep' : record'[k].signature = record'[m].signature => k = m
  BY DEF SlotsInv, SlotsAreRespected
<1> QED BY <1>1, <1>4, <1>5 DEF SlotsInv, SlotsAreRespected

\* What it takes for a step that leaves the records alone.
LEMMA RestStep ==
  ASSUME LeaseInv, NEW l \in Lease, UNCHANGED <<record, rows, memory>>, corpora' \subseteq Snapshot,
         Quiet \/ l = Head(todo),
         ProcessTypes', IsInjective(todo'), LaneSound(l)', SlotsInv',
         \A k \in Lease : k # l => /\ fast'[k] = fast[k] /\ Unmoved(k)
                                   /\ k \in Range(todo') => k \in Range(todo)
  PROVE  LeaseInv'
<1>1. StoreInv'
  <2>1. StoreTypeOK'
    BY DEF LeaseInv, StoreInv, StoreTypeOK
  <2> QED BY <2>1 DEF LeaseInv, StoreInv, RecordSound, Unresolved
<1>2. ASSUME NEW k \in Lease, k # l PROVE LaneSound(k)'
  <2>1. LaneSound(k) /\ task[k] \in {"NONE", "QUEUED", "WOKEN", "RUNNING"}
    BY DEF LeaseInv, ProcessTypes
  <2>2. Quiet => Range(todo) = {}
    BY EmptyRange DEF Quiet
  <2>3. /\ fast'[k] = fast[k] /\ Unmoved(k)
        /\ k \in Range(todo') => k \in Range(todo) /\ k # Head(todo)
    BY <1>2, <2>2
  <2> QED BY <2>1, <2>3 DEF LaneSound, Held, Unmoved
<1>3. \A k \in Lease : LaneSound(k)'
  BY <1>2
<1> QED BY <1>1, <1>3 DEF LeaseInv

\* One more fast lane below the limit leaves the limits respected.
LEMMA FastGrows ==
  ASSUME SlotsInv, NEW l, Cardinality(ActiveFast) < FastLimit,
         ActiveFast' = ActiveFast \cup {l}, ActiveDeep' \subseteq ActiveDeep,
         \A k \in ActiveDeep' : record'[k].signature = record[k].signature
  PROVE  SlotsInv'
<1>1. /\ IsFiniteSet(ActiveDeep') /\ Cardinality(ActiveDeep') <= Cardinality(ActiveDeep)
  BY FS_Subset DEF SlotsInv
<1>2. /\ Cardinality(ActiveDeep) \in Nat /\ Cardinality(ActiveFast) \in Nat
      /\ Cardinality(ActiveDeep') \in Nat /\ DeepLimit \in Nat /\ FastLimit \in Nat
  BY <1>1, FS_CardinalityType, SchedulerAssumption DEF SlotsInv, SchedulerAssumption
<1>3. /\ IsFiniteSet(ActiveFast')
      /\ \/ Cardinality(ActiveFast') = Cardinality(ActiveFast)
         \/ Cardinality(ActiveFast') = Cardinality(ActiveFast) + 1
  BY FS_AddElement DEF SlotsInv
<1>4. Cardinality(ActiveDeep') <= DeepLimit /\ Cardinality(ActiveFast') <= FastLimit
  BY <1>1, <1>2, <1>3 DEF SlotsInv, SlotsAreRespected
<1>5. \A k, m \in ActiveDeep' : record'[k].signature = record'[m].signature => k = m
  BY DEF SlotsInv, SlotsAreRespected
<1> QED BY <1>1, <1>3, <1>4, <1>5 DEF SlotsInv, SlotsAreRespected

\* So does one more deep lane with a signature of its own.
LEMMA DeepGrows ==
  ASSUME SlotsInv, NEW l, Cardinality(ActiveDeep) < DeepLimit,
         ActiveDeep' = ActiveDeep \cup {l}, ActiveFast' \subseteq ActiveFast,
         \A k \in ActiveDeep : /\ record'[k].signature = record[k].signature
                               /\ record'[k].signature # record'[l].signature
  PROVE  SlotsInv'
<1>1. /\ IsFiniteSet(ActiveFast') /\ Cardinality(ActiveFast') <= Cardinality(ActiveFast)
  BY FS_Subset DEF SlotsInv
<1>2. /\ Cardinality(ActiveDeep) \in Nat /\ Cardinality(ActiveFast) \in Nat
      /\ Cardinality(ActiveFast') \in Nat /\ DeepLimit \in Nat /\ FastLimit \in Nat
  BY <1>1, FS_CardinalityType, SchedulerAssumption DEF SlotsInv, SchedulerAssumption
<1>3. /\ IsFiniteSet(ActiveDeep')
      /\ \/ Cardinality(ActiveDeep') = Cardinality(ActiveDeep)
         \/ Cardinality(ActiveDeep') = Cardinality(ActiveDeep) + 1
  BY FS_AddElement DEF SlotsInv
<1>4. Cardinality(ActiveDeep') <= DeepLimit /\ Cardinality(ActiveFast') <= FastLimit
  BY <1>1, <1>2, <1>3 DEF SlotsInv, SlotsAreRespected
<1>5. \A k, m \in ActiveDeep' : record'[k].signature = record'[m].signature => k = m
  BY DEF SlotsInv, SlotsAreRespected
<1> QED BY <1>1, <1>3, <1>4, <1>5 DEF SlotsInv, SlotsAreRespected

-----------------------------------------------------------------------------
(* The fast lane *)

\* A lease without a record to work on is not busy with anything else.
LEMMA IssuedIsFree ==
  ASSUME LeaseInv, NEW l \in Lease,
         record[l].status = "ISSUED" \/ ~Held(l)
  PROVE  /\ task[l] = "NONE" /\ race[l] = {}
         /\ l \in Range(todo) => ~Held(l)
<1>1. /\ LaneSound(l) /\ task[l] \in {"NONE", "QUEUED", "WOKEN", "RUNNING"}
      /\ record[l].status # "PASS" => record[l].deep = "NOT_RUN"
  BY DEF LeaseInv, ProcessTypes, StoreInv, RecordSound
<1> QED BY <1>1 DEF LaneSound

\* A lease is issued, or an issued one resumed.
LEMMA BeginSound ==
  ASSUME LeaseInv, NEW l \in Lease, Begin(l)
  PROVE  LeaseInv'
<1>1. /\ Quiet /\ Cardinality(ActiveFast) < FastLimit
      /\ fast' = [fast EXCEPT ![l] = RunningFast]
      /\ UNCHANGED <<task, race, todo, deepEnabled, crashes>>
  BY DEF Begin
<1>2. ProcessTypes /\ SlotsInv /\ IsInjective(todo) /\ Range(todo) = {}
  BY <1>1, EmptyRange DEF LeaseInv, Quiet
<1>3. /\ fast'[l] = RunningFast /\ \A k \in Lease : k # l => fast'[k] = fast[k] /\ Unmoved(k)
  BY <1>1, <1>2 DEF ProcessTypes, Unmoved
<1>4. RunningFast \in [at : {"IDLE", "FAST", "ENRICHING"}, signature : Signature \cup {None},
                       duplicateOf : Lease \cup {None}]
      /\ RunningFast.at # "IDLE"
  BY DEF RunningFast, Idle
<1>5. ActiveFast' = ActiveFast \cup {l} /\ ActiveDeep' = ActiveDeep
  BY <1>1, <1>2, <1>3, <1>4 DEF ActiveFast, ActiveDeep
<1>6. CASE Held(l) /\ record[l].status = "ISSUED" /\ UNCHANGED <<storeVars, known>>
  <2>1. UNCHANGED <<record, rows, memory, corpora>> /\ corpora' \subseteq Snapshot
    BY <1>6 DEF storeVars, LeaseInv, StoreInv, StoreTypeOK
  <2>2. ProcessTypes'
    BY <1>1, <1>2, <1>4, <1>6 DEF ProcessTypes
  <2>3. LaneSound(l)'
    BY <1>1, <1>2, <1>6, <2>1, IssuedIsFree DEF LaneSound, Held
  <2>4. SlotsInv'
    BY <1>1, <1>2, <1>5, <2>1, FastGrows
  <2> QED BY <1>1, <1>2, <1>3, <2>1, <2>2, <2>3, <2>4, RestStep
<1>7. CASE /\ ~Held(l)
           /\ Persist(l, IssuedRecord, {SnapshotOf[l]})
           /\ known' = known \cup {SnapshotOf[l]}
  <2> DEFINE created == {SnapshotOf[l]}
  <2>1. /\ created \in SUBSET Snapshot
        /\ IssuedRecord \in Record /\ RecordSound(IssuedRecord)
        /\ Len(IssuedRecord.attempts) <= MaxAttempts /\ ~Terminal(IssuedRecord)
        /\ IssuedRecord.status = "ISSUED"
    BY StoreAssumption, NewRecords DEF StoreAssumption, Terminal
  <2>2. record'[l] = IssuedRecord /\ l \in Range(memory')
    BY <1>7, <2>1, PersistKeeps DEF LeaseInv, StoreInv
  <2>3. ProcessTypes'
    BY <1>1, <1>2, <1>4, <1>7, <2>1 DEF ProcessTypes
  <2>4. LaneSound(l)'
    BY <1>1, <1>2, <1>7, <2>1, <2>2, IssuedIsFree DEF LaneSound, Held
  <2>5. \A k \in ActiveDeep' : record'[k].signature = record[k].signature
    <3> TAKE k \in ActiveDeep'
    <3>1. k \in Lease /\ task[k] = "RUNNING" /\ k # l /\ Busy(k)
      BY <1>5, <1>7, IssuedIsFree DEF ActiveDeep, Busy
    <3> QED BY <3>1, <1>1, <1>7, <2>1, BusyKeep
  <2>6. SlotsInv'
    BY <1>1, <1>2, <1>5, <2>5, FastGrows
  <2> HIDE DEF created
  <2> QED BY <1>1, <1>2, <1>3, <1>7, <2>1, <2>3, <2>4, <2>6, PersistStep DEF created
<1> QED BY <1>6, <1>7 DEF Begin

\* A refused save leaves a corpus behind, and no record.
LEMMA BeginRefusedSound ==
  ASSUME LeaseInv, NEW l \in Lease, BeginRefused(l)
  PROVE  LeaseInv'
<1>1. /\ Quiet /\ UNCHANGED <<record, rows, memory, fast, task, race, todo, deepEnabled, crashes>>
      /\ corpora' = corpora \cup {SnapshotOf[l]} /\ known' = known \cup {SnapshotOf[l]}
  BY DEF BeginRefused
<1>2. SnapshotOf[l] \in Snapshot
  BY StoreAssumption DEF StoreAssumption
<1>3. corpora' \subseteq Snapshot
  BY <1>1, <1>2 DEF LeaseInv, StoreInv, StoreTypeOK
<1>4. ProcessTypes' /\ IsInjective(todo')
  BY <1>1, <1>2 DEF LeaseInv, ProcessTypes
<1>5. LaneSound(l)'
  BY <1>1 DEF LeaseInv, LaneSound, Held
<1>6. SlotsInv'
  BY <1>1 DEF LeaseInv, SlotsInv, SlotsAreRespected, ActiveDeep, ActiveFast
<1>7. \A k \in Lease : fast'[k] = fast[k] /\ Unmoved(k)
  BY <1>1 DEF Unmoved
<1> QED BY <1>1, <1>3, <1>4, <1>5, <1>6, <1>7, RestStep

\* The original of a duplicate is a lease.
LEMMA DuplicateIsLease ==
  ASSUME LeaseInv, NEW l \in Lease, NEW s
  PROVE  DuplicateOf(l, s) \in Lease \cup {None}
<1> DEFINE same == Only(memory, {k \in Lease : /\ k # l /\ record[k].status = "PASS"
                                              /\ record[k].signature = s})
<1>1. same \in Seq(Lease)
  BY OnlyKeeps DEF LeaseInv, StoreInv, StoreTypeOK
<1>2. same # <<>> => Head(same) \in Lease
  <2> HIDE DEF same
  <2> QED BY <1>1
<1>3. Holder(s) # {} => (CHOOSE k \in Holder(s) : TRUE) \in Lease
  <2>1. Holder(s) \subseteq Lease
    BY DEF Holder, ActiveDeep
  <2> QED BY <2>1
<1> QED BY <1>2, <1>3 DEF DuplicateOf

\* The checkpoint ends the fast lane and schedules the deep one.
LEMMA CheckpointSound ==
  ASSUME LeaseInv, NEW l \in Lease, Quiet, fast[l] # Idle,
         NEW s \in Signature \cup {None}, NEW duplicate \in Lease \cup {None},
         NEW blocked \in BOOLEAN, Checkpoint(l, s, duplicate, blocked)
  PROVE  LeaseInv'
<1> DEFINE r == IF s = None \/ blocked THEN PassRecord("NOT_RUN", None, None)
                ELSE IF duplicate # None THEN PassRecord("NOT_RUN", s, duplicate)
                ELSE IF ~deepEnabled THEN PassRecord("NOT_RUN", s, None)
                ELSE PassRecord("PENDING", s, None)
<1>1. /\ Persist(l, r, {})
      /\ fast' = [fast EXCEPT ![l] = Idle]
      /\ todo' = IF r.deep = "PENDING" THEN <<l>> ELSE <<>>
      /\ UNCHANGED <<task, race, deepEnabled, known, crashes>>
  BY DEF Checkpoint
<1>2. /\ r \in Record /\ RecordSound(r) /\ Len(r.attempts) <= MaxAttempts
      /\ r.status = "PASS"
  BY PassRecords
<1> HIDE DEF r
<1>3. record'[l] = r /\ (r.deep = "PENDING" => l \in Range(memory'))
  BY <1>1, <1>2, PersistKeeps DEF LeaseInv, StoreInv, Terminal
<1>4. ProcessTypes /\ SlotsInv /\ task[l] = "NONE" /\ race[l] = {}
  BY IssuedIsFree DEF LeaseInv, LaneSound
<1>5. Idle \in [at : {"IDLE", "FAST", "ENRICHING"}, signature : Signature \cup {None},
                duplicateOf : Lease \cup {None}] /\ Idle.at = "IDLE"
  BY DEF Idle
<1>6. fast'[l] = Idle /\ \A k \in Lease : k # l => fast'[k] = fast[k] /\ Unmoved(k)
  BY <1>1, <1>4 DEF ProcessTypes, Unmoved
<1>7. /\ todo' \in Seq(Lease) /\ IsInjective(todo') /\ Range(todo') \subseteq {l}
      /\ r.deep # "PENDING" => Range(todo') = {}
  BY <1>1, SingleRange, EmptyRange
<1>8. ProcessTypes'
  BY <1>1, <1>4, <1>5, <1>7 DEF ProcessTypes
<1>9. LaneSound(l)'
  BY <1>1, <1>3, <1>4, <1>6, <1>7 DEF LaneSound, Held
<1>10. SlotsInv'
  <2>1. ActiveDeep' = ActiveDeep /\ ActiveFast' \subseteq ActiveFast
    BY <1>1, <1>5, <1>6 DEF ActiveDeep, ActiveFast
  <2>2. \A k \in ActiveDeep' : record'[k].signature = record[k].signature
    <3> TAKE k \in ActiveDeep'
    <3>1. k \in Lease /\ k # l /\ Busy(k)
      BY <2>1, <1>4 DEF ActiveDeep, Busy
    <3> QED BY <3>1, <1>1, <1>2, BusyKeep
  <2> QED BY <1>4, <2>1, <2>2, SlotsShrink
<1>11. \A k \in Lease : k # l => k \notin Range(todo')
  BY <1>7
<1> QED BY <1>1, <1>2, <1>6, <1>7, <1>8, <1>9, <1>10, <1>11, PersistStep

\* runFast resolves.
LEMMA FastReturnsSound ==
  ASSUME LeaseInv, NEW l \in Lease, NEW s \in Signature \cup {None}, FastReturns(l, s)
  PROVE  LeaseInv'
<1> DEFINE duplicate == IF s = None THEN None ELSE DuplicateOf(l, s)
<1>1. Quiet /\ fast[l] # Idle /\ duplicate \in Lease \cup {None}
  BY DuplicateIsLease DEF FastReturns, Idle
<1>2. CASE \E blocked \in BOOLEAN : Checkpoint(l, s, duplicate, blocked)
  <2> HIDE DEF duplicate
  <2> QED BY <1>1, <1>2, CheckpointSound
<1>3. CASE /\ fast' = [fast EXCEPT ![l] =
                [at |-> "ENRICHING", signature |-> s, duplicateOf |-> duplicate]]
           /\ UNCHANGED <<storeVars, task, race, todo, deepEnabled, known, crashes>>
  <2> HIDE DEF duplicate
  <2>1. UNCHANGED <<record, rows, memory, corpora, task, race, todo, deepEnabled, known, crashes>>
    BY <1>3 DEF storeVars
  <2>2. /\ ProcessTypes /\ LaneSound(l) /\ SlotsInv /\ IsInjective(todo')
        /\ corpora' \subseteq Snapshot
    BY <2>1 DEF LeaseInv, StoreInv, StoreTypeOK
  <2>3. fast'[l].at = "ENRICHING" /\ \A k \in Lease : k # l => fast'[k] = fast[k] /\ Unmoved(k)
    BY <1>3, <2>1, <2>2 DEF ProcessTypes, Unmoved
  <2>4. ProcessTypes'
    BY <1>1, <1>3, <2>1, <2>2 DEF ProcessTypes
  <2>5. LaneSound(l)'
    BY <1>1, <2>1, <2>2 DEF LaneSound, Held
  <2>6. fast[l].at # "IDLE"
    BY <1>1 DEF FastReturns
  <2>7. ActiveDeep' = ActiveDeep /\ ActiveFast' = ActiveFast
    BY <2>1, <2>3, <2>6 DEF ActiveDeep, ActiveFast
  <2>8. SlotsInv'
    BY <2>1, <2>2, <2>7, SlotsShrink
  <2> QED BY <1>1, <2>1, <2>2, <2>3, <2>4, <2>5, <2>8, RestStep
<1> QED BY <1>2, <1>3 DEF FastReturns

\* enrichPrices resolves.
LEMMA PricesReturnSound ==
  ASSUME LeaseInv, NEW l \in Lease, PricesReturn(l)
  PROVE  LeaseInv'
<1>1. fast[l] # Idle /\ Quiet
  BY DEF PricesReturn, Idle
<1>2. fast[l].signature \in Signature \cup {None} /\ fast[l].duplicateOf \in Lease \cup {None}
  BY DEF LeaseInv, ProcessTypes
<1> QED BY <1>1, <1>2, CheckpointSound DEF PricesReturn

\* An issued lease is closed as failed.
LEMMA FailSound ==
  ASSUME LeaseInv, NEW l \in Lease, Quiet, record[l].status = "ISSUED",
         Persist(l, FailedRecord, {}), fast' = [fast EXCEPT ![l] = Idle],
         UNCHANGED <<task, race, todo, deepEnabled, known, crashes>>
  PROVE  LeaseInv'
<1>1. /\ FailedRecord \in Record /\ RecordSound(FailedRecord)
      /\ Len(FailedRecord.attempts) <= MaxAttempts
  BY NewRecords
<1>2. /\ ProcessTypes /\ SlotsInv /\ task[l] = "NONE" /\ race[l] = {}
      /\ IsInjective(todo') /\ Range(todo) = {}
  BY IssuedIsFree, EmptyRange DEF LeaseInv, Quiet
<1>3. Idle \in [at : {"IDLE", "FAST", "ENRICHING"}, signature : Signature \cup {None},
                duplicateOf : Lease \cup {None}] /\ Idle.at = "IDLE"
  BY DEF Idle
<1>4. fast'[l] = Idle /\ \A k \in Lease : k # l => fast'[k] = fast[k] /\ Unmoved(k)
  BY <1>2 DEF ProcessTypes, Unmoved
<1>5. ProcessTypes'
  BY <1>2, <1>3 DEF ProcessTypes
<1>6. LaneSound(l)'
  BY <1>2, <1>4 DEF LaneSound
<1>7. SlotsInv'
  <2>1. ActiveDeep' = ActiveDeep /\ ActiveFast' \subseteq ActiveFast
    BY <1>3, <1>4 DEF ActiveDeep, ActiveFast
  <2>2. \A k \in ActiveDeep' : record'[k].signature = record[k].signature
    <3> TAKE k \in ActiveDeep'
    <3>1. k \in Lease /\ k # l /\ Busy(k)
      BY <2>1, <1>2 DEF ActiveDeep, Busy
    <3> QED BY <3>1, <1>1, BusyKeep
  <2> QED BY <1>2, <2>1, <2>2, SlotsShrink
<1> QED BY <1>1, <1>2, <1>4, <1>5, <1>6, <1>7, PersistStep

\* A fast lane throws: its lease was issued.
LEMMA FastFailsSound ==
  ASSUME LeaseInv, NEW l \in Lease, FastFails(l)
  PROVE  LeaseInv'
<1>1. record[l].status = "ISSUED"
  BY DEF FastFails, LeaseInv, LaneSound, Idle
<1> QED BY <1>1, FailSound DEF FastFails

\* A lease that nobody runs is closed.
LEMMA FailIssuedSound ==
  ASSUME LeaseInv, NEW l \in Lease, FailIssued(l)
  PROVE  LeaseInv'
<1>1. fast' = [fast EXCEPT ![l] = Idle]
  BY DEF FailIssued, procVars, LeaseInv, ProcessTypes
<1> QED BY <1>1, FailSound DEF FailIssued, procVars

-----------------------------------------------------------------------------
(* The deep lane *)

\* The lease that the running piece of code deals with.
LEMMA HeadFacts ==
  ASSUME LeaseInv, ~Quiet
  PROVE  LET l == Head(todo) IN
         /\ l \in Lease /\ l \in Range(todo) /\ task[l] = "NONE" /\ race[l] = {}
         /\ record[l] \in Record /\ RecordSound(record[l])
         /\ Len(record[l].attempts) <= MaxAttempts
         /\ record[l].deep = "FAILED" => Len(record[l].attempts) < MaxAttempts
         /\ record[l].deep # "FAILED" => record[l].deep \in {"PENDING", "RUNNING"} /\ Held(l)
         /\ fast[l] = Idle
         /\ Tail(todo) \in Seq(Lease) /\ IsInjective(Tail(todo))
         /\ Range(Tail(todo)) = Range(todo) \ {l}
<1> DEFINE l == Head(todo)
<1>1. todo \in Seq(Lease) /\ todo # <<>> /\ IsInjective(todo)
  BY DEF LeaseInv, ProcessTypes, Quiet
<1>2. /\ Tail(todo) \in Seq(Lease) /\ IsInjective(Tail(todo))
      /\ l \in Range(todo) /\ l \in Lease
      /\ Range(Tail(todo)) = Range(todo) \ {l}
  BY <1>1, TailRange
<1> HIDE DEF l
<1>3. LaneSound(l) /\ record[l] \in Record /\ RecordSound(record[l])
      /\ Len(record[l].attempts) <= MaxAttempts
  BY <1>2 DEF LeaseInv, StoreInv, StoreTypeOK
<1> QED BY <1>2, <1>3 DEF LaneSound, RecordSound, l

\* Whoever else runs keeps its slot and its signature.
LEMMA SlotsStay ==
  ASSUME LeaseInv, NEW l \in Lease, NEW r \in Record, Len(r.attempts) <= MaxAttempts,
         NEW created \in SUBSET Snapshot, Persist(l, r, created),
         Quiet \/ l = Head(todo), fast' = fast,
         \A k \in ActiveDeep' : k \in ActiveDeep /\ k # l
  PROVE  SlotsInv'
<1>1. ActiveDeep' \subseteq ActiveDeep /\ ActiveFast' \subseteq ActiveFast
  BY DEF ActiveFast
<1>2. \A k \in ActiveDeep' : record'[k].signature = record[k].signature
  <2> TAKE k \in ActiveDeep'
  <2>1. k \in Lease /\ k # l /\ Busy(k)
    BY DEF ActiveDeep, Busy
  <2> QED BY <2>1, BusyKeep
<1> QED BY <1>1, <1>2, SlotsShrink DEF LeaseInv

\* An interrupted attempt is closed as failed, and retried within the budget.
LEMMA InterruptSound ==
  ASSUME LeaseInv, NEW l \in Lease, l = Head(todo), Interrupt
  PROVE  LeaseInv'
<1> DEFINE r == LastAttempt(record[l], "FAILED")
<1>1. /\ ~Quiet /\ record[l].deep = "RUNNING" /\ Persist(l, r, {})
      /\ todo' = IF Len(record[l].attempts) >= MaxAttempts THEN Tail(todo) ELSE todo
      /\ UNCHANGED <<fast, task, race, deepEnabled, known, crashes>>
  BY DEF Interrupt
<1>2. /\ task[l] = "NONE" /\ race[l] = {} /\ fast[l] = Idle
      /\ record[l] \in Record /\ RecordSound(record[l])
      /\ Len(record[l].attempts) <= MaxAttempts
      /\ Tail(todo) \in Seq(Lease) /\ IsInjective(Tail(todo))
      /\ Range(Tail(todo)) = Range(todo) \ {l}
  BY <1>1, HeadFacts
<1>3. /\ r \in Record /\ RecordSound(r) /\ Len(r.attempts) = Len(record[l].attempts)
      /\ Len(r.attempts) <= MaxAttempts /\ r.deep = "FAILED"
  BY <1>1, <1>2, EndedRecords
<1> HIDE DEF r
<1>4. record'[l] = r
  BY <1>1, <1>2, <1>3, PersistKeeps DEF LeaseInv, StoreInv
<1>5. ProcessTypes /\ IsInjective(todo)
  BY DEF LeaseInv
<1>6. ProcessTypes' /\ IsInjective(todo') /\ Range(todo') \subseteq Range(todo)
  BY <1>1, <1>2, <1>5 DEF ProcessTypes
<1>7. LaneSound(l)'
  <2>1. l \in Range(todo') => l = Head(todo') /\ Len(r.attempts) < MaxAttempts
    <3>1. Len(record[l].attempts) \in Nat /\ MaxAttempts \in Nat
      BY <1>2, StoreAssumption DEF StoreAssumption, Record
    <3> QED BY <1>1, <1>2, <1>3, <3>1
  <2>2. fast'[l] = Idle /\ task'[l] = "NONE" /\ race'[l] = {}
    BY <1>1, <1>2
  <2> QED BY <1>3, <1>4, <2>1, <2>2 DEF LaneSound
<1>8. SlotsInv'
  <2>1. \A k \in ActiveDeep' : k \in ActiveDeep /\ k # l
    BY <1>1, <1>2 DEF ActiveDeep
  <2> QED BY <1>1, <1>2, <1>3, <2>1, SlotsStay
<1>9. \A k \in Lease : fast'[k] = fast[k] /\ Unmoved(k)
  BY <1>1 DEF Unmoved
<1>10. \A k \in Lease : k \in Range(todo') => k \in Range(todo)
  BY <1>6
<1> QED BY <1>1, <1>2, <1>3, <1>6, <1>7, <1>8, <1>9, <1>10, PersistStep

\* A failed stage at the head of todo is within its budget.
LEMMA MakePendingSound ==
  ASSUME LeaseInv, NEW l \in Lease, l = Head(todo), MakePending
  PROVE  LeaseInv'
<1> DEFINE r == [record[l] EXCEPT !.deep = "PENDING"]
<1>1. /\ ~Quiet /\ record[l].deep = "FAILED" /\ Persist(l, r, {})
      /\ UNCHANGED <<fast, task, race, todo, deepEnabled, known, crashes>>
  BY DEF MakePending, procVars
<1>2. /\ task[l] = "NONE" /\ race[l] = {} /\ fast[l] = Idle
      /\ record[l] \in Record /\ RecordSound(record[l])
      /\ Len(record[l].attempts) < MaxAttempts
  BY <1>1, HeadFacts
<1>3. /\ r \in Record /\ RecordSound(r)
      /\ Len(r.attempts) <= MaxAttempts /\ r.deep = "PENDING" /\ ~Terminal(r)
  BY <1>1, <1>2, PendingRecords DEF Terminal
<1> HIDE DEF r
<1>4. record'[l] = r /\ l \in Range(memory')
  BY <1>1, <1>2, <1>3, PersistKeeps DEF LeaseInv, StoreInv
<1>5. ProcessTypes' /\ IsInjective(todo')
  BY <1>1 DEF LeaseInv, ProcessTypes
<1>6. LaneSound(l)'
  <2>1. fast'[l] = Idle /\ task'[l] = "NONE" /\ race'[l] = {}
    BY <1>1, <1>2
  <2> QED BY <1>3, <1>4, <2>1 DEF LaneSound, Held
<1>7. SlotsInv'
  <2>1. \A k \in ActiveDeep' : k \in ActiveDeep /\ k # l
    BY <1>1, <1>2 DEF ActiveDeep
  <2> QED BY <1>1, <1>2, <1>3, <2>1, SlotsStay
<1>8. \A k \in Lease : /\ fast'[k] = fast[k] /\ Unmoved(k)
                       /\ k \in Range(todo') => k \in Range(todo)
  BY <1>1 DEF Unmoved
<1> QED BY <1>1, <1>2, <1>3, <1>5, <1>6, <1>7, <1>8, PersistStep

\* A lease that finds no slot waits for the lanes that run.
LEMMA EnqueueSound ==
  ASSUME LeaseInv, NEW l \in Lease, l = Head(todo), ~Quiet, record[l].deep = "PENDING",
         Enqueue(l), UNCHANGED <<fast, deepEnabled, known, crashes>>
  PROVE  LeaseInv'
<1>1. /\ task' = [task EXCEPT ![l] = "QUEUED"]
      /\ race' = [race EXCEPT ![l] = ActiveDeep]
      /\ todo' = Tail(todo)
      /\ UNCHANGED <<record, rows, memory, corpora, fast, deepEnabled, known, crashes>>
  BY DEF Enqueue, storeVars
<1>2. /\ task[l] = "NONE" /\ fast[l] = Idle /\ Held(l)
      /\ Tail(todo) \in Seq(Lease) /\ IsInjective(Tail(todo))
      /\ Range(Tail(todo)) = Range(todo) \ {l}
  BY HeadFacts
<1>3. ProcessTypes /\ SlotsInv /\ corpora' \subseteq Snapshot
  BY <1>1 DEF LeaseInv, StoreInv, StoreTypeOK
<1>4. /\ task'[l] = "QUEUED"
      /\ \A k \in Lease : k # l => task'[k] = task[k] /\ race'[k] = race[k]
  BY <1>1, <1>3 DEF ProcessTypes
<1>5. ActiveDeep \in SUBSET Lease
  BY DEF ActiveDeep
<1>6. ProcessTypes'
  BY <1>1, <1>2, <1>3, <1>5 DEF ProcessTypes
<1>7. l \notin Range(todo')
  BY <1>1, <1>2
<1>8. LaneSound(l)'
  BY <1>1, <1>2, <1>4, <1>7 DEF LaneSound, Held
<1>9. SlotsInv'
  <2>1. ActiveDeep' = ActiveDeep /\ ActiveFast' = ActiveFast
    BY <1>1, <1>2, <1>4 DEF ActiveDeep, ActiveFast
  <2> QED BY <1>1, <1>3, <2>1, SlotsShrink
<1>10. \A k \in Lease : k # l => /\ fast'[k] = fast[k] /\ Unmoved(k)
                                 /\ k \in Range(todo') => k \in Range(todo)
  BY <1>1, <1>2, <1>4 DEF Unmoved
<1> QED BY <1>1, <1>2, <1>3, <1>6, <1>8, <1>9, <1>10, RestStep

\* A lane starts: nobody else holds its signature.
LEMMA RunDeepSound ==
  ASSUME LeaseInv, NEW l \in Lease, l = Head(todo), ~Quiet, record[l].deep = "PENDING",
         RunDeep(l), UNCHANGED <<fast, deepEnabled, known, crashes>>
  PROVE  LeaseInv'
<1> DEFINE r == [record[l] EXCEPT !.deep = "RUNNING", !.attempts = Append(@, "RUNNING")]
<1>1. /\ Cardinality(ActiveDeep) < DeepLimit
      /\ Holder(record[l].signature) \subseteq {l}
      /\ Persist(l, r, {})
      /\ task' = [task EXCEPT ![l] = "RUNNING"]
      /\ todo' = Tail(todo)
      /\ UNCHANGED <<race, fast, deepEnabled, known, crashes>>
  BY DEF RunDeep
<1>2. /\ task[l] = "NONE" /\ fast[l] = Idle /\ race[l] = {}
      /\ record[l] \in Record /\ RecordSound(record[l])
      /\ Tail(todo) \in Seq(Lease) /\ IsInjective(Tail(todo))
      /\ Range(Tail(todo)) = Range(todo) \ {l}
  BY HeadFacts
<1>3. /\ r \in Record /\ RecordSound(r) /\ Len(r.attempts) <= MaxAttempts
      /\ r.deep = "RUNNING" /\ ~Terminal(r) /\ r.signature = record[l].signature
  BY <1>2, StartedRecords DEF Terminal
<1> HIDE DEF r
<1>4. record'[l] = r /\ l \in Range(memory')
  BY <1>1, <1>3, PersistKeeps DEF LeaseInv, StoreInv
<1>5. ProcessTypes /\ SlotsInv
  BY DEF LeaseInv
<1>6. task'[l] = "RUNNING" /\ \A k \in Lease : k # l => task'[k] = task[k]
  BY <1>1, <1>5 DEF ProcessTypes
<1>7. ProcessTypes'
  BY <1>1, <1>2, <1>5 DEF ProcessTypes
<1>8. LaneSound(l)'
  <2>1. l \notin Range(todo') /\ fast'[l] = Idle /\ race'[l] = {}
    BY <1>1, <1>2
  <2> QED BY <1>3, <1>4, <1>6, <2>1 DEF LaneSound, Held
<1>9. SlotsInv'
  <2>1. ActiveDeep' = ActiveDeep \cup {l} /\ ActiveFast' \subseteq ActiveFast
    BY <1>1, <1>6 DEF ActiveDeep, ActiveFast
  <2>2. ASSUME NEW k \in ActiveDeep
        PROVE  /\ record'[k].signature = record[k].signature
               /\ record'[k].signature # record'[l].signature
    <3>1. k \in Lease /\ k # l /\ Busy(k)
      BY <1>2 DEF ActiveDeep, Busy
    <3>2. record'[k] = record[k]
      BY <3>1, <1>1, <1>3, BusyKeep
    <3>3. record[k].signature # record[l].signature
      BY <3>1, <1>1 DEF Holder
    <3> QED BY <3>2, <3>3, <1>3, <1>4
  <2> QED BY <1>1, <1>5, <2>1, <2>2, DeepGrows
<1>10. \A k \in Lease : k # l => /\ fast'[k] = fast[k] /\ Unmoved(k)
                                 /\ k \in Range(todo') => k \in Range(todo)
  BY <1>1, <1>2, <1>6 DEF Unmoved
<1> QED BY <1>1, <1>2, <1>3, <1>7, <1>8, <1>9, <1>10, PersistStep

\* A lease whose signature is held leaves todo, as a duplicate or by an exception.
LEMMA BecomeDuplicateSound ==
  ASSUME LeaseInv, NEW l \in Lease, l = Head(todo), ~Quiet, record[l].deep = "PENDING",
         BecomeDuplicate(l), UNCHANGED <<fast, deepEnabled, known, crashes>>
  PROVE  LeaseInv'
<1>1. PICK k \in Holder(record[l].signature) \ {l} :
        \/ /\ Persist(l, PassRecord("NOT_RUN", record[l].signature, k), {})
           /\ todo' = Tail(todo)
        \/ todo' = <<>> /\ UNCHANGED storeVars
  BY DEF BecomeDuplicate
<1> DEFINE r == PassRecord("NOT_RUN", record[l].signature, k)
<1>2. UNCHANGED <<task, race, fast, deepEnabled, known, crashes>>
  BY DEF BecomeDuplicate
<1>3. /\ task[l] = "NONE" /\ fast[l] = Idle /\ race[l] = {}
      /\ record[l] \in Record
      /\ Tail(todo) \in Seq(Lease) /\ IsInjective(Tail(todo))
      /\ Range(Tail(todo)) = Range(todo) \ {l}
  BY HeadFacts
<1>4. /\ todo' \in Seq(Lease) /\ IsInjective(todo') /\ Range(todo') \subseteq Range(todo)
      /\ l \notin Range(todo')
  BY <1>1, <1>3, EmptyRange
<1>5. ProcessTypes /\ SlotsInv
  BY DEF LeaseInv
<1>6. ProcessTypes'
  BY <1>2, <1>4, <1>5 DEF ProcessTypes
<1>7. LaneSound(l)'
  BY <1>2, <1>3, <1>4 DEF LaneSound
<1>8. ActiveDeep' = ActiveDeep /\ ActiveFast' = ActiveFast
  BY <1>2 DEF ActiveDeep, ActiveFast
<1>9. \A m \in Lease : /\ fast'[m] = fast[m] /\ Unmoved(m)
                       /\ m \in Range(todo') => m \in Range(todo)
  BY <1>2, <1>4 DEF Unmoved
<1>10. CASE Persist(l, r, {})
  <2>1. k \in Lease /\ record[l].signature \in Signature \cup {None}
    BY <1>1, <1>3 DEF Holder, ActiveDeep, Record
  <2>2. r \in Record /\ RecordSound(r) /\ Len(r.attempts) <= MaxAttempts
    BY <2>1, PassRecords
  <2> HIDE DEF r
  <2>3. \A m \in ActiveDeep' : m \in ActiveDeep /\ m # l
    BY <1>3, <1>8 DEF ActiveDeep
  <2>4. SlotsInv'
    BY <1>2, <1>10, <2>2, <2>3, SlotsStay
  <2> QED BY <1>4, <1>6, <1>7, <1>9, <1>10, <2>2, <2>4, PersistStep
<1>11. CASE UNCHANGED storeVars
  <2>1. UNCHANGED <<record, rows, memory, corpora>> /\ corpora' \subseteq Snapshot
    BY <1>11 DEF storeVars, LeaseInv, StoreInv, StoreTypeOK
  <2>2. SlotsInv'
    BY <1>5, <1>8, <2>1, SlotsShrink
  <2> QED BY <1>4, <1>6, <1>7, <1>9, <2>1, <2>2, RestStep
<1> QED BY <1>1, <1>10, <1>11

\* A lease that is launched while the lane is switched off stays as it is.
LEMMA LaunchRejectedSound ==
  ASSUME LeaseInv, NEW l \in Lease, l = Head(todo), ~Quiet,
         LaunchRejected, UNCHANGED <<fast, deepEnabled, known, crashes>>
  PROVE  LeaseInv'
<1>1. /\ todo' = Tail(todo)
      /\ UNCHANGED <<record, rows, memory, corpora, task, race, fast, deepEnabled, known, crashes>>
  BY DEF LaunchRejected, storeVars
<1>2. /\ task[l] = "NONE" /\ fast[l] = Idle /\ race[l] = {}
      /\ Tail(todo) \in Seq(Lease) /\ IsInjective(Tail(todo))
      /\ Range(Tail(todo)) = Range(todo) \ {l}
  BY HeadFacts
<1>3. ProcessTypes /\ SlotsInv /\ corpora' \subseteq Snapshot
  BY <1>1 DEF LeaseInv, StoreInv, StoreTypeOK
<1>4. ProcessTypes'
  BY <1>1, <1>2, <1>3 DEF ProcessTypes
<1>5. LaneSound(l)'
  BY <1>1, <1>2 DEF LaneSound
<1>6. SlotsInv'
  <2>1. ActiveDeep' = ActiveDeep /\ ActiveFast' = ActiveFast
    BY <1>1 DEF ActiveDeep, ActiveFast
  <2> QED BY <1>1, <1>3, <2>1, SlotsShrink
<1>7. \A k \in Lease : k # l => /\ fast'[k] = fast[k] /\ Unmoved(k)
                                /\ k \in Range(todo') => k \in Range(todo)
  BY <1>1, <1>2 DEF Unmoved
<1> QED BY <1>1, <1>2, <1>3, <1>4, <1>5, <1>6, <1>7, RestStep

\* #launchDeep, all together.
LEMMA LaunchDeepSound ==
  ASSUME LeaseInv, NEW l \in Lease, l = Head(todo), LaunchDeep
  PROVE  LeaseInv'
<1>1. ~Quiet /\ record[l].deep = "PENDING" /\ UNCHANGED <<fast, deepEnabled, known, crashes>>
  BY DEF LaunchDeep
<1>2. Enqueue(l) \/ RunDeep(l) \/ BecomeDuplicate(l) \/ LaunchRejected
  BY DEF LaunchDeep
<1> QED BY <1>1, <1>2, EnqueueSound, RunDeepSound, BecomeDuplicateSound, LaunchRejectedSound

\* A lane ends and wakes whoever waits for it.
LEMMA DeepReturnsSound ==
  ASSUME LeaseInv, NEW l \in Lease, NEW status \in {"PASS", "FAILED"}, DeepReturns(l, status)
  PROVE  LeaseInv'
<1> DEFINE r == LastAttempt(record[l], status)
<1>1. /\ Quiet /\ task[l] = "RUNNING" /\ Persist(l, r, {})
      /\ task' = [k \in Lease |-> IF k = l THEN "NONE"
                                  ELSE IF l \in race[k] THEN "WOKEN" ELSE task[k]]
      /\ race' = [k \in Lease |-> IF l \in race[k] THEN {} ELSE race[k]]
      /\ UNCHANGED <<fast, todo, deepEnabled, known, crashes>>
  BY DEF DeepReturns
<1>2. /\ record[l] \in Record /\ RecordSound(record[l])
      /\ Len(record[l].attempts) <= MaxAttempts /\ record[l].deep = "RUNNING"
      /\ LaneSound(l)
  BY <1>1 DEF LeaseInv, StoreInv, StoreTypeOK, LaneSound
<1>3. r \in Record /\ RecordSound(r) /\ Len(r.attempts) <= MaxAttempts
  BY <1>2, EndedRecords
<1> HIDE DEF r
<1>4. ProcessTypes /\ IsInjective(todo') /\ Range(todo') = {}
  BY <1>1, EmptyRange DEF LeaseInv, Quiet
<1>5. \A k \in Lease : /\ task'[k] \in {"NONE", "QUEUED", "WOKEN", "RUNNING"}
                      /\ race'[k] \in SUBSET Lease
  BY <1>1, <1>4 DEF ProcessTypes
<1>6. ProcessTypes'
  BY <1>1, <1>4, <1>5 DEF ProcessTypes
<1>7. fast[l] = Idle /\ race[l] = {}
  BY <1>1, <1>2 DEF LaneSound, RecordSound
<1>8. task'[l] = "NONE" /\ race'[l] = {} /\ fast'[l] = Idle
  BY <1>1, <1>7
<1>9. LaneSound(l)'
  BY <1>4, <1>8 DEF LaneSound
<1>10. SlotsInv'
  <2>1. \A k \in ActiveDeep' : k \in ActiveDeep /\ k # l
    BY <1>1 DEF ActiveDeep
  <2> QED BY <1>1, <1>3, <2>1, SlotsStay
<1>11. ASSUME NEW k \in Lease, k # l PROVE Unmoved(k)
  <2>1. race[k] # {} => task[k] = "QUEUED"
    BY DEF LeaseInv, LaneSound
  <2> QED BY <1>1, <1>11, <2>1 DEF Unmoved
<1> QED BY <1>1, <1>3, <1>4, <1>6, <1>9, <1>10, <1>11, PersistStep

\* A woken lease is the next to be launched.
LEMMA WakeSound ==
  ASSUME LeaseInv, NEW l \in Lease, Wake(l)
  PROVE  LeaseInv'
<1>1. /\ Quiet /\ task[l] = "WOKEN" /\ task' = [task EXCEPT ![l] = "NONE"] /\ todo' = <<l>>
      /\ UNCHANGED <<record, rows, memory, corpora, fast, race, deepEnabled, known, crashes>>
  BY DEF Wake, storeVars
<1>2. ProcessTypes /\ SlotsInv /\ corpora' \subseteq Snapshot
  BY <1>1 DEF LeaseInv, StoreInv, StoreTypeOK
<1>3. LaneSound(l) /\ RecordSound(record[l])
  BY DEF LeaseInv, StoreInv
<1>4. fast[l] = Idle /\ race[l] = {} /\ record[l].deep = "PENDING" /\ Held(l)
  BY <1>1, <1>3 DEF LaneSound, RecordSound
<1>5. task'[l] = "NONE" /\ \A k \in Lease : k # l => task'[k] = task[k]
  BY <1>1, <1>2 DEF ProcessTypes
<1>6. todo' \in Seq(Lease) /\ IsInjective(todo') /\ Range(todo') = {l} /\ Head(todo') = l
  BY <1>1, SingleRange
<1>7. ProcessTypes'
  BY <1>1, <1>2, <1>6 DEF ProcessTypes
<1>8. LaneSound(l)'
  BY <1>1, <1>4, <1>5 DEF LaneSound, Held
<1>9. SlotsInv'
  <2>1. ActiveDeep' = ActiveDeep /\ ActiveFast' = ActiveFast
    BY <1>1, <1>5 DEF ActiveDeep, ActiveFast
  <2> QED BY <1>1, <1>2, <2>1, SlotsShrink
<1>10. \A k \in Lease : k # l => /\ fast'[k] = fast[k] /\ Unmoved(k)
                                 /\ k \in Range(todo') => k \in Range(todo)
  BY <1>1, <1>5, <1>6 DEF Unmoved
<1> QED BY <1>1, <1>2, <1>6, <1>7, <1>8, <1>9, <1>10, RestStep

\* A retried lease is the next to be launched, within its budget.
LEMMA RetryDeepSound ==
  ASSUME LeaseInv, NEW l \in Lease, RetryDeep(l)
  PROVE  LeaseInv'
<1>1. /\ Quiet /\ task[l] = "NONE" /\ Held(l) /\ record[l].deep = "FAILED"
      /\ Len(record[l].attempts) < MaxAttempts /\ todo' = <<l>>
      /\ UNCHANGED <<record, rows, memory, corpora, fast, task, race, deepEnabled, known, crashes>>
  BY DEF RetryDeep, storeVars
<1>2. ProcessTypes /\ SlotsInv /\ corpora' \subseteq Snapshot
  BY <1>1 DEF LeaseInv, StoreInv, StoreTypeOK
<1>3. LaneSound(l) /\ RecordSound(record[l])
  BY DEF LeaseInv, StoreInv
<1>4. fast[l] = Idle /\ race[l] = {}
  BY <1>1, <1>3 DEF LaneSound, RecordSound
<1>5. todo' \in Seq(Lease) /\ IsInjective(todo') /\ Range(todo') = {l} /\ Head(todo') = l
  BY <1>1, SingleRange
<1>6. ProcessTypes'
  BY <1>1, <1>2, <1>5 DEF ProcessTypes
<1>7. LaneSound(l)'
  <2>1. l = Head(todo')
    BY <1>5
  <2> QED BY <1>1, <1>4, <2>1 DEF LaneSound
<1>8. SlotsInv'
  <2>1. ActiveDeep' = ActiveDeep /\ ActiveFast' = ActiveFast
    BY <1>1 DEF ActiveDeep, ActiveFast
  <2> QED BY <1>1, <1>2, <2>1, SlotsShrink
<1>9. \A k \in Lease : k # l => /\ fast'[k] = fast[k] /\ Unmoved(k)
                                /\ k \in Range(todo') => k \in Range(todo)
  BY <1>1, <1>5 DEF Unmoved
<1> QED BY <1>1, <1>2, <1>5, <1>6, <1>7, <1>8, <1>9, RestStep

\* A switch of the automation, and a step that changes nothing.
LEMMA QuietStepSound ==
  ASSUME LeaseInv, deepEnabled' \in BOOLEAN,
         UNCHANGED <<record, rows, memory, corpora, fast, task, race, todo, known, crashes>>
  PROVE  LeaseInv'
<1>1. StoreInv'
  <2>1. StoreTypeOK'
    BY DEF LeaseInv, StoreInv, StoreTypeOK
  <2> QED BY <2>1 DEF LeaseInv, StoreInv, RecordSound, Unresolved
<1>2. ProcessTypes' /\ IsInjective(todo')
  BY DEF LeaseInv, ProcessTypes
<1>3. \A k \in Lease : LaneSound(k)'
  BY DEF LeaseInv, LaneSound, Held
<1>4. SlotsInv'
  <2>1. ActiveDeep' = ActiveDeep /\ ActiveFast' = ActiveFast
    BY DEF ActiveDeep, ActiveFast
  <2> QED BY <2>1, SlotsShrink DEF LeaseInv
<1> QED BY <1>1, <1>2, <1>3, <1>4 DEF LeaseInv

-----------------------------------------------------------------------------
(* The crash *)

\* Reverse keeps the elements.
LEMMA ReverseRange ==
  ASSUME NEW T, NEW s \in Seq(T)
  PROVE  /\ Reverse(s) \in Seq(T) /\ Range(Reverse(s)) = Range(s)
         /\ IsInjective(s) => IsInjective(Reverse(s))
<1> DEFINE n == Len(s)
           t == Reverse(s)
<1>1. /\ n \in Nat /\ DOMAIN s = 1..n /\ \A i \in 1..n : s[i] \in T
      /\ t = [i \in 1..n |-> s[(n - i) + 1]]
  BY DEF Reverse
<1> HIDE DEF n, t
<1>2. \A i \in 1..n : (n - i) + 1 \in 1..n /\ (n - ((n - i) + 1)) + 1 = i
  BY <1>1
<1>3. DOMAIN t = 1..n /\ \A i \in 1..n : t[i] = s[(n - i) + 1] /\ t[i] \in T
  BY <1>1, <1>2
<1>4. t \in Seq(T)
  BY <1>1, <1>3
<1>5. \A x : x \in Range(t) <=> x \in Range(s)
  <2> TAKE x
  <2>1. ASSUME x \in Range(t) PROVE x \in Range(s)
    BY <2>1, <1>1, <1>2, <1>3 DEF Range
  <2>2. ASSUME x \in Range(s) PROVE x \in Range(t)
    <3>1. PICK i \in 1..n : s[i] = x
      BY <2>2, <1>1 DEF Range
    <3>2. t[(n - i) + 1] = x
      BY <3>1, <1>2, <1>3
    <3> QED BY <3>2, <1>2, <1>3 DEF Range
  <2> QED BY <2>1, <2>2
<1>6. ASSUME IsInjective(s), NEW i \in 1..n, NEW j \in 1..n, t[i] = t[j] PROVE i = j
  <2>1. (n - i) + 1 = (n - j) + 1
    BY <1>6, <1>1, <1>2, <1>3 DEF IsInjective
  <2> QED BY <2>1, <1>1
<1>7. IsInjective(s) => IsInjective(t)
  BY <1>3, <1>6 DEF IsInjective
<1> QED BY <1>4, <1>5, <1>7 DEF t

\* A prefix has no other elements.
LEMMA PrefixRange ==
  ASSUME NEW T, NEW s \in Seq(T), NEW n \in 0..Len(s)
  PROVE  /\ SubSeq(s, 1, n) \in Seq(T) /\ Range(SubSeq(s, 1, n)) \subseteq Range(s)
         /\ IsInjective(s) => IsInjective(SubSeq(s, 1, n))
<1> DEFINE t == SubSeq(s, 1, n)
<1>1. /\ Len(s) \in Nat /\ DOMAIN s = 1..Len(s)
      /\ t \in Seq(T) /\ DOMAIN t = 1..n /\ \A i \in 1..n : t[i] = s[i] /\ i \in 1..Len(s)
  OBVIOUS
<1> HIDE DEF t
<1> QED BY <1>1 DEF Range, IsInjective, t

\* A restart loads every lease at most once, and only leases of the store.
LEMMA LoadedFacts ==
  ASSUME StoreInv
  PROVE  Loaded \in Seq(Lease) /\ IsInjective(Loaded) /\ Range(Loaded) \subseteq Range(rows)
<1> DEFINE latest == Reverse(rows)
           unresolved == {k \in Lease : Unresolved(record[k])}
           first == Only(latest, unresolved)
           others == Only(latest, Lease \ unresolved)
           ordered == first \o others
           n == IF Len(ordered) < Retention THEN Len(ordered) ELSE Retention
<1>1. latest \in Seq(Lease) /\ Range(latest) = Range(rows) /\ IsInjective(latest)
  BY ReverseRange DEF StoreInv, StoreTypeOK
<1> HIDE DEF latest, unresolved
<1>2. /\ first \in Seq(Lease) /\ IsInjective(first) /\ Range(first) = Range(rows) \cap unresolved
      /\ others \in Seq(Lease) /\ IsInjective(others)
      /\ Range(others) = Range(rows) \cap (Lease \ unresolved)
  BY <1>1, OnlyKeeps
<1> HIDE DEF first, others
<1>3. ordered \in Seq(Lease) /\ IsInjective(ordered) /\ Range(ordered) \subseteq Range(rows)
  <2>1. Range(first) \cap Range(others) = {}
    BY <1>2
  <2> QED BY <1>2, <2>1, RangeOfConcat
<1> HIDE DEF ordered
<1>4. n \in 0..Len(ordered)
  BY <1>3, StoreAssumption DEF StoreAssumption
<1> HIDE DEF n
<1>5. /\ SubSeq(ordered, 1, n) \in Seq(Lease) /\ IsInjective(SubSeq(ordered, 1, n))
      /\ Range(SubSeq(ordered, 1, n)) \subseteq Range(rows)
  BY <1>3, <1>4, PrefixRange
<1>6. Loaded = SubSeq(ordered, 1, n)
  BY DEF Loaded, latest, unresolved, first, others, ordered, n
<1> QED BY <1>5, <1>6

\* What a restart resumes has a sound record in the store and is in the list again.
LEMMA CrashSound ==
  ASSUME LeaseInv, CrashAndRestart
  PROVE  LeaseInv'
<1>1. /\ crashes < MaxCrashes /\ crashes' = crashes + 1
      /\ memory' = Loaded
      /\ record' = [l \in Lease |-> IF l \in Range(rows) THEN record[l] ELSE NoRecord]
      /\ fast' = [l \in Lease |-> Idle]
      /\ task' = [l \in Lease |-> "NONE"]
      /\ race' = [l \in Lease |-> {}]
      /\ known' = {}
      /\ todo' = IF deepEnabled THEN Only(Loaded, {l \in Lease : Resumes(l)}) ELSE <<>>
      /\ UNCHANGED <<rows, corpora, deepEnabled>>
  BY DEF CrashAndRestart
<1>2. /\ Loaded \in Seq(Lease) /\ IsInjective(Loaded) /\ Range(Loaded) \subseteq Range(rows)
      /\ StoreInv /\ ProcessTypes
  BY LoadedFacts DEF LeaseInv
<1>3. /\ todo' \in Seq(Lease) /\ IsInjective(todo')
      /\ \A l \in Range(todo') : l \in Range(Loaded) /\ Resumes(l)
  <2> DEFINE S == {l \in Lease : Resumes(l)}
             resumed == Only(Loaded, S)
  <2>1. resumed \in Seq(Lease) /\ IsInjective(resumed) /\ Range(resumed) = Range(Loaded) \cap S
    <3> HIDE DEF S
    <3> QED BY <1>2, OnlyKeeps
  <2> HIDE DEF resumed
  <2> QED BY <1>1, <2>1, EmptyRange DEF resumed
<1>4. StoreInv'
  <2>1. NoRecord \in Record /\ Len(NoRecord.attempts) <= MaxAttempts /\ RecordSound(NoRecord)
        /\ ~Unresolved(NoRecord)
    BY StoreAssumption DEF StoreAssumption, NoRecord, Record, LeaseStatus, DeepStatus,
         RecordSound, Unresolved
  <2>2. \A l \in Lease : /\ record'[l] \in Record /\ Len(record'[l].attempts) <= MaxAttempts
                         /\ RecordSound(record'[l])
                         /\ Unresolved(record'[l]) => l \in Range(rows')
    BY <1>1, <1>2, <2>1 DEF StoreInv, StoreTypeOK
  <2>3. StoreTypeOK'
    BY <1>1, <1>2, <2>2 DEF StoreInv, StoreTypeOK
  <2>4. IsInjective(rows')
    BY <1>1, <1>2 DEF StoreInv
  <2> QED BY <2>2, <2>3, <2>4 DEF StoreInv, RecordSound, Unresolved
<1>5. ProcessTypes'
  <2>1. crashes' \in 0..MaxCrashes
    BY <1>1, <1>2, SchedulerAssumption DEF SchedulerAssumption, ProcessTypes
  <2>2. Idle \in [at : {"IDLE", "FAST", "ENRICHING"}, signature : Signature \cup {None},
                  duplicateOf : Lease \cup {None}]
    BY DEF Idle
  <2> QED BY <1>1, <1>2, <1>3, <2>1, <2>2 DEF ProcessTypes
<1>6. ASSUME NEW l \in Lease PROVE LaneSound(l)'
  <2>1. fast'[l] = Idle /\ task'[l] = "NONE" /\ race'[l] = {}
    BY <1>1
  <2>2. ASSUME l \in Range(todo') PROVE record'[l].deep \in {"PENDING", "RUNNING"} /\ Held(l)'
    BY <2>2, <1>1, <1>2, <1>3 DEF Resumes, Unfinished, Held
  <2> QED BY <2>1, <2>2 DEF LaneSound
<1>7. SlotsInv'
  <2>1. ActiveDeep' = {} /\ ActiveFast' = {}
    BY <1>1 DEF ActiveDeep, ActiveFast, Idle
  <2> QED BY <2>1, SlotsShrink DEF LeaseInv
<1> QED BY <1>3, <1>4, <1>5, <1>6, <1>7 DEF LeaseInv

-----------------------------------------------------------------------------
(* Theorems *)

\* The initial states.
LEMMA LeaseInitially == LeaseInit => LeaseInv
<1> SUFFICES ASSUME LeaseInit PROVE LeaseInv
  OBVIOUS
<1>1. NoRecord \in Record /\ Len(NoRecord.attempts) <= MaxAttempts /\ RecordSound(NoRecord)
      /\ ~Unresolved(NoRecord)
  BY StoreAssumption DEF StoreAssumption, NoRecord, Record, LeaseStatus, DeepStatus,
       RecordSound, Unresolved
<1>2. StoreInv
  <2>1. record = [l \in Lease |-> NoRecord] /\ rows = <<>> /\ memory = <<>> /\ corpora = {}
    BY DEF LeaseInit, StoreInit
  <2> QED BY <1>1, <2>1, EmptyRange DEF StoreInv, StoreTypeOK
<1>3. /\ fast = [l \in Lease |-> Idle] /\ task = [l \in Lease |-> "NONE"]
      /\ race = [l \in Lease |-> {}]
      /\ todo = <<>> /\ deepEnabled \in DeepGate /\ known = {} /\ crashes = 0
  BY DEF LeaseInit
<1>4. Idle \in [at : {"IDLE", "FAST", "ENRICHING"}, signature : Signature \cup {None},
                duplicateOf : Lease \cup {None}] /\ Idle.at = "IDLE"
  BY DEF Idle
<1>5. ProcessTypes
  BY <1>3, <1>4, EmptyRange, SchedulerAssumption DEF ProcessTypes, SchedulerAssumption
<1>6. \A l \in Lease : LaneSound(l)
  BY <1>3, EmptyRange DEF LaneSound
<1>7. SlotsInv
  <2>1. ActiveDeep = {} /\ ActiveFast = {}
    BY <1>3, <1>4 DEF ActiveDeep, ActiveFast
  <2>2. IsFiniteSet({}) /\ Cardinality({}) = 0 /\ 0 <= DeepLimit /\ 0 <= FastLimit
    BY FS_EmptySet, SchedulerAssumption DEF SchedulerAssumption
  <2> QED BY <2>1, <2>2 DEF SlotsInv, SlotsAreRespected
<1> QED BY <1>2, <1>3, <1>5, <1>6, <1>7, EmptyRange DEF LeaseInv

\* Every step.
LEMMA LeaseStep == LeaseInv /\ [LeaseNext]_leaseVars => LeaseInv'
<1> SUFFICES ASSUME LeaseInv, [LeaseNext]_leaseVars PROVE LeaseInv'
  OBVIOUS
<1>1. CASE \E l \in Lease :
             \/ Begin(l) \/ BeginRefused(l)
             \/ \E s \in Signature \cup {None} : FastReturns(l, s)
             \/ PricesReturn(l) \/ FastFails(l) \/ FailIssued(l)
             \/ \E status \in {"PASS", "FAILED"} : DeepReturns(l, status)
             \/ Wake(l) \/ RetryDeep(l)
  BY <1>1, BeginSound, BeginRefusedSound, FastReturnsSound, PricesReturnSound, FastFailsSound,
     FailIssuedSound, DeepReturnsSound, WakeSound, RetryDeepSound
<1>2. CASE Interrupt \/ MakePending \/ LaunchDeep
  <2>1. ~Quiet
    BY <1>2 DEF Interrupt, MakePending, LaunchDeep
  <2>2. PICK l \in Lease : l = Head(todo)
    BY <2>1, HeadFacts
  <2> QED BY <1>2, <2>2, InterruptSound, MakePendingSound, LaunchDeepSound
<1>3. CASE CrashAndRestart
  BY <1>3, CrashSound
<1>4. CASE SwitchDeep
  <2>1. /\ deepEnabled' \in BOOLEAN
        /\ UNCHANGED <<record, rows, memory, corpora, fast, task, race, todo, known, crashes>>
    BY <1>4, SchedulerAssumption DEF SwitchDeep, SchedulerAssumption, storeVars
  <2> QED BY <2>1, QuietStepSound
<1>5. CASE UNCHANGED leaseVars
  <2>1. /\ deepEnabled' \in BOOLEAN
        /\ UNCHANGED <<record, rows, memory, corpora, fast, task, race, todo, known, crashes>>
    BY <1>5 DEF leaseVars, storeVars, procVars, LeaseInv, ProcessTypes
  <2> QED BY <2>1, QuietStepSound
<1> QED BY <1>1, <1>2, <1>3, <1>4, <1>5 DEF LeaseNext

\* The inductive invariant: what the process does with a lease is what the
\* store's record says, across every interleaving, retry, crash and restart.
THEOREM LeaseInvariant == LeaseSpec => []LeaseInv
<1>1. LeaseInit => LeaseInv
  BY LeaseInitially
<1>2. LeaseInv /\ [LeaseNext]_leaseVars => LeaseInv'
  BY LeaseStep
<1> QED BY <1>1, <1>2, PTL DEF LeaseSpec

\* The limits of both lanes hold however many leases wake at once, and no two
\* lanes that run investigate one signature.
THEOREM SlotsStayRespected == LeaseSpec => []SlotsAreRespected
<1>1. LeaseInv => SlotsAreRespected
  BY DEF LeaseInv, SlotsInv
<1> QED BY <1>1, LeaseInvariant, PTL

\* What the process investigates is RUNNING in its store and its list, and only
\* the last attempt of a RUNNING stage is open, also after a crash.
THEOREM RunningStaysRecorded == LeaseSpec => []RunningIsRecorded
<1>1. ASSUME LeaseInv PROVE RunningIsRecorded
  <2> SUFFICES ASSUME NEW l \in Lease
               PROVE  /\ task[l] = "RUNNING" =>
                           record[l].deep = "RUNNING" /\ Held(l) /\ l \in Range(rows)
                      /\ \A i \in 1..Len(record[l].attempts) :
                           record[l].attempts[i] = "RUNNING" =>
                             record[l].deep = "RUNNING" /\ i = Len(record[l].attempts)
    BY DEF RunningIsRecorded
  <2>1. /\ LaneSound(l) /\ RecordSound(record[l])
        /\ Unresolved(record[l]) => l \in Range(rows)
    BY <1>1 DEF LeaseInv, StoreInv
  <2> QED BY <2>1 DEF LaneSound, RecordSound, Unresolved
<1> QED BY <1>1, LeaseInvariant, PTL

\* The budget check of #executeDeep never throws at a lease that waited for its
\* slot: a pending stage has an attempt left, whatever was interrupted before.
THEOREM PendingKeepsBudget == LeaseSpec => []PendingHasBudget
<1>1. LeaseInv => PendingHasBudget
  BY DEF LeaseInv, StoreInv, RecordSound, PendingHasBudget
<1> QED BY <1>1, LeaseInvariant, PTL

\* Neither the store's retention nor a restart loses an unfinished lease.
THEOREM UnfinishedIsStored ==
  LeaseSpec => [](\A l \in Lease : Unresolved(record[l]) => l \in Range(rows))
<1>1. LeaseInv => \A l \in Lease : Unresolved(record[l]) => l \in Range(rows)
  BY DEF LeaseInv, StoreInv
<1> QED BY <1>1, LeaseInvariant, PTL

\* A lease whose fast lane has ended never runs it again while its row is kept:
\* begin would issue it again only after the list forgot it, and then the store
\* refuses.
THEOREM FastLaneNeverRunsAgain == LeaseSpec => FastLaneRunsOnce
<1> DEFINE Ended(l) == record[l].status \in {"PASS", "FAILED"} /\ l \in Range(rows)
           Once == \A l \in Lease : Ended(l) => fast'[l] = Idle
<1>1. ASSUME LeaseInv, [LeaseNext]_leaseVars PROVE [Once]_leaseVars
  <2> SUFFICES ASSUME NEW l \in Lease, Ended(l), LeaseNext PROVE fast'[l] = Idle
    BY <1>1
  <2>1. fast[l] = Idle /\ record[l].status # "ISSUED"
    BY <1>1 DEF LeaseInv, LaneSound
  <2>2. fast \in [Lease -> [at : {"IDLE", "FAST", "ENRICHING"},
                            signature : Signature \cup {None}, duplicateOf : Lease \cup {None}]]
    BY <1>1 DEF LeaseInv, ProcessTypes
  <2>3. ASSUME NEW k \in Lease, Begin(k) PROVE fast'[l] = Idle
    <3>1. k # l
      <4>1. IssuedRecord.status = "ISSUED"
        BY NewRecords
      <4>2. ~(Held(l) /\ record[l].status = "ISSUED")
        BY <2>1
      <4>3. ~CanSave(l, IssuedRecord)
        BY <4>1 DEF CanSave
      <4> QED BY <2>3, <4>2, <4>3 DEF Begin, Persist
    <3> QED BY <2>1, <2>2, <2>3, <3>1 DEF Begin
  <2>4. ASSUME NEW k \in Lease, NEW s \in Signature \cup {None}, FastReturns(k, s)
        PROVE  fast'[l] = Idle
    <3>1. k # l
      BY <2>1, <2>4 DEF FastReturns, Idle
    <3>2. fast' = [fast EXCEPT ![k] = fast'[k]]
      BY <2>2, <2>4 DEF FastReturns, Checkpoint
    <3> QED BY <2>1, <2>2, <3>1, <3>2
  <2>5. ASSUME NEW k \in Lease, PricesReturn(k) \/ FastFails(k) PROVE fast'[l] = Idle
    BY <2>1, <2>2, <2>5 DEF PricesReturn, Checkpoint, FastFails
  <2>6. CASE fast' = fast
    BY <2>1, <2>6
  <2>7. ASSUME NEW k \in Lease,
               \/ BeginRefused(k) \/ FailIssued(k) \/ Wake(k) \/ RetryDeep(k)
               \/ \E status \in {"PASS", "FAILED"} : DeepReturns(k, status)
        PROVE  fast' = fast
    BY <2>7 DEF BeginRefused, FailIssued, procVars, Wake, RetryDeep, DeepReturns
  <2>8. Interrupt \/ MakePending \/ LaunchDeep \/ SwitchDeep => fast' = fast
    BY DEF Interrupt, MakePending, procVars, LaunchDeep, SwitchDeep
  <2>9. CASE CrashAndRestart
    BY <2>9 DEF CrashAndRestart
  <2> QED BY <2>3, <2>4, <2>5, <2>6, <2>7, <2>8, <2>9 DEF LeaseNext
<1>2. LeaseSpec => [][Once]_leaseVars
  BY <1>1, LeaseInvariant, PTL DEF LeaseSpec
<1> QED BY <1>2 DEF FastLaneRunsOnce

-----------------------------------------------------------------------------
(* A signature that is claimed twice was overlooked. *)

\* A stage that was skipped has no attempts, any other one has no original; a
\* candidate belongs to a passed lease.
Fine(r) ==
  /\ r.deep = "NOT_RUN" => r.attempts = <<>>
  /\ r.deep # "NOT_RUN" => r.duplicateOf = None
  /\ r.signature # None => r.status = "PASS"

\* The signature that l may investigate, or has: of its record, or found and not
\* recorded while prices are fetched; a duplicate has none.
Claim(l) ==
  IF fast[l].at = "ENRICHING"
  THEN IF fast[l].duplicateOf = None THEN fast[l].signature ELSE None
  ELSE IF record[l].duplicateOf = None THEN record[l].signature ELSE None

\* Of two leases with one claim, one looked for duplicates and could not see the
\* other.
Told(k, l) ==
  Claim(k) = Claim(l) /\ Claim(k) # None => k \in overlooked[l] \/ l \in overlooked[k]

ClaimInv ==
  /\ overlooked \in [Lease -> SUBSET Lease]
  /\ \A l \in Lease : Fine(record[l])
  /\ \A k, l \in Lease : k # l => Told(k, l)

\* What #persist does to the other leases.
LEMMA PersistOthers ==
  ASSUME LeaseInv, NEW l \in Lease, NEW r \in Record, Len(r.attempts) <= MaxAttempts,
         NEW created \in SUBSET Snapshot, Persist(l, r, created)
  PROVE  /\ record'[l] = r
         /\ \A k \in Lease : k # l => /\ record'[k] \in {record[k], NoRecord}
                                      /\ Held(k)' => Held(k)
<1>1. /\ record'[l] = r
      /\ \A k \in Lease : k # l => record'[k] \in {record[k], NoRecord}
  BY PersistKeeps DEF LeaseInv, StoreInv
<1>2. memory \in Seq(Lease)
  BY DEF LeaseInv, StoreInv, StoreTypeOK
<1>3. Range(memory') \subseteq Range(memory) \cup {l}
  BY <1>2, MemoryKeeps DEF Persist
<1> QED BY <1>1, <1>3 DEF Held

\* No record claims nothing.
LEMMA NothingClaimed == NoRecord.signature = None /\ Fine(NoRecord)
BY DEF NoRecord, Fine

\* A step after which no lease claims what it did not claim.
LEMMA NoNewClaims ==
  ASSUME ClaimInv, overlooked' = overlooked, \A k \in Lease : Fine(record'[k]),
         \A k \in Lease : Claim(k)' \in {Claim(k), None}
  PROVE  ClaimInv'
<1>1. ASSUME NEW k \in Lease, NEW l \in Lease, k # l PROVE Told(k, l)'
  <2>1. Told(k, l) /\ Claim(k)' \in {Claim(k), None} /\ Claim(l)' \in {Claim(l), None}
    BY <1>1 DEF ClaimInv
  <2> QED BY <2>1 DEF Told
<1> QED BY <1>1 DEF ClaimInv

\* A lease that is saved without a new claim.
LEMMA SavedClaims ==
  ASSUME LeaseInv, ClaimInv, NEW l \in Lease, NEW r \in Record, Len(r.attempts) <= MaxAttempts,
         NEW created \in SUBSET Snapshot, Persist(l, r, created), Fine(r),
         Claim(l)' \in {Claim(l), None}, overlooked' = overlooked,
         \A k \in Lease : k # l => fast'[k] = fast[k]
  PROVE  ClaimInv'
<1>1. /\ record'[l] = r
      /\ \A k \in Lease : k # l => record'[k] \in {record[k], NoRecord}
  BY PersistOthers
<1>2. \A k \in Lease : Fine(record'[k])
  BY <1>1, NothingClaimed DEF ClaimInv
<1>3. ASSUME NEW k \in Lease PROVE Claim(k)' \in {Claim(k), None}
  <2>1. CASE k # l
    BY <2>1, <1>1, NothingClaimed DEF Claim
  <2>2. CASE k = l
    BY <2>2
  <2> QED BY <2>1, <2>2
<1> QED BY <1>2, <1>3, NoNewClaims

\* A lease that goes on with its stage keeps its claim.
LEMMA GoingOn ==
  ASSUME LeaseInv, ClaimInv, NEW l \in Lease, NEW r \in Record, Len(r.attempts) <= MaxAttempts,
         Persist(l, r, {}), record[l].deep # "NOT_RUN", r.deep # "NOT_RUN",
         r.status = record[l].status, r.signature = record[l].signature,
         r.duplicateOf = record[l].duplicateOf, fast' = fast, overlooked' = overlooked
  PROVE  ClaimInv'
<1>1. Fine(r)
  BY DEF ClaimInv, Fine
<1>2. record'[l] = r /\ {} \in SUBSET Snapshot
  BY PersistOthers
<1>3. Claim(l)' = Claim(l)
  BY <1>2 DEF Claim
<1> QED BY <1>1, <1>2, <1>3, SavedClaims

\* Records and fast lanes rest.
LEMMA ClaimsRest ==
  ASSUME ClaimInv, UNCHANGED <<record, fast, overlooked>>
  PROVE  ClaimInv'
BY DEF ClaimInv, Told, Claim, Fine

\* A lookup that finds nothing has seen every passed lease of the list.
LEMMA NothingFound ==
  ASSUME LeaseInv, NEW l \in Lease, NEW s \in Signature, DuplicateOf(l, s) = None,
         NEW k \in Lease, k # l, Held(k), record[k].status = "PASS"
  PROVE  record[k].signature # s
<1> SUFFICES ASSUME record[k].signature = s PROVE FALSE
  OBVIOUS
<1> DEFINE S == {m \in Lease : m # l /\ record[m].status = "PASS" /\ record[m].signature = s}
           same == Only(memory, S)
<1>1. memory \in Seq(Lease)
  BY DEF LeaseInv, StoreInv, StoreTypeOK
<1>2. k \in S
  OBVIOUS
<1>3. same \in Seq(Lease) /\ Range(same) = Range(memory) \cap S
  <2> HIDE DEF S
  <2> QED BY <1>1, OnlyKeeps
<1>4. same # <<>>
  BY <1>2, <1>3, EmptyRange DEF Held
<1>5. Head(same) \in Lease
  <2> HIDE DEF same
  <2> QED BY <1>3, <1>4
<1>6. DuplicateOf(l, s) = Head(same)
  BY <1>4 DEF DuplicateOf
<1> QED BY <1>5, <1>6, StoreAssumption DEF StoreAssumption

\* A candidate is claimed after a lookup that found nothing: whoever claims it
\* already was not to be seen.
LEMMA NewClaim ==
  ASSUME LeaseInv, ClaimInv, NEW l \in Lease, NEW s \in Signature \cup {None},
         NEW missed \in SUBSET Lease,
         overlooked' = [k \in Lease |-> IF k = l THEN missed ELSE overlooked[k] \ {l}],
         \A k \in Lease : Fine(record'[k]),
         Claim(l)' \in {s, None},
         Claim(l)' # None => DuplicateOf(l, s) = None /\ missed = Unseen(l, s),
         \A k \in Lease : k # l => Claim(k)' \in {Claim(k), None}
  PROVE  ClaimInv'
<1>1. overlooked' \in [Lease -> SUBSET Lease]
  BY DEF ClaimInv
<1>2. /\ overlooked'[l] = missed
      /\ \A k \in Lease : k # l => overlooked'[k] = overlooked[k] \ {l}
  OBVIOUS
<1>3. ASSUME NEW k \in Lease, k # l, Claim(k)' = Claim(l)', Claim(k)' # None
      PROVE  k \in overlooked'[l]
  <2>1. /\ Claim(l)' = s /\ s # None /\ s \in Signature
        /\ DuplicateOf(l, s) = None /\ Claim(k) = s
    BY <1>3
  <2>2. missed = Unseen(l, s)
    BY <1>3
  <2>3. CASE fast[k].at = "ENRICHING"
    <3>1. fast[k].signature = s
      BY <2>1, <2>3 DEF Claim
    <3> QED BY <3>1, <1>2, <1>3, <2>2, <2>3 DEF Unseen
  <2>4. CASE fast[k].at # "ENRICHING"
    <3>1. record[k].signature = s
      BY <2>1, <2>4 DEF Claim
    <3>2. record[k].status = "PASS"
      BY <3>1, <2>1 DEF ClaimInv, Fine
    <3>3. ~Held(k)
      BY <3>1, <3>2, <2>1, <1>3, NothingFound
    <3> QED BY <3>1, <3>3, <1>2, <1>3, <2>2 DEF Unseen
  <2> QED BY <2>3, <2>4
<1>4. ASSUME NEW k \in Lease, NEW m \in Lease, k # m PROVE Told(k, m)'
  <2>1. CASE k # l /\ m # l
    <3>1. Told(k, m) /\ Claim(k)' \in {Claim(k), None} /\ Claim(m)' \in {Claim(m), None}
      BY <1>4, <2>1 DEF ClaimInv
    <3>2. overlooked'[k] = overlooked[k] \ {l} /\ overlooked'[m] = overlooked[m] \ {l}
      BY <1>2, <2>1
    <3> QED BY <2>1, <3>1, <3>2 DEF Told
  <2>2. CASE k = l
    BY <1>3, <1>4, <2>2 DEF Told
  <2>3. CASE m = l
    BY <1>3, <1>4, <2>3 DEF Told
  <2> QED BY <2>1, <2>2, <2>3
<1> QED BY <1>1, <1>4 DEF ClaimInv

-----------------------------------------------------------------------------
(* Unfinished work is on its way. *)

\* What keeps an unfinished lease from being left behind.
Scheduled(l) ==
  Held(l) /\ l \notin halted =>
    /\ record[l].deep = "RUNNING" => task[l] = "RUNNING" \/ l \in Range(todo)
    /\ record[l].deep = "PENDING" =>
         \/ task[l] = "WOKEN" \/ l \in Range(todo)
         \/ task[l] = "QUEUED" /\ race[l] \cap ActiveDeep # {}

WorkInv == halted \subseteq Lease /\ \A l \in Lease : Scheduled(l)

\* What it takes for a step that deals with l: the others keep their places, or
\* are set aside.
LEMMA OthersStayScheduled ==
  ASSUME WorkInv, halted \subseteq halted', halted' \subseteq Lease,
         NEW l \in Lease, Scheduled(l)',
         \A k \in Lease : k # l => /\ record'[k] \in {record[k], NoRecord}
                                   /\ Held(k)' => Held(k)
                                   /\ Unmoved(k)
                                   /\ k \in Range(todo) => k \in Range(todo') \cup halted',
         \A k \in Lease : k # l /\ task'[k] = "QUEUED" =>
             race[k] \cap ActiveDeep \subseteq ActiveDeep'
  PROVE  WorkInv'
<1>1. ASSUME NEW k \in Lease, k # l PROVE Scheduled(k)'
  <2>1. Scheduled(k)
    BY DEF WorkInv
  <2>2. /\ record'[k] \in {record[k], NoRecord} /\ Unmoved(k) /\ (Held(k)' => Held(k))
        /\ k \in Range(todo) => k \in Range(todo') \cup halted'
        /\ task'[k] = "QUEUED" => race[k] \cap ActiveDeep \subseteq ActiveDeep'
    BY <1>1
  <2>3. NoRecord.deep = "NOT_RUN"
    BY DEF NoRecord
  <2> QED BY <2>1, <2>2, <2>3 DEF Scheduled, Unmoved
<1>2. \A k \in Lease : Scheduled(k)'
  BY <1>1
<1> QED BY <1>2 DEF WorkInv

\* A step that saves l and leaves the lanes alone.
LEMMA SavedWork ==
  ASSUME LeaseInv, WorkInv, UNCHANGED <<task, race>>, halted \subseteq halted',
         halted' \subseteq Lease, NEW l \in Lease, NEW r \in Record,
         Len(r.attempts) <= MaxAttempts, NEW created \in SUBSET Snapshot, Persist(l, r, created),
         r.deep \in {"PENDING", "RUNNING"} => l \in Range(todo'),
         \A k \in Lease : k # l /\ k \in Range(todo) => k \in Range(todo') \cup halted'
  PROVE  WorkInv'
<1>1. /\ record'[l] = r
      /\ \A k \in Lease : k # l => /\ record'[k] \in {record[k], NoRecord}
                                   /\ Held(k)' => Held(k)
  BY PersistOthers
<1>2. Scheduled(l)'
  BY <1>1 DEF Scheduled
<1>3. ActiveDeep' = ActiveDeep
  BY DEF ActiveDeep
<1>4. \A k \in Lease : Unmoved(k)
  BY DEF Unmoved
<1> QED BY <1>1, <1>2, <1>3, <1>4, OthersStayScheduled

\* A step that leaves store and lanes alone.
LEMMA WorkRests ==
  ASSUME WorkInv, UNCHANGED <<record, memory, task, race, halted>>, Range(todo) \subseteq Range(todo')
  PROVE  WorkInv'
BY DEF WorkInv, Scheduled, ActiveDeep, Held

-----------------------------------------------------------------------------
(* Both, action by action *)

HistoryInv == ClaimInv /\ WorkInv

\* Records that claim nothing, or a candidate.
LEMMA FineRecords ==
  /\ Fine(IssuedRecord) /\ IssuedRecord.signature = None
  /\ Fine(FailedRecord) /\ FailedRecord.signature = None
  /\ \A deep \in {"NOT_RUN", "PENDING"} : \A s, duplicate :
       LET r == PassRecord(deep, s, duplicate) IN
       /\ deep = "NOT_RUN" \/ duplicate = None => Fine(r)
       /\ r.signature = s /\ r.duplicateOf = duplicate /\ r.deep = deep
BY DEF IssuedRecord, FailedRecord, NoRecord, PassRecord, Fine

\* A lease is issued, or an issued one resumed.
LEMMA BeginHistory ==
  ASSUME LeaseInv, HistoryInv, NEW l \in Lease, Begin(l)
  PROVE  HistoryInv'
<1>1. /\ fast[l] = Idle /\ fast' = [fast EXCEPT ![l] = RunningFast]
      /\ UNCHANGED <<task, race, todo, overlooked, halted>>
  BY DEF Begin, historyVars
<1>2. /\ \A k \in Lease : k # l => fast'[k] = fast[k]
      /\ fast[l].at # "ENRICHING" /\ fast'[l].at # "ENRICHING"
  BY <1>1 DEF LeaseInv, ProcessTypes, RunningFast, Idle
<1>3. CASE UNCHANGED storeVars
  <2>1. UNCHANGED <<record, memory>>
    BY <1>3 DEF storeVars
  <2>2. \A k \in Lease : Claim(k)' \in {Claim(k), None} /\ Fine(record'[k])
    BY <1>2, <2>1 DEF Claim, HistoryInv, ClaimInv
  <2> QED BY <1>1, <2>1, <2>2, NoNewClaims, WorkRests DEF HistoryInv
<1>4. CASE Persist(l, IssuedRecord, {SnapshotOf[l]})
  <2> DEFINE created == {SnapshotOf[l]}
  <2>1. /\ IssuedRecord \in Record /\ IssuedRecord.deep = "NOT_RUN"
        /\ Len(IssuedRecord.attempts) <= MaxAttempts /\ created \in SUBSET Snapshot
    BY NewRecords, StoreAssumption DEF StoreAssumption
  <2>2. Persist(l, IssuedRecord, created)
    BY <1>4
  <2> HIDE DEF created
  <2>3. Claim(l)' = None
    BY <1>2, <2>1, <2>2, PersistOthers, FineRecords DEF Claim
  <2>4. ClaimInv'
    BY <1>1, <1>2, <2>1, <2>2, <2>3, FineRecords, SavedClaims DEF HistoryInv
  <2>5. WorkInv'
    BY <1>1, <2>1, <2>2, SavedWork DEF HistoryInv, WorkInv
  <2> QED BY <2>4, <2>5 DEF HistoryInv
<1> QED BY <1>3, <1>4 DEF Begin

\* The checkpoint, as far as the deep lane is concerned.
LEMMA CheckpointWork ==
  ASSUME LeaseInv, WorkInv, NEW l \in Lease, Quiet,
         NEW s \in Signature \cup {None}, NEW duplicate \in Lease \cup {None},
         NEW blocked \in BOOLEAN, Checkpoint(l, s, duplicate, blocked), halted' = halted
  PROVE  /\ WorkInv' /\ \A k \in Lease : Fine(record[k]) => Fine(record'[k])
         /\ fast' = [fast EXCEPT ![l] = Idle]
         /\ Claim(l)' \in {s, None} /\ (duplicate # None => Claim(l)' = None)
         /\ \A k \in Lease : k # l => Claim(k)' \in {Claim(k), None}
<1> DEFINE r == IF s = None \/ blocked THEN PassRecord("NOT_RUN", None, None)
                ELSE IF duplicate # None THEN PassRecord("NOT_RUN", s, duplicate)
                ELSE IF ~deepEnabled THEN PassRecord("NOT_RUN", s, None)
                ELSE PassRecord("PENDING", s, None)
<1>1. /\ Persist(l, r, {})
      /\ fast' = [fast EXCEPT ![l] = Idle]
      /\ todo' = IF r.deep = "PENDING" THEN <<l>> ELSE <<>>
      /\ UNCHANGED <<task, race>>
  BY DEF Checkpoint
<1>2. /\ r \in Record /\ Len(r.attempts) <= MaxAttempts /\ r.deep # "RUNNING"
  BY PassRecords
<1>3. /\ Fine(r) /\ r.signature \in {s, None}
      /\ duplicate # None => r.signature = None \/ r.duplicateOf # None
  BY FineRecords
<1> HIDE DEF r
<1>4. Range(todo) = {} /\ (r.deep = "PENDING" => l \in Range(todo'))
  BY <1>1, EmptyRange, SingleRange DEF Quiet
<1>5. {} \in SUBSET Snapshot
  OBVIOUS
<1>6. WorkInv'
  BY <1>1, <1>2, <1>4, <1>5, SavedWork DEF WorkInv
<1>7. /\ record'[l] = r
      /\ \A k \in Lease : k # l => record'[k] \in {record[k], NoRecord}
  BY <1>1, <1>2, <1>5, PersistOthers
<1>8. /\ fast'[l].at # "ENRICHING"
      /\ \A k \in Lease : k # l => fast'[k] = fast[k]
  BY <1>1 DEF LeaseInv, ProcessTypes, Idle
<1>9. \A k \in Lease : Fine(record[k]) => Fine(record'[k])
  BY <1>3, <1>7, NothingClaimed
<1>10. Claim(l)' \in {s, None} /\ (duplicate # None => Claim(l)' = None)
  BY <1>3, <1>7, <1>8 DEF Claim
<1>11. \A k \in Lease : k # l => Claim(k)' \in {Claim(k), None}
  BY <1>7, <1>8, NothingClaimed DEF Claim
<1> QED BY <1>1, <1>6, <1>9, <1>10, <1>11

\* runFast resolves.
LEMMA FastReturnsHistory ==
  ASSUME LeaseInv, HistoryInv, NEW l \in Lease, NEW s \in Signature \cup {None},
         FastReturns(l, s)
  PROVE  HistoryInv'
<1> DEFINE duplicate == IF s = None THEN None ELSE DuplicateOf(l, s)
           missed == IF s = None \/ duplicate # None THEN {} ELSE Unseen(l, s)
<1>1. /\ Quiet /\ fast[l].at = "FAST" /\ halted' = halted
      /\ duplicate \in Lease \cup {None}
      /\ overlooked' = [k \in Lease |-> IF k = l THEN missed ELSE overlooked[k] \ {l}]
  BY DuplicateIsLease DEF FastReturns
<1>2. \/ \E blocked \in BOOLEAN : Checkpoint(l, s, duplicate, blocked)
      \/ /\ fast' = [fast EXCEPT ![l] =
              [at |-> "ENRICHING", signature |-> s, duplicateOf |-> duplicate]]
         /\ UNCHANGED <<storeVars, task, race, todo>>
  BY DEF FastReturns
<1>3. missed \in SUBSET Lease
  BY DEF Unseen
<1>4. s # None /\ duplicate = None => DuplicateOf(l, s) = None /\ missed = Unseen(l, s)
  OBVIOUS
<1> HIDE DEF duplicate, missed
<1>5. CASE \E blocked \in BOOLEAN : Checkpoint(l, s, duplicate, blocked)
  <2>1. /\ WorkInv' /\ \A k \in Lease : Fine(record[k]) => Fine(record'[k])
        /\ Claim(l)' \in {s, None} /\ (duplicate # None => Claim(l)' = None)
        /\ \A k \in Lease : k # l => Claim(k)' \in {Claim(k), None}
    BY <1>1, <1>5, CheckpointWork DEF HistoryInv
  <2>2. \A k \in Lease : Fine(record'[k])
    BY <2>1 DEF HistoryInv, ClaimInv
  <2>3. Claim(l)' # None => DuplicateOf(l, s) = None /\ missed = Unseen(l, s)
    BY <1>4, <2>1
  <2> QED BY <1>1, <1>3, <2>1, <2>2, <2>3, NewClaim DEF HistoryInv
<1>6. CASE /\ fast' = [fast EXCEPT ![l] =
                [at |-> "ENRICHING", signature |-> s, duplicateOf |-> duplicate]]
           /\ UNCHANGED <<storeVars, task, race, todo>>
  <2>1. UNCHANGED <<record, memory>>
    BY <1>6 DEF storeVars
  <2>2. /\ fast'[l] = [at |-> "ENRICHING", signature |-> s, duplicateOf |-> duplicate]
        /\ \A k \in Lease : k # l => fast'[k] = fast[k]
    BY <1>6 DEF LeaseInv, ProcessTypes
  <2>3. \A k \in Lease : Fine(record'[k])
    BY <2>1 DEF HistoryInv, ClaimInv
  <2>4. /\ Claim(l)' \in {s, None} /\ (duplicate # None => Claim(l)' = None)
        /\ \A k \in Lease : k # l => Claim(k)' \in {Claim(k), None}
    BY <2>1, <2>2 DEF Claim
  <2>5. Claim(l)' # None => DuplicateOf(l, s) = None /\ missed = Unseen(l, s)
    BY <1>4, <2>4
  <2>6. ClaimInv'
    BY <1>1, <1>3, <2>3, <2>4, <2>5, NewClaim DEF HistoryInv
  <2> QED BY <1>1, <1>6, <2>1, <2>6, WorkRests DEF HistoryInv
<1> QED BY <1>2, <1>5, <1>6

\* enrichPrices resolves: the claim was made at the lookup.
LEMMA PricesReturnHistory ==
  ASSUME LeaseInv, HistoryInv, NEW l \in Lease, PricesReturn(l)
  PROVE  HistoryInv'
<1>1. /\ Quiet /\ fast[l].at = "ENRICHING" /\ halted' = halted /\ overlooked' = overlooked
      /\ \E blocked \in BOOLEAN : Checkpoint(l, fast[l].signature, fast[l].duplicateOf, blocked)
  BY DEF PricesReturn, historyVars
<1>2. fast[l].signature \in Signature \cup {None} /\ fast[l].duplicateOf \in Lease \cup {None}
  BY DEF LeaseInv, ProcessTypes
<1>3. /\ WorkInv' /\ \A k \in Lease : Fine(record[k]) => Fine(record'[k])
      /\ Claim(l)' \in {fast[l].signature, None}
      /\ fast[l].duplicateOf # None => Claim(l)' = None
      /\ \A k \in Lease : k # l => Claim(k)' \in {Claim(k), None}
  BY <1>1, <1>2, CheckpointWork DEF HistoryInv
<1>4. Claim(l)' \in {Claim(l), None}
  BY <1>1, <1>3 DEF Claim
<1>5. \A k \in Lease : Fine(record'[k])
  BY <1>3 DEF HistoryInv, ClaimInv
<1> QED BY <1>1, <1>3, <1>4, <1>5, NoNewClaims DEF HistoryInv

\* An issued lease is closed as failed.
LEMMA FailHistory ==
  ASSUME LeaseInv, HistoryInv, NEW l \in Lease, Persist(l, FailedRecord, {}),
         fast' = [fast EXCEPT ![l] = Idle], UNCHANGED <<task, race, todo, overlooked, halted>>
  PROVE  HistoryInv'
<1>1. /\ FailedRecord \in Record /\ FailedRecord.deep = "NOT_RUN"
      /\ Len(FailedRecord.attempts) <= MaxAttempts /\ {} \in SUBSET Snapshot
  BY NewRecords
<1>2. fast'[l].at # "ENRICHING" /\ \A k \in Lease : k # l => fast'[k] = fast[k]
  BY DEF LeaseInv, ProcessTypes, Idle
<1>3. Claim(l)' = None
  BY <1>1, <1>2, PersistOthers, FineRecords DEF Claim
<1>4. ClaimInv'
  BY <1>1, <1>2, <1>3, FineRecords, SavedClaims DEF HistoryInv
<1>5. WorkInv'
  BY <1>1, SavedWork DEF HistoryInv, WorkInv
<1> QED BY <1>4, <1>5 DEF HistoryInv

\* Something the fast lane waits for throws.
LEMMA FastFailsHistory ==
  ASSUME LeaseInv, HistoryInv, NEW l \in Lease, FastFails(l)
  PROVE  HistoryInv'
BY FailHistory DEF FastFails, historyVars

\* A lease that nobody runs is closed.
LEMMA FailIssuedHistory ==
  ASSUME LeaseInv, HistoryInv, NEW l \in Lease, FailIssued(l)
  PROVE  HistoryInv'
<1>1. fast' = [fast EXCEPT ![l] = Idle]
  BY DEF FailIssued, procVars, LeaseInv, ProcessTypes
<1> QED BY <1>1, FailHistory DEF FailIssued, procVars, historyVars

\* An interrupted attempt is closed.
LEMMA InterruptHistory ==
  ASSUME LeaseInv, HistoryInv, NEW l \in Lease, l = Head(todo), Interrupt
  PROVE  HistoryInv'
<1> DEFINE r == LastAttempt(record[l], "FAILED")
<1>1. /\ ~Quiet /\ record[l].deep = "RUNNING" /\ Persist(l, r, {})
      /\ todo' \in {Tail(todo), todo}
      /\ UNCHANGED <<fast, task, race, overlooked, halted>>
  BY DEF Interrupt, historyVars
<1>2. /\ record[l] \in Record /\ RecordSound(record[l]) /\ Len(record[l].attempts) <= MaxAttempts
      /\ Range(Tail(todo)) = Range(todo) \ {l}
  BY <1>1, HeadFacts
<1>3. /\ r \in Record /\ Len(r.attempts) <= MaxAttempts /\ r.deep = "FAILED"
      /\ r.status = record[l].status /\ r.signature = record[l].signature
      /\ r.duplicateOf = record[l].duplicateOf
  BY <1>1, <1>2, EndedRecords
<1> HIDE DEF r
<1>4. ClaimInv'
  BY <1>1, <1>3, GoingOn DEF HistoryInv
<1>5. {} \in SUBSET Snapshot /\ \A k \in Lease : k # l /\ k \in Range(todo) => k \in Range(todo')
  BY <1>1, <1>2
<1>6. WorkInv'
  BY <1>1, <1>3, <1>5, SavedWork DEF HistoryInv, WorkInv
<1> QED BY <1>4, <1>6 DEF HistoryInv

\* A failed stage is pending again, and the next to be launched.
LEMMA MakePendingHistory ==
  ASSUME LeaseInv, HistoryInv, NEW l \in Lease, l = Head(todo), MakePending
  PROVE  HistoryInv'
<1> DEFINE r == [record[l] EXCEPT !.deep = "PENDING"]
<1>1. /\ ~Quiet /\ record[l].deep = "FAILED" /\ Persist(l, r, {})
      /\ UNCHANGED <<fast, task, race, todo, overlooked, halted>>
  BY DEF MakePending, procVars, historyVars
<1>2. /\ record[l] \in Record /\ RecordSound(record[l]) /\ Len(record[l].attempts) < MaxAttempts
      /\ l \in Range(todo)
  BY <1>1, HeadFacts
<1>3. /\ r \in Record /\ Len(r.attempts) <= MaxAttempts /\ r.deep = "PENDING"
      /\ r.status = record[l].status /\ r.signature = record[l].signature
      /\ r.duplicateOf = record[l].duplicateOf
  BY <1>1, <1>2, PendingRecords
<1> HIDE DEF r
<1>4. ClaimInv'
  BY <1>1, <1>3, GoingOn DEF HistoryInv
<1>5. {} \in SUBSET Snapshot
  OBVIOUS
<1>6. WorkInv'
  BY <1>1, <1>2, <1>3, <1>5, SavedWork DEF HistoryInv, WorkInv
<1> QED BY <1>4, <1>6 DEF HistoryInv

\* A lease waits for the lanes that run: there are some, or it had a slot.
LEMMA EnqueueHistory ==
  ASSUME LeaseInv, HistoryInv, NEW l \in Lease, l = Head(todo), ~Quiet,
         record[l].deep = "PENDING", Enqueue(l), UNCHANGED <<fast, overlooked>>
  PROVE  HistoryInv'
<1>1. /\ Cardinality(ActiveDeep) >= DeepLimit
      /\ task' = [task EXCEPT ![l] = "QUEUED"]
      /\ race' = [race EXCEPT ![l] = ActiveDeep]
      /\ todo' = Tail(todo)
      /\ UNCHANGED <<record, rows, memory, corpora, halted>>
  BY DEF Enqueue, storeVars
<1>2. /\ task[l] = "NONE" /\ Range(Tail(todo)) = Range(todo) \ {l}
      /\ task \in [Lease -> {"NONE", "QUEUED", "WOKEN", "RUNNING"}]
      /\ race \in [Lease -> SUBSET Lease]
  BY HeadFacts DEF LeaseInv, ProcessTypes
<1>3. /\ task'[l] = "QUEUED" /\ race'[l] = ActiveDeep
      /\ \A k \in Lease : k # l => task'[k] = task[k] /\ race'[k] = race[k]
  BY <1>1, <1>2
<1>4. ActiveDeep' = ActiveDeep
  BY <1>2, <1>3 DEF ActiveDeep
<1>5. ActiveDeep # {}
  <2>1. Cardinality({}) = 0 /\ DeepLimit \in Nat \ {0}
    BY FS_EmptySet, SchedulerAssumption DEF SchedulerAssumption
  <2>2. ASSUME ActiveDeep = {} PROVE FALSE
    <3>1. Cardinality(ActiveDeep) = 0
      BY <2>1, <2>2
    <3> QED BY <1>1, <2>1, <3>1
  <2> QED BY <2>2
<1>6. Scheduled(l)'
  BY <1>1, <1>3, <1>4, <1>5 DEF Scheduled
<1>7. ClaimInv'
  BY <1>1, ClaimsRest DEF HistoryInv
<1>8. \A k \in Lease : k # l => /\ record'[k] \in {record[k], NoRecord}
                                /\ Held(k)' => Held(k)
                                /\ Unmoved(k)
                                /\ k \in Range(todo) => k \in Range(todo') \cup halted'
  BY <1>1, <1>2, <1>3 DEF Unmoved, Held
<1>9. WorkInv'
  BY <1>1, <1>4, <1>6, <1>8, OthersStayScheduled DEF HistoryInv, WorkInv
<1> QED BY <1>7, <1>9 DEF HistoryInv

\* begin is refused: nothing of a lease changes.
LEMMA BeginRefusedHistory ==
  ASSUME HistoryInv, NEW l \in Lease, BeginRefused(l)
  PROVE  HistoryInv'
BY ClaimsRest, WorkRests DEF BeginRefused, historyVars, HistoryInv

\* A lane begins: nobody else loses its place.
LEMMA RunDeepHistory ==
  ASSUME LeaseInv, HistoryInv, NEW l \in Lease, l = Head(todo), ~Quiet,
         record[l].deep = "PENDING", RunDeep(l), UNCHANGED <<fast, overlooked>>
  PROVE  HistoryInv'
<1> DEFINE r == [record[l] EXCEPT !.deep = "RUNNING", !.attempts = Append(@, "RUNNING")]
<1>1. /\ Persist(l, r, {})
      /\ task' = [task EXCEPT ![l] = "RUNNING"]
      /\ todo' = Tail(todo) /\ UNCHANGED <<race, halted>>
  BY DEF RunDeep
<1>2. /\ record[l] \in Record /\ RecordSound(record[l])
      /\ Range(Tail(todo)) = Range(todo) \ {l}
      /\ task \in [Lease -> {"NONE", "QUEUED", "WOKEN", "RUNNING"}]
  BY HeadFacts DEF LeaseInv, ProcessTypes
<1>3. /\ r \in Record /\ Len(r.attempts) <= MaxAttempts /\ r.deep = "RUNNING"
      /\ r.status = record[l].status /\ r.signature = record[l].signature
      /\ r.duplicateOf = record[l].duplicateOf
  BY <1>2, StartedRecords
<1> HIDE DEF r
<1>4. ClaimInv'
  BY <1>1, <1>3, GoingOn DEF HistoryInv
<1>5. {} \in SUBSET Snapshot
  OBVIOUS
<1>6. /\ record'[l] = r
      /\ \A k \in Lease : k # l => /\ record'[k] \in {record[k], NoRecord}
                                   /\ Held(k)' => Held(k)
  BY <1>1, <1>3, <1>5, PersistOthers
<1>7. task'[l] = "RUNNING" /\ \A k \in Lease : k # l => task'[k] = task[k]
  BY <1>1, <1>2
<1>8. ActiveDeep \subseteq ActiveDeep'
  BY <1>7 DEF ActiveDeep
<1>9. Scheduled(l)'
  BY <1>3, <1>6, <1>7 DEF Scheduled
<1>10. \A k \in Lease : k # l => /\ Unmoved(k)
                                 /\ k \in Range(todo) => k \in Range(todo') \cup halted'
  BY <1>1, <1>2, <1>7 DEF Unmoved
<1>11. WorkInv'
  BY <1>1, <1>6, <1>8, <1>9, <1>10, OthersStayScheduled DEF HistoryInv, WorkInv
<1> QED BY <1>4, <1>11 DEF HistoryInv

\* A lease whose signature is held becomes a duplicate, which claims nothing; if
\* the store refuses, it and those after it are set aside.
LEMMA BecomeDuplicateHistory ==
  ASSUME LeaseInv, HistoryInv, NEW l \in Lease, l = Head(todo), ~Quiet,
         BecomeDuplicate(l), UNCHANGED <<fast, overlooked>>
  PROVE  HistoryInv'
<1>1. PICK k \in Holder(record[l].signature) \ {l} :
        \/ /\ Persist(l, PassRecord("NOT_RUN", record[l].signature, k), {})
           /\ todo' = Tail(todo) /\ UNCHANGED halted
        \/ UNCHANGED storeVars /\ todo' = <<>> /\ halted' = halted \cup Range(todo)
  BY DEF BecomeDuplicate
<1> DEFINE r == PassRecord("NOT_RUN", record[l].signature, k)
<1>2. UNCHANGED <<task, race>>
  BY DEF BecomeDuplicate
<1>3. /\ record[l] \in Record /\ fast[l] = Idle /\ Range(Tail(todo)) = Range(todo) \ {l}
      /\ todo \in Seq(Lease)
  BY HeadFacts DEF LeaseInv, ProcessTypes
<1>4. CASE Persist(l, r, {}) /\ todo' = Tail(todo) /\ UNCHANGED halted
  <2>1. k \in Lease /\ record[l].signature \in Signature \cup {None}
    BY <1>1, <1>3 DEF Holder, ActiveDeep, Record
  <2>2. /\ r \in Record /\ Len(r.attempts) <= MaxAttempts /\ r.deep = "NOT_RUN"
        /\ {} \in SUBSET Snapshot
    BY <2>1, PassRecords
  <2>3. Fine(r) /\ r.duplicateOf = k /\ k # None
    BY <2>1, FineRecords, StoreAssumption DEF StoreAssumption
  <2> HIDE DEF r
  <2>4. Claim(l)' = None
    <3>1. record'[l] = r
      BY <1>4, <2>2, PersistOthers
    <3> QED BY <1>3, <2>3, <3>1 DEF Claim, Idle
  <2>5. ClaimInv'
    BY <1>4, <2>2, <2>3, <2>4, SavedClaims DEF HistoryInv
  <2>6. WorkInv'
    BY <1>2, <1>3, <1>4, <2>2, SavedWork DEF HistoryInv, WorkInv
  <2> QED BY <2>5, <2>6 DEF HistoryInv
<1>5. CASE UNCHANGED storeVars /\ todo' = <<>> /\ halted' = halted \cup Range(todo)
  <2>1. UNCHANGED <<record, memory>>
    BY <1>5 DEF storeVars
  <2>2. Range(todo) \subseteq Lease
    BY <1>3 DEF Range
  <2>3. WorkInv'
    BY <1>2, <1>5, <2>1, <2>2 DEF HistoryInv, WorkInv, Scheduled, ActiveDeep, Held
  <2> QED BY <2>1, <2>3, ClaimsRest DEF HistoryInv
<1> QED BY <1>1, <1>4, <1>5

\* A lease that is launched while the automation is off is set aside.
LEMMA LaunchRejectedHistory ==
  ASSUME LeaseInv, HistoryInv, NEW l \in Lease, l = Head(todo), ~Quiet,
         LaunchRejected, UNCHANGED <<fast, overlooked>>
  PROVE  HistoryInv'
<1>1. /\ todo' = Tail(todo) /\ halted' = halted \cup {l}
      /\ UNCHANGED <<record, memory, task, race>>
  BY DEF LaunchRejected, storeVars
<1>2. Range(Tail(todo)) = Range(todo) \ {l}
  BY HeadFacts
<1>3. WorkInv'
  BY <1>1, <1>2 DEF HistoryInv, WorkInv, Scheduled, ActiveDeep, Held
<1> QED BY <1>1, <1>3, ClaimsRest DEF HistoryInv

\* #launchDeep, all together.
LEMMA LaunchDeepHistory ==
  ASSUME LeaseInv, HistoryInv, NEW l \in Lease, l = Head(todo), LaunchDeep
  PROVE  HistoryInv'
<1>1. ~Quiet /\ record[l].deep = "PENDING" /\ UNCHANGED <<fast, overlooked>>
  BY DEF LaunchDeep
<1>2. Enqueue(l) \/ RunDeep(l) \/ BecomeDuplicate(l) \/ LaunchRejected
  BY DEF LaunchDeep
<1> QED BY <1>1, <1>2, EnqueueHistory, RunDeepHistory, BecomeDuplicateHistory,
           LaunchRejectedHistory

\* A lane ends: those that waited for it are woken, the others wait for another.
LEMMA DeepReturnsHistory ==
  ASSUME LeaseInv, HistoryInv, NEW l \in Lease, NEW status \in {"PASS", "FAILED"},
         DeepReturns(l, status)
  PROVE  HistoryInv'
<1> DEFINE r == LastAttempt(record[l], status)
<1>1. /\ task[l] = "RUNNING" /\ Persist(l, r, {})
      /\ task' = [k \in Lease |-> IF k = l THEN "NONE"
                                  ELSE IF l \in race[k] THEN "WOKEN" ELSE task[k]]
      /\ race' = [k \in Lease |-> IF l \in race[k] THEN {} ELSE race[k]]
      /\ UNCHANGED <<fast, todo, overlooked, halted>>
  BY DEF DeepReturns, historyVars
<1>2. /\ record[l] \in Record /\ RecordSound(record[l])
      /\ Len(record[l].attempts) <= MaxAttempts /\ record[l].deep = "RUNNING"
  BY <1>1 DEF LeaseInv, StoreInv, StoreTypeOK, LaneSound
<1>3. /\ r \in Record /\ Len(r.attempts) <= MaxAttempts /\ r.deep = status
      /\ r.status = record[l].status /\ r.signature = record[l].signature
      /\ r.duplicateOf = record[l].duplicateOf
  BY <1>2, EndedRecords
<1> HIDE DEF r
<1>4. ClaimInv'
  BY <1>1, <1>2, <1>3, GoingOn DEF HistoryInv
<1>5. {} \in SUBSET Snapshot
  OBVIOUS
<1>6. /\ record'[l] = r
      /\ \A k \in Lease : k # l => /\ record'[k] \in {record[k], NoRecord}
                                   /\ Held(k)' => Held(k)
  BY <1>1, <1>3, <1>5, PersistOthers
<1>7. Scheduled(l)'
  BY <1>3, <1>6 DEF Scheduled
<1>8. ASSUME NEW k \in Lease, k # l PROVE Unmoved(k)
  <2>1. race[k] # {} => task[k] = "QUEUED"
    BY DEF LeaseInv, LaneSound
  <2> QED BY <1>1, <1>8, <2>1 DEF Unmoved
<1>9. ASSUME NEW k \in Lease, k # l, task'[k] = "QUEUED"
      PROVE  race[k] \cap ActiveDeep \subseteq ActiveDeep'
  <2>1. l \notin race[k]
    BY <1>1, <1>9
  <2>2. ASSUME NEW m \in race[k] \cap ActiveDeep PROVE m \in ActiveDeep'
    <3>1. m \in Lease /\ m # l /\ task[m] = "RUNNING" /\ race[m] = {}
      BY <2>1, <2>2 DEF ActiveDeep, LeaseInv, LaneSound
    <3> QED BY <3>1, <1>1 DEF ActiveDeep
  <2> QED BY <2>2
<1>10. WorkInv'
  BY <1>1, <1>6, <1>7, <1>8, <1>9, OthersStayScheduled DEF HistoryInv, WorkInv
<1> QED BY <1>4, <1>10 DEF HistoryInv

\* A woken lease is the next to be launched.
LEMMA WakeHistory ==
  ASSUME LeaseInv, HistoryInv, NEW l \in Lease, Wake(l)
  PROVE  HistoryInv'
<1>1. /\ Quiet /\ task[l] = "WOKEN" /\ task' = [task EXCEPT ![l] = "NONE"] /\ todo' = <<l>>
      /\ UNCHANGED <<record, memory, fast, race, overlooked, halted>>
  BY DEF Wake, storeVars, historyVars
<1>2. /\ task'[l] = "NONE" /\ \A k \in Lease : k # l => task'[k] = task[k]
      /\ record[l].deep = "PENDING"
  BY <1>1 DEF LeaseInv, ProcessTypes, LaneSound
<1>3. Range(todo) = {} /\ Range(todo') = {l}
  BY <1>1, EmptyRange, SingleRange DEF Quiet
<1>4. ActiveDeep' = ActiveDeep
  BY <1>1, <1>2 DEF ActiveDeep
<1>5. Scheduled(l)'
  BY <1>1, <1>2, <1>3 DEF Scheduled
<1>6. \A k \in Lease : k # l => /\ record'[k] = record[k] /\ Unmoved(k)
                                /\ Held(k)' => Held(k)
                                /\ k \in Range(todo) => k \in Range(todo')
  BY <1>1, <1>2, <1>3 DEF Unmoved, Held
<1>7. WorkInv'
  BY <1>1, <1>4, <1>5, <1>6, OthersStayScheduled DEF HistoryInv, WorkInv
<1> QED BY <1>1, <1>7, ClaimsRest DEF HistoryInv

\* A retried lease is launched after its stage is pending again.
LEMMA RetryDeepHistory ==
  ASSUME HistoryInv, NEW l \in Lease, RetryDeep(l)
  PROVE  HistoryInv'
<1>1. /\ Quiet /\ UNCHANGED <<record, memory, fast, task, race, overlooked, halted>>
  BY DEF RetryDeep, storeVars, historyVars
<1>2. Range(todo) = {}
  BY <1>1, EmptyRange DEF Quiet
<1> QED BY <1>1, <1>2, ClaimsRest, WorkRests DEF HistoryInv

\* After a restart nobody waits for prices, no lease claims more than before, and
\* what was unfinished is resumed if it was loaded and has its corpus.
LEMMA CrashHistory ==
  ASSUME LeaseInv, HistoryInv, CrashAndRestart
  PROVE  HistoryInv'
<1>1. /\ memory' = Loaded
      /\ record' = [l \in Lease |-> IF l \in Range(rows) THEN record[l] ELSE NoRecord]
      /\ fast' = [l \in Lease |-> Idle]
      /\ todo' = IF deepEnabled THEN Only(Loaded, {l \in Lease : Resumes(l)}) ELSE <<>>
      /\ halted' = {l \in Lease : Unfinished(l) /\ (deepEnabled => SnapshotOf[l] \notin corpora)}
      /\ overlooked' = overlooked
  BY DEF CrashAndRestart
<1>2. /\ Loaded \in Seq(Lease) /\ IsInjective(Loaded) /\ Range(Loaded) \subseteq Range(rows)
      /\ \A l \in Lease : RecordSound(record[l])
  BY LoadedFacts DEF LeaseInv, StoreInv
<1>3. ASSUME NEW l \in Lease PROVE Claim(l)' \in {Claim(l), None}
  <2>1. fast'[l].at = "IDLE" /\ record'[l] \in {record[l], NoRecord}
    BY <1>1 DEF Idle
  <2>2. CASE fast[l].at = "ENRICHING"
    <3>1. record[l].status = "ISSUED"
      BY <2>2 DEF LeaseInv, LaneSound, Idle
    <3>2. record[l].signature = None
      BY <3>1 DEF HistoryInv, ClaimInv, Fine
    <3> QED BY <2>1, <3>2, NothingClaimed DEF Claim
  <2>3. CASE fast[l].at # "ENRICHING"
    BY <2>1, <2>3, NothingClaimed DEF Claim
  <2> QED BY <2>2, <2>3
<1>4. ClaimInv'
  <2>1. \A l \in Lease : Fine(record'[l])
    BY <1>1, NothingClaimed DEF HistoryInv, ClaimInv
  <2> QED BY <1>1, <1>3, <2>1, NoNewClaims DEF HistoryInv
<1>5. ASSUME NEW l \in Lease, Held(l)', l \notin halted', record'[l].deep \in {"PENDING", "RUNNING"}
      PROVE  l \in Range(todo')
  <2> DEFINE S == {k \in Lease : Resumes(k)}
  <2>1. l \in Range(Loaded) /\ record'[l] = record[l]
    BY <1>1, <1>2, <1>5 DEF Held
  <2>2. Resumes(l) /\ deepEnabled
    BY <1>1, <1>2, <1>5, <2>1 DEF Resumes, Unfinished, RecordSound
  <2>3. Range(Only(Loaded, S)) = Range(Loaded) \cap S
    <3> HIDE DEF S
    <3> QED BY <1>2, OnlyKeeps
  <2> QED BY <1>1, <2>1, <2>2, <2>3
<1>6. WorkInv'
  <2>1. halted' \subseteq Lease
    BY <1>1
  <2> QED BY <1>5, <2>1 DEF WorkInv, Scheduled
<1> QED BY <1>4, <1>6 DEF HistoryInv

-----------------------------------------------------------------------------
(* Theorems about what no lookup and no launch leaves behind *)

\* The initial states.
LEMMA HistoryInitially ==
  ASSUME LeaseInit
  PROVE  HistoryInv
<1>1. /\ record = [l \in Lease |-> NoRecord] /\ fast = [l \in Lease |-> Idle]
      /\ overlooked = [l \in Lease |-> {}] /\ halted = {}
  BY DEF LeaseInit, StoreInit
<1>2. Idle.at = "IDLE" /\ NoRecord.deep = "NOT_RUN"
  BY DEF Idle, NoRecord
<1>3. \A l \in Lease : Claim(l) = None
  BY <1>1, <1>2, NothingClaimed DEF Claim
<1>4. ClaimInv
  BY <1>1, <1>3, NothingClaimed DEF ClaimInv, Told
<1>5. WorkInv
  BY <1>1, <1>2 DEF WorkInv, Scheduled
<1> QED BY <1>4, <1>5 DEF HistoryInv

\* Every step.
LEMMA HistoryStep ==
  ASSUME LeaseInv, HistoryInv, [LeaseNext]_leaseVars
  PROVE  HistoryInv'
<1>1. CASE \E l \in Lease :
             \/ Begin(l) \/ BeginRefused(l)
             \/ \E s \in Signature \cup {None} : FastReturns(l, s)
             \/ PricesReturn(l) \/ FastFails(l) \/ FailIssued(l)
             \/ \E status \in {"PASS", "FAILED"} : DeepReturns(l, status)
             \/ Wake(l) \/ RetryDeep(l)
  BY <1>1, BeginHistory, BeginRefusedHistory, FastReturnsHistory, PricesReturnHistory,
     FastFailsHistory, FailIssuedHistory, DeepReturnsHistory, WakeHistory, RetryDeepHistory
<1>2. CASE Interrupt \/ MakePending \/ LaunchDeep
  <2>1. ~Quiet
    BY <1>2 DEF Interrupt, MakePending, LaunchDeep
  <2>2. PICK l \in Lease : l = Head(todo)
    BY <2>1, HeadFacts
  <2> QED BY <1>2, <2>2, InterruptHistory, MakePendingHistory, LaunchDeepHistory
<1>3. CASE CrashAndRestart
  BY <1>3, CrashHistory
<1>4. CASE SwitchDeep \/ UNCHANGED leaseVars
  <2>1. UNCHANGED <<record, memory, fast, task, race, todo, overlooked, halted>>
    BY <1>4 DEF SwitchDeep, leaseVars, storeVars, procVars, historyVars
  <2> QED BY <2>1, ClaimsRest, WorkRests DEF HistoryInv
<1> QED BY <1>1, <1>2, <1>3, <1>4 DEF LeaseNext

\* The second inductive invariant, on top of LeaseInv.
THEOREM HistoryInvariant == LeaseSpec => []HistoryInv
<1>1. LeaseInit => HistoryInv
  BY HistoryInitially
<1>2. LeaseInv /\ HistoryInv /\ [LeaseNext]_leaseVars => HistoryInv'
  BY HistoryStep
<1> QED BY <1>1, <1>2, LeaseInvariant, PTL DEF LeaseSpec

\* No two leases spend deep attempts on one signature, over every order of the
\* lanes, retry, interruption and restart, unless the later of the two lookups could
\* not see the other lease: its candidate was waiting for prices, or the list had
\* forgotten it.
THEOREM InvestigationsRepeatOnlyUnseen == LeaseSpec => []OnlyUnseenRepeats
<1>1. ASSUME LeaseInv, HistoryInv PROVE OnlyUnseenRepeats
  <2>1. ASSUME NEW l \in Lease, record[l].signature # None, record[l].attempts # <<>>
        PROVE  Claim(l) = record[l].signature
    <3>1. Fine(record[l]) /\ LaneSound(l)
      BY <1>1 DEF LeaseInv, HistoryInv, ClaimInv
    <3>2. record[l].duplicateOf = None /\ record[l].status # "ISSUED"
      BY <2>1, <3>1 DEF Fine
    <3>3. fast[l].at # "ENRICHING"
      BY <3>1, <3>2 DEF LaneSound, Idle
    <3> QED BY <3>2, <3>3 DEF Claim
  <2>2. ASSUME NEW k \in Lease, NEW l \in Lease, Repeats(k, l)
        PROVE  k \in overlooked[l] \/ l \in overlooked[k]
    <3>1. Claim(k) = record[k].signature /\ Claim(l) = record[l].signature
      BY <2>1, <2>2 DEF Repeats
    <3>2. Told(k, l)
      BY <1>1, <2>2 DEF HistoryInv, ClaimInv, Repeats
    <3> QED BY <2>2, <3>1, <3>2 DEF Told, Repeats
  <2> QED BY <2>2 DEF OnlyUnseenRepeats
<1> QED BY <1>1, LeaseInvariant, HistoryInvariant, PTL

\* Deep work that is not finished is always on its way when no code runs: what is
\* RUNNING is a lane of this process, what is PENDING waits for one that runs or was
\* just woken.  Only a restart without the lease or its corpus, a launch while the
\* automation is off and a refused duplicate link leave one behind.
THEOREM UnfinishedStaysScheduled == LeaseSpec => []UnfinishedIsScheduled
<1>1. HistoryInv => UnfinishedIsScheduled
  BY EmptyRange DEF HistoryInv, WorkInv, Scheduled, UnfinishedIsScheduled, Quiet
<1> QED BY <1>1, HistoryInvariant, PTL

\* The types of the scheduler and of its store: in particular a lease that is
\* still to be dealt with is one whose deep stage is pending, running or failed.
THEOREM LeaseTypesAreKept == LeaseSpec => []LeaseTypeOK
<1>1. ASSUME LeaseInv, HistoryInv PROVE LeaseTypeOK
  <2> DEFINE S == {l \in Lease : record[l].deep \in {"PENDING", "RUNNING", "FAILED"}}
  <2>1. todo \in Seq(Lease)
    BY <1>1 DEF LeaseInv, ProcessTypes
  <2>2. \A l \in Range(todo) : l \in S
    BY <1>1, <2>1 DEF LeaseInv, LaneSound, Range
  <2>3. todo \in Seq(S)
    <3> HIDE DEF S
    <3>1. \A i \in 1..Len(todo) : todo[i] \in S
      BY <2>1, <2>2 DEF Range
    <3> QED BY <2>1, <3>1
  <2> QED BY <1>1, <2>3 DEF LeaseInv, StoreInv, ProcessTypes, HistoryInv, ClaimInv, WorkInv,
                            LeaseTypeOK
<1> QED BY <1>1, LeaseInvariant, HistoryInvariant, PTL

=============================================================================
