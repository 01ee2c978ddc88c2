----------------------------- MODULE SearchProofs -----------------------------
(***************************************************************************)
(* Theorems about the scheduler of search issues, the catalog desk and the *)
(* outbox of messages, for any issues, sources, messages, limits, times    *)
(* and numbers of restarts.                                                *)
(*                                                                         *)
(* An issue has one lease.  A tick works through what it read before an    *)
(* await, so that the invariant speaks of the leases it still has to       *)
(* record: each is the only one of its issue that can be open.             *)
(*                                                                         *)
(* A lease is counted once.  The counters of an issue are the number of    *)
(* its leases that were recorded, and these are met in the order of their  *)
(* snapshots, so that one comparison with the last of them is enough.      *)
(*                                                                         *)
(* The retries of a message are a budget: three for every delivery that    *)
(* was put in the outbox, and one for each attempt that was not recorded.  *)
(* Requests under way and deliveries read before the await are part of it. *)
(***************************************************************************)
EXTENDS MCSearch, FiniteFolds

-----------------------------------------------------------------------------
(* The scheduler of search issues *)

\* The values of the variables that the invariants are about.
Types ==
    /\ clock \in Nat /\ newest \in Snapshot /\ snapshot \in 1..newest
    /\ issues \in [Issues -> Issue \cup {None}]
    /\ active \in [Issues -> Lease \cup {None}]
    /\ leases \in [Lease -> {"NONE", "ISSUED", "PASS", "FAILED", "EXPIRED"}]
    /\ counted \in [Lease -> Nat]
    /\ phase \in {"IDLE", "RECORD", "DISPATCH"}

\* At most one lease of an issue is issued; the issue waits for no other.
OneIssued ==
    \A l, m \in Lease :
        l[1] = m[1] /\ leases[l] = "ISSUED" =>
            /\ leases[m] = "ISSUED" => m = l
            /\ active[l[1]] \in {None, l}

\* Only an issue that exists is searched.
OnlyCreated ==
    /\ \A l \in Lease : leases[l] = "ISSUED" => Exists(l[1])
    /\ \A i \in Issues : active[i] # None => active[i][1] = i /\ Exists(i)

\* What a tick has found: leases it closed, each the only open one of its
\* issue, and then issues to dispatch.
DueLease(l) ==
    /\ l \in Lease /\ leases[l] = "EXPIRED" /\ Exists(l[1])
    /\ active[l[1]] \in {None, l}
    /\ \A m \in Lease : m[1] = l[1] => leases[m] # "ISSUED"

DueFound ==
    /\ phase = "RECORD" =>
         /\ due \in Seq(Lease)
         /\ \A j, k \in 1..Len(due) :
              DueLease(due[k]) /\ (due[j][1] = due[k][1] => due[j] = due[k])
    /\ phase = "DISPATCH" =>
         due \in Seq(Issues) /\ due # <<>> /\ \A k \in 1..Len(due) : Exists(due[k])

LeasesInv == Types /\ OneIssued /\ OnlyCreated /\ DueFound

-----------------------------------------------------------------------------
\* A lease is the pair of its issue and its snapshot.
LEMMA LeaseParts ==
  ASSUME NEW l \in Lease PROVE l[1] \in Issues /\ l[2] \in Snapshot /\ l = <<l[1], l[2]>>
BY DEF Lease

\* reserveDueLease: an issued lease of the issue is found again, or none is issued.
LEMMA LeaseForFacts ==
  ASSUME LeasesInv, NEW i \in Issues
  PROVE  /\ LeaseFor(i) \in Lease /\ LeaseFor(i)[1] = i
         /\ \A l \in Lease : l[1] = i /\ leases[l] = "ISSUED" => l = LeaseFor(i)
         /\ \/ leases[LeaseFor(i)] = "ISSUED"
            \/ LeaseFor(i) = <<i, snapshot>> /\ \A l \in Lease : l[1] = i => leases[l] # "ISSUED"
<1>1. CASE IssuedOf(i) # {}
  <2>1. LeaseFor(i) \in IssuedOf(i)
    BY <1>1 DEF LeaseFor
  <2> QED BY <2>1 DEF IssuedOf, LeasesInv, OneIssued
<1>2. CASE IssuedOf(i) = {}
  <2>1. LeaseFor(i) = <<i, snapshot>>
    BY <1>2 DEF LeaseFor
  <2>2. snapshot \in Snapshot
    BY BoundAssumption DEF LeasesInv, Types, Snapshot
  <2>3. <<i, snapshot>> \in Lease /\ <<i, snapshot>>[1] = i
    BY <2>2 DEF Lease
  <2> QED BY <1>2, <2>1, <2>3 DEF IssuedOf
<1> QED BY <1>1, <1>2

\* A list of the elements of a finite set.
LEMMA SetToSeqFacts ==
  ASSUME NEW S, IsFiniteSet(S)
  PROVE  SetToSeq(S) \in Seq(S)
<1>1. PICK f : f \in [1..Cardinality(S) -> S] /\ IsInjective(f)
  BY FS_CardinalityType DEF ExistsBijection, Bijection, Injection, IsInjective
<1>2. SetToSeq(S) \in [1..Cardinality(S) -> S]
  BY <1>1 DEF SetToSeq
<1> QED BY <1>2, FS_CardinalityType

\* There are finitely many leases.
LEMMA LeasesAreFinite == IsFiniteSet(Lease)
<1>1. IsFiniteSet(Issues) /\ IsFiniteSet(Snapshot)
  BY IssueAssumption, BoundAssumption, FS_Interval DEF Snapshot
<1> QED BY <1>1, FS_Product DEF Lease

\* What recording a lease changes.
Records(i, l) ==
    LET n == IF Counts(i, l) THEN 1 ELSE 0 IN
    /\ issues'[i] \in Issue
    /\ issues' = [issues EXCEPT ![i] = issues'[i]]
    /\ issues'[i].last = l
    /\ counted' = [counted EXCEPT ![l] = @ + n]
    /\ issues'[i].runs = issues[i].runs + n
    /\ Terminal(l) =>
         issues'[i].passed + issues'[i].failed = issues[i].passed + issues[i].failed + n

\* #complete: the counters of the issue grow with the lease.
LEMMA RecordedFacts ==
  ASSUME Types, NEW i \in Issues, Exists(i), NEW l \in Lease, NEW n \in Nat
  PROVE  \A r \in {Recorded(i, l), [Recorded(i, l) EXCEPT !.next = n]} :
           /\ r \in Issue /\ r.last = l
           /\ r.runs = issues[i].runs + (IF Counts(i, l) THEN 1 ELSE 0)
           /\ Terminal(l) =>
                r.passed + r.failed =
                  issues[i].passed + issues[i].failed + (IF Counts(i, l) THEN 1 ELSE 0)
<1> DEFINE c == IF Counts(i, l) THEN 1 ELSE 0
           p == IF leases[l] = "PASS" THEN c ELSE 0
           f == IF leases[l] = "FAILED" THEN c ELSE 0
<1>1. issues[i] \in Issue
  BY DEF Types, Exists
<1>2. c \in Nat /\ p \in Nat /\ f \in Nat /\ (Terminal(l) => p + f = c)
  BY DEF Counts, Terminal
<1>3. Recorded(i, l) = [enabled |-> issues[i].enabled, next |-> issues[i].next, last |-> l,
                        runs |-> issues[i].runs + c, passed |-> issues[i].passed + p,
                        failed |-> issues[i].failed + f]
  BY Zenon DEF Recorded
<1> HIDE DEF c, p, f
<1>4. /\ Recorded(i, l) \in Issue
      /\ [Recorded(i, l) EXCEPT !.next = n] =
           [enabled |-> issues[i].enabled, next |-> n, last |-> l,
                        runs |-> issues[i].runs + c, passed |-> issues[i].passed + p,
                        failed |-> issues[i].failed + f]
  BY <1>1, <1>2, <1>3 DEF Issue
<1>5. [Recorded(i, l) EXCEPT !.next = n] \in Issue
  BY <1>1, <1>2, <1>4 DEF Issue
<1>6. issues[i].passed \in Nat /\ issues[i].failed \in Nat /\ issues[i].runs \in Nat
  BY <1>1 DEF Issue
<1>7. ASSUME NEW r \in {Recorded(i, l), [Recorded(i, l) EXCEPT !.next = n]}
      PROVE  /\ r \in Issue /\ r.last = l /\ r.runs = issues[i].runs + c
             /\ r.passed = issues[i].passed + p /\ r.failed = issues[i].failed + f
  BY <1>3, <1>4, <1>5, <1>7
<1>8. c = IF Counts(i, l) THEN 1 ELSE 0
  BY DEF c
<1>9. ASSUME NEW r \in {Recorded(i, l), [Recorded(i, l) EXCEPT !.next = n]}
      PROVE  /\ r \in Issue /\ r.last = l /\ r.runs = issues[i].runs + c
             /\ Terminal(l) => r.passed + r.failed = issues[i].passed + issues[i].failed + c
  <2>1. /\ r \in Issue /\ r.last = l /\ r.runs = issues[i].runs + c
        /\ r.passed = issues[i].passed + p /\ r.failed = issues[i].failed + f
    BY <1>7, <1>9
  <2> QED BY <1>2, <1>6, <2>1
<1> QED BY <1>8, <1>9

\* A completion records the lease, or its save failed and nothing changed.
LEMMA CompletesRecords ==
  ASSUME Types, NEW i \in Issues, Exists(i), NEW l \in Lease, NEW n \in Nat,
         Complete(i, l, n) \/ CompleteFails(i, l)
  PROVE  Records(i, l) \/ UNCHANGED <<issues, counted>>
<1> DEFINE c == IF Counts(i, l) THEN 1 ELSE 0
<1>1. CASE UNCHANGED <<issues, counted>>
  BY <1>1
<1>2. CASE ~UNCHANGED <<issues, counted>>
  <2>1. PICK r \in {Recorded(i, l), [Recorded(i, l) EXCEPT !.next = n]} :
          issues' = [issues EXCEPT ![i] = r] /\ Count(i, l)
    BY <1>2, Zenon DEF Complete, CompleteFails
  <2>2. issues'[i] = r
    BY <2>1 DEF Types
  <2>3. counted' = [counted EXCEPT ![l] = @ + c]
    <3>1. CASE Counts(i, l)
      BY <2>1, <3>1, Zenon DEF Count
    <3>2. CASE ~Counts(i, l)
      <4>1. c = 0 /\ counted' = counted
        BY <2>1, <3>2, Zenon DEF Count
      <4> HIDE DEF c
      <4>2. counted \in [Lease -> Nat]
        BY DEF Types
      <4> QED BY <4>1, <4>2
    <3> QED BY <3>1, <3>2
  <2>4. /\ r \in Issue /\ r.last = l
        /\ r.runs = issues[i].runs + c
        /\ Terminal(l) => r.passed + r.failed = issues[i].passed + issues[i].failed + c
    <3>1. \A x \in {Recorded(i, l), [Recorded(i, l) EXCEPT !.next = n]} :
             /\ x \in Issue /\ x.last = l
             /\ x.runs = issues[i].runs + c
             /\ Terminal(l) => x.passed + x.failed = issues[i].passed + issues[i].failed + c
      BY RecordedFacts
    <3> QED BY <2>1, <3>1, Zenon
  <2>5. issues' = [issues EXCEPT ![i] = issues'[i]]
    BY <2>1, <2>2
  <2> QED BY <2>2, <2>3, <2>4, <2>5, Zenon DEF Records
<1> QED BY <1>1, <1>2

\* Recording a lease of an issue that exists keeps what is known of leases.
LEMMA RecordingKeeps ==
  ASSUME LeasesInv, NEW i \in Issues, Exists(i), NEW l \in Lease,
         Records(i, l) \/ UNCHANGED <<issues, counted>>
  PROVE  /\ issues' \in [Issues -> Issue \cup {None}]
         /\ counted' \in [Lease -> Nat]
         /\ \A j \in Issues : Exists(j)' = Exists(j)
BY NoneAssumption DEF LeasesInv, Types, Records, Exists

\* A launch: the lease it issues is the only open one of its issue.
LEMMA LaunchKeeps ==
  ASSUME LeasesInv, NEW i \in Issues, Exists(i), Launch(LeaseFor(i)), active[i] = None,
         UNCHANGED active \/ active' = [active EXCEPT ![i] = LeaseFor(i)],
         \A j \in Issues : Exists(j)' = Exists(j)
  PROVE  /\ leases' \in [Lease -> {"NONE", "ISSUED", "PASS", "FAILED", "EXPIRED"}]
         /\ active' \in [Issues -> Lease \cup {None}]
         /\ OneIssued' /\ OnlyCreated'
<1> DEFINE k == LeaseFor(i)
<1>1. /\ k \in Lease /\ k[1] = i
      /\ \A l \in Lease : l[1] = i /\ leases[l] = "ISSUED" => l = k
  BY LeaseForFacts
<1>2. leases' = leases \/ leases' = [leases EXCEPT ![k] = "ISSUED"]
  BY DEF Launch
<1> HIDE DEF k
<1>3. leases' \in [Lease -> {"NONE", "ISSUED", "PASS", "FAILED", "EXPIRED"}]
  BY <1>1, <1>2 DEF LeasesInv, Types
<1>4. active' \in [Issues -> Lease \cup {None}]
  BY <1>1 DEF LeasesInv, Types, k
<1>5. \A l \in Lease : leases'[l] = "ISSUED" => leases[l] = "ISSUED" \/ l = k
  BY <1>1, <1>2 DEF LeasesInv, Types
<1>6. \A j \in Issues : active'[j] = active[j] \/ (j = i /\ active'[j] = k)
  BY DEF LeasesInv, Types, k
<1>7. OneIssued'
  BY <1>1, <1>5, <1>6, LeaseParts DEF LeasesInv, OneIssued
<1>8. OnlyCreated'
  BY <1>1, <1>5, <1>6, LeaseParts DEF LeasesInv, OnlyCreated
<1> QED BY <1>3, <1>4, <1>7, <1>8

\* Nothing moves that the leases' invariant is about.
LEMMA QuietKeeps ==
  ASSUME LeasesInv, UNCHANGED leases, active' \in [Issues -> Lease \cup {None}],
         \A i \in Issues : active'[i] \in {active[i], None},
         counted' \in [Lease -> Nat],
         issues' \in [Issues -> Issue \cup {None}],
         \A j \in Issues : Exists(j) => Exists(j)',
         clock' \in Nat, newest' \in Snapshot, snapshot' \in 1..newest',
         \/ phase' = "IDLE"
         \/ phase' = phase /\ due' = due
         \/ phase = "RECORD" /\ phase' = "RECORD" /\ due # <<>> /\ due' = Tail(due)
  PROVE  LeasesInv'
<1>1. Types' /\ OneIssued'
  BY LeaseParts DEF LeasesInv, Types, OneIssued
<1>2. OnlyCreated'
  BY LeaseParts DEF LeasesInv, OnlyCreated
<1>3. \A l : DueLease(l) => DueLease(l)'
  BY LeaseParts DEF DueLease
<1>4. DueFound'
  <2>1. CASE phase' = "IDLE"
    BY <2>1 DEF DueFound
  <2>2. CASE phase' = phase /\ due' = due
    BY <1>3, <2>2 DEF LeasesInv, DueFound
  <2>3. CASE phase = "RECORD" /\ phase' = "RECORD" /\ due # <<>> /\ due' = Tail(due)
    <3>1. due \in Seq(Lease)
      BY <2>3 DEF LeasesInv, DueFound
    <3>2. /\ due' \in Seq(Lease)
          /\ \A k \in 1..Len(due') : k + 1 \in 1..Len(due) /\ due'[k] = due[k + 1]
      BY <2>3, <3>1
    <3>3. \A j, k \in 1..Len(due) :
              DueLease(due[k]) /\ (due[j][1] = due[k][1] => due[j] = due[k])
      BY <2>3 DEF LeasesInv, DueFound
    <3>4. ASSUME NEW j \in 1..Len(due'), NEW k \in 1..Len(due')
          PROVE  DueLease(due[k])' /\ (due'[j][1] = due'[k][1] => due'[j] = due'[k])
      <4>1. DueLease(due[k + 1]) /\ (due[j + 1][1] = due[k + 1][1] => due[j + 1] = due[k + 1])
        BY <3>2, <3>3, <3>4
      <4>2. DueLease(due[k])'
        BY <3>2, <3>4, <4>1, LeaseParts DEF DueLease
      <4> QED BY <3>2, <3>4, <4>1, <4>2
    <3> QED BY <2>3, <3>2, <3>4 DEF DueFound
  <2> QED BY <2>1, <2>2, <2>3
<1> QED BY <1>1, <1>2, <1>4 DEF LeasesInv

\* The process ends.
LEMMA EndsKeep ==
  ASSUME LeasesInv, ProcessEnds, UNCHANGED <<leases, newest, clock>>,
         issues' \in [Issues -> Issue \cup {None}], counted' \in [Lease -> Nat],
         \A j \in Issues : Exists(j) => Exists(j)'
  PROVE  LeasesInv'
<1>1. /\ active' = [i \in Issues |-> None] /\ phase' = "IDLE"
      /\ snapshot' \in 1..snapshot \/ snapshot' = snapshot
  BY Zenon DEF ProcessEnds
<1>2. Types'
  BY <1>1, BoundAssumption DEF LeasesInv, Types, Snapshot
<1>3. OneIssued' /\ DueFound'
  BY <1>1, LeaseParts DEF LeasesInv, OneIssued, DueFound
<1> QED BY <1>1, <1>2, <1>3, LeaseParts DEF LeasesInv, OnlyCreated

\* A later time is a time.
LEMMA LaterIsNat == ASSUME NEW t \in Nat PROVE Later(t) \in Nat
BY BoundAssumption DEF Later

\* An issue is dispatched: its lease is launched, and the issue's next time set.
LEMMA DispatchKeeps ==
  ASSUME LeasesInv, NEW i \in Issues, Exists(i), NEW who \in {"OPERATOR", "SCHEDULE"},
         Dispatch(i, who) \/ DispatchFails(i),
         UNCHANGED <<clock, snapshot, newest>>,
         \/ UNCHANGED <<phase, due>>
         \/ phase' = "IDLE"
         \/ phase = "DISPATCH" /\ phase' = "DISPATCH" /\ Tail(due) # <<>> /\ due' = Tail(due),
         phase # "RECORD"
  PROVE  LeasesInv'
<1>1. /\ Launch(LeaseFor(i)) /\ active[i] = None /\ UNCHANGED counted
      /\ UNCHANGED active \/ active' = [active EXCEPT ![i] = LeaseFor(i)]
      /\ issues' = issues \/ issues' = [issues EXCEPT ![i].next = Later(clock + Cadence)]
  BY Zenon DEF Dispatch, DispatchFails, MayDispatch, desk
<1>2. /\ issues' \in [Issues -> Issue \cup {None}]
      /\ \A j \in Issues : Exists(j)' = Exists(j)
  <2>1. Later(clock + Cadence) \in Nat
    <3>1. clock + Cadence \in Nat
      BY BoundAssumption DEF LeasesInv, Types
    <3> QED BY <3>1, LaterIsNat
  <2>2. [issues[i] EXCEPT !.next = Later(clock + Cadence)] \in Issue
    BY <2>1 DEF LeasesInv, Types, Exists, Issue
  <2>3. \/ issues' = issues
        \/ issues' = [issues EXCEPT ![i] = [issues[i] EXCEPT !.next = Later(clock + Cadence)]]
    BY <1>1
  <2> HIDE DEF Later
  <2> QED BY <2>2, <2>3, NoneAssumption DEF LeasesInv, Types, Exists
<1>3. /\ leases' \in [Lease -> {"NONE", "ISSUED", "PASS", "FAILED", "EXPIRED"}]
      /\ active' \in [Issues -> Lease \cup {None}]
      /\ OneIssued' /\ OnlyCreated'
  BY <1>1, <1>2, LaunchKeeps
<1>4. Types'
  BY <1>1, <1>2, <1>3 DEF LeasesInv, Types
<1>5. DueFound'
  <2>1. CASE phase' = "IDLE"
    BY <2>1 DEF DueFound
  <2>2. CASE phase' = "DISPATCH"
    <3>1. due \in Seq(Issues) /\ \A k \in 1..Len(due) : due[k] \in Issues /\ Exists(due[k])
      BY <2>2 DEF LeasesInv, DueFound
    <3>2. /\ due' \in Seq(Issues) /\ due' # <<>>
          /\ \A k \in 1..Len(due') : \E j \in 1..Len(due) : due'[k] = due[j]
      <4>1. CASE due' = due
        BY <2>2, <4>1 DEF LeasesInv, DueFound
      <4>2. CASE due' = Tail(due) /\ Tail(due) # <<>>
        BY <3>1, <4>2
      <4> QED BY <2>2, <4>1, <4>2
    <3>3. \A k \in 1..Len(due') : Exists(due[k])'
      BY <1>2, <3>1, <3>2 DEF Exists
    <3> QED BY <2>2, <3>2, <3>3 DEF DueFound
  <2> QED BY <1>4, <2>1, <2>2 DEF LeasesInv, Types
<1> QED BY <1>3, <1>4, <1>5 DEF LeasesInv

\* Every step of the scheduler keeps one lease for each issue, whatever was read
\* before an await and whatever failed or restarted since.
THEOREM LeasesStep == LeasesInv /\ [Next]_vars => LeasesInv'
<1> SUFFICES ASSUME LeasesInv, [Next]_vars PROVE LeasesInv'
  OBVIOUS
<1>0. /\ Types /\ active \in [Issues -> Lease \cup {None}]
      /\ issues \in [Issues -> Issue \cup {None}] /\ counted \in [Lease -> Nat]
      /\ clock \in Nat /\ newest \in Snapshot /\ snapshot \in 1..newest
  BY DEF LeasesInv, Types
<1>1. ASSUME NEW expired \in SUBSET Orphans, Tick(expired) PROVE LeasesInv'
  <2>1. /\ leases' = [l \in Lease |-> IF l \in expired THEN "EXPIRED" ELSE leases[l]]
        /\ due' = SetToSeq(expired) /\ phase' = "RECORD"
        /\ UNCHANGED <<clock, corpus, issues, active, counted>>
    BY <1>1, Zenon DEF Tick, desk
  <2>2. expired \subseteq Lease /\ \A l \in expired : leases[l] = "ISSUED"
    BY DEF Orphans
  <2>3. due' \in Seq(expired)
    BY <2>1, <2>2, LeasesAreFinite, FS_Subset, SetToSeqFacts
  <2>4. /\ due' \in Seq(Lease)
        /\ \A k \in 1..Len(due') : due'[k] \in expired
    BY <2>2, <2>3
  <2>5. Types' /\ OneIssued' /\ OnlyCreated'
    BY <2>1, <2>2, LeaseParts DEF LeasesInv, Types, OneIssued, OnlyCreated, Exists, corpus
  <2>6. ASSUME NEW l \in expired
        PROVE  /\ l \in Lease /\ leases'[l] = "EXPIRED" /\ Exists(l[1])'
               /\ active'[l[1]] \in {None, l}
               /\ \A m \in Lease : m[1] = l[1] => leases'[m] # "ISSUED" /\ (m \in expired => m = l)
    BY <2>1, <2>2 DEF LeasesInv, OneIssued, OnlyCreated, Exists
  <2>7. \A j, k \in 1..Len(due') :
          DueLease(due[k])' /\ (due'[j][1] = due'[k][1] => due'[j] = due'[k])
    BY <2>2, <2>4, <2>6 DEF DueLease, Exists
  <2> QED BY <2>1, <2>4, <2>5, <2>7 DEF LeasesInv, DueFound
<1>2. CASE RecordExpired
  <2>1. phase = "RECORD" /\ due # <<>> /\ UNCHANGED <<clock, corpus, active, leases>>
    BY <1>2, Zenon DEF RecordExpired, lower
  <2>2. due \in Seq(Lease) /\ DueLease(due[1])
    BY <2>1 DEF LeasesInv, DueFound
  <2> DEFINE l == Head(due)
  <2>3. l \in Lease /\ l[1] \in Issues /\ Exists(l[1])
    BY <2>1, <2>2, LeaseParts DEF DueLease
  <2>4. \/ Complete(l[1], l, clock) /\ phase' = phase /\ due' = Tail(due)
        \/ CompleteFails(l[1], l) /\ phase' = "IDLE"
    BY <1>2, Zenon DEF RecordExpired
  <2> HIDE DEF l
  <2>5. /\ issues' \in [Issues -> Issue \cup {None}] /\ counted' \in [Lease -> Nat]
        /\ \A j \in Issues : Exists(j)' = Exists(j)
    BY <1>0, <2>3, <2>4, CompletesRecords, RecordingKeeps
  <2> QED BY <1>0, <2>1, <2>4, <2>5, QuietKeeps DEF corpus
<1>3. CASE Select
  <2>1. UNCHANGED <<clock, corpus, issues, active, leases, counted>>
    BY <1>3, Zenon DEF Select, desk, lower
  <2>2. phase' = "IDLE" \/ (phase' = "DISPATCH" /\ due' # <<>>)
    BY <1>3, Zenon DEF Select
  <2>3. PICK ranked \in Rankings(Placed) :
          due' = SubSeq(ranked, 1, IF Len(ranked) < Available THEN Len(ranked) ELSE Available)
    BY <1>3, Zenon DEF Select
  <2>4. Placed \subseteq Issues /\ \A i \in Placed : Exists(i)
    BY DEF Placed, IsDue
  <2>5. ranked \in Seq(Placed)
    <3>1. Cardinality(Placed) \in Nat
      BY <2>4, IssueAssumption, FS_Subset, FS_CardinalityType
    <3>2. ranked \in [1..Cardinality(Placed) -> Placed]
      BY Zenon DEF Rankings
    <3> QED BY <3>1, <3>2
  <2>6. Available \in Nat
    BY IssueAssumption, LimitAssumption, FS_Subset, FS_CardinalityType DEF Available, Active
  <2>7. due' \in Seq(Placed)
    BY <2>3, <2>5, <2>6
  <2>8. due' \in Seq(Issues) /\ \A k \in 1..Len(due') : Exists(due[k])'
    BY <2>1, <2>4, <2>7 DEF Exists
  <2>9. Types' /\ OneIssued' /\ OnlyCreated'
    BY <2>1, <2>2 DEF LeasesInv, Types, OneIssued, OnlyCreated, Exists, corpus
  <2> QED BY <2>2, <2>8, <2>9 DEF LeasesInv, DueFound
<1>4. CASE DispatchNext
  <2> DEFINE i == Head(due)
  <2>1. phase = "DISPATCH" /\ UNCHANGED <<clock, corpus>>
    BY <1>4, Zenon DEF DispatchNext
  <2>2. i \in Issues /\ Exists(i)
    BY <2>1 DEF LeasesInv, DueFound
  <2>3. \/ /\ Dispatch(i, "SCHEDULE") /\ due' = Tail(due)
           /\ phase' = "IDLE" \/ (phase' = "DISPATCH" /\ Tail(due) # <<>>)
        \/ phase' = "IDLE" /\ UNCHANGED <<desk, lower>>
        \/ phase' = "IDLE" /\ DispatchFails(i)
    BY <1>4, Zenon DEF DispatchNext
  <2>4. CASE phase' = "IDLE" /\ UNCHANGED <<desk, lower>>
    BY <1>0, <2>1, <2>4, QuietKeeps DEF desk, lower, corpus, Exists
  <2>5. CASE ~(phase' = "IDLE" /\ UNCHANGED <<desk, lower>>)
    BY <2>1, <2>2, <2>3, <2>5, DispatchKeeps DEF corpus
  <2> QED BY <2>4, <2>5
<1>5. ASSUME NEW i \in Issues, RunNow(i) PROVE LeasesInv'
  BY <1>5, DispatchKeeps DEF RunNow, corpus
<1>6. ASSUME NEW i \in Issues, Create(i) PROVE LeasesInv'
  <2>1. [NewIssue EXCEPT !.next = clock] \in Issue
    BY <1>0 DEF NewIssue, Issue
  <2>2. /\ issues' = [issues EXCEPT ![i] = [NewIssue EXCEPT !.next = clock]]
        /\ UNCHANGED <<clock, corpus, active, leases, counted, phase, due>>
    BY <1>6, Zenon DEF Create, lower
  <2> QED BY <1>0, <2>1, <2>2, NoneAssumption, QuietKeeps DEF corpus, Exists
<1>7. ASSUME NEW i \in Issues, NEW enabled \in BOOLEAN, SetEnabled(i, enabled) PROVE LeasesInv'
  <2> DEFINE next == IF enabled THEN clock ELSE issues[i].next
             new == [[issues[i] EXCEPT !.enabled = enabled] EXCEPT !.next = next]
  <2>1. /\ Exists(i) /\ UNCHANGED <<clock, corpus, active, leases, counted, phase, due>>
        /\ issues' = [issues EXCEPT ![i].enabled = enabled,
                                    ![i].next = IF enabled THEN clock ELSE @]
    BY <1>7, Zenon DEF SetEnabled, lower
  <2>2. issues[i] \in Issue
    BY <1>0, <2>1 DEF Exists
  <2>3. next \in Nat
    BY <1>0, <2>2 DEF Issue
  <2>4. issues' = [issues EXCEPT ![i] = new]
    BY <2>1
  <2>5. new \in Issue
    <3> HIDE DEF next
    <3> QED BY <2>2, <2>3 DEF Issue
  <2> HIDE DEF new
  <2> QED BY <1>0, <2>1, <2>4, <2>5, NoneAssumption, QuietKeeps DEF corpus, Exists
<1>8. ASSUME NEW i \in Issues, Settle(i) PROVE LeasesInv'
  <2> DEFINE l == active[i]
  <2>1. l # None /\ phase = "IDLE" /\ UNCHANGED <<clock, newest, leases>>
    BY <1>8, Zenon DEF Settle
  <2>2. l \in Lease /\ l = active[i]
    BY <1>0, <2>1 DEF Types
  <2>3. l[1] \in Issues
    BY <2>2, LeaseParts
  <2>4. Complete(i, l, issues[i].next) \/ CompleteFails(i, l)
    BY <1>8, Zenon DEF Settle
  <2>5. \/ /\ active' = [active EXCEPT ![i] = None]
           /\ UNCHANGED <<snapshot, phase, due>>
        \/ ProcessEnds
    BY <1>8, Zenon DEF Settle, Release
  <2>6. Exists(i)
    BY <2>1 DEF LeasesInv, OnlyCreated
  <2>7. issues[i].next \in Nat
    BY <1>0, <2>6 DEF Exists, Issue
  <2> HIDE DEF l
  <2>8. /\ issues' \in [Issues -> Issue \cup {None}] /\ counted' \in [Lease -> Nat]
        /\ \A j \in Issues : Exists(j)' = Exists(j)
    BY <1>0, <2>2, <2>4, <2>6, <2>7, CompletesRecords, RecordingKeeps
  <2>9. CASE ProcessEnds
    BY <2>1, <2>8, <2>9, EndsKeep
  <2>10. CASE active' = [active EXCEPT ![i] = None] /\ UNCHANGED <<snapshot, phase, due>>
    <3>1. /\ active' \in [Issues -> Lease \cup {None}]
          /\ \A j \in Issues : active'[j] \in {active[j], None}
      BY <2>10 DEF LeasesInv, Types
    <3> QED BY <1>0, <2>1, <2>8, <2>10, <3>1, QuietKeeps
  <2> QED BY <2>5, <2>9, <2>10
<1>9. ASSUME NEW l \in Lease, Ends(l) PROVE LeasesInv'
  <2>1. PICK status \in {"PASS", "FAILED"} : leases' = [leases EXCEPT ![l] = status]
    BY <1>9, Zenon DEF Ends, LeaseEnds
  <2>2. phase = "IDLE" /\ UNCHANGED <<clock, corpus, issues, active, counted, phase>>
    BY <1>9, Zenon DEF Ends, LeaseEnds, desk
  <2>3. Types' /\ OneIssued' /\ OnlyCreated'
    BY <2>1, <2>2, LeaseParts DEF LeasesInv, Types, OneIssued, OnlyCreated, Exists, corpus
  <2> QED BY <2>2, <2>3 DEF LeasesInv, DueFound
<1>10. ASSUME NEW l \in Lease, LeaseRejects(l) PROVE LeasesInv'
  <2>1. UNCHANGED <<clock, newest, issues, counted, leases>>
    BY <1>10, Zenon DEF LeaseRejects
  <2>2. ProcessEnds \/ UNCHANGED <<snapshot, active, phase, due>>
    BY <1>10, Zenon DEF LeaseRejects
  <2> QED BY <1>0, <2>1, <2>2, QuietKeeps, EndsKeep DEF Exists
<1>11. CASE \/ \E l \in Lease : Acknowledge(l) 
            \/ TimePasses \/ RefreshStarts \/ SourceSettles \/ RefreshEnds
            \/ \E n \in 0..MaxForeign : OtherLeases(n)
            \/ UNCHANGED vars
  <2>1. UNCHANGED <<issues, active, leases, counted, phase, due>>
    BY <1>11, Zenon DEF Acknowledge, TimePasses, RefreshStarts, SourceSettles, RefreshEnds,
                        OtherLeases, vars, desk, lower
  <2>2. clock' \in Nat /\ newest' \in Snapshot /\ snapshot' \in 1..newest'
    <3>1. \/ UNCHANGED <<clock, snapshot, newest>>
          \/ clock' = clock + 1 /\ UNCHANGED <<snapshot, newest>>
          \/ /\ newest < MaxSnapshot /\ newest' = newest + 1 /\ snapshot' = newest + 1
             /\ clock' = clock
      BY <1>11, Zenon DEF Acknowledge, TimePasses, RefreshStarts, SourceSettles, RefreshEnds,
                          OtherLeases, vars, desk, lower, corpus
    <3> QED BY <1>0, <3>1, BoundAssumption DEF Snapshot
  <2> QED BY <1>0, <2>1, <2>2, QuietKeeps DEF Exists
<1>12. CASE Restart
  BY <1>0, <1>12, EndsKeep DEF Restart, Exists
<1> QED BY <1>1, <1>2, <1>3, <1>4, <1>5, <1>6, <1>7, <1>8, <1>9, <1>10, <1>11, <1>12
        DEF Next, TickStep

\* At the start no lease is issued.
THEOREM LeasesInit == Init => LeasesInv
<1> SUFFICES ASSUME Init PROVE LeasesInv
  OBVIOUS
<1>1. Types
  BY BoundAssumption DEF Init, Types, Snapshot, NewIssue, Issue
<1>2. OneIssued /\ OnlyCreated
  BY LeaseParts DEF Init, OneIssued, OnlyCreated
<1>3. DueFound
  BY DEF Init, DueFound
<1> QED BY <1>1, <1>2, <1>3 DEF LeasesInv

\* The invariant of the leases.
THEOREM LeasesHold == Spec => []LeasesInv
BY LeasesInit, LeasesStep, PTL DEF Spec

\* One lease per issue: whatever ticks, requests, saves that fail and restarts do,
\* an issue is never searched twice at once.
THEOREM OneLeaseHolds == Spec => []OneLeasePerIssue
<1>1. LeasesInv => OneLeasePerIssue
  <2> SUFFICES ASSUME LeasesInv, NEW i \in Issues PROVE Cardinality(IssuedOf(i)) <= 1
    BY DEF OneLeasePerIssue
  <2>1. CASE IssuedOf(i) = {}
    BY <2>1, FS_EmptySet
  <2>2. ASSUME NEW l \in IssuedOf(i) PROVE Cardinality(IssuedOf(i)) <= 1
    <3>1. IssuedOf(i) = {l}
      BY DEF LeasesInv, OneIssued, IssuedOf
    <3> QED BY <3>1, FS_Singleton
  <2> QED BY <2>1, <2>2
<1> QED BY <1>1, LeasesHold, PTL
-----------------------------------------------------------------------------
\* The lease an issue recorded last.
LastOf(i) == IF Exists(i) THEN issues[i].last ELSE None

\* What may still be recorded for an issue.
Pending(l) ==
    \/ active[l[1]] = l \/ leases[l] = "ISSUED"
    \/ phase = "RECORD" /\ \E k \in 1..Len(due) : due[k] = l

Total(i) == {l \in Lease : l[1] = i /\ counted[l] = 1}

\* An issue goes through the snapshots forwards: what it counted is no newer than
\* what it recorded last, and that no newer than what is to be recorded.
Forwards(i) ==
    /\ LastOf(i) # None => LastOf(i) \in Lease /\ LastOf(i)[1] = i /\ LastOf(i)[2] <= snapshot
    /\ \A l \in Lease : l[1] = i =>
         /\ counted[l] > 0 => LastOf(i) # None /\ l[2] <= LastOf(i)[2]
         /\ Pending(l) => l[2] <= snapshot /\ (LastOf(i) # None => LastOf(i)[2] <= l[2])

Sums(i) ==
    Exists(i) => /\ issues[i].runs = issues[i].passed + issues[i].failed
                 /\ issues[i].runs = Cardinality(Total(i))

CountInv ==
    /\ LeasesInv
    /\ \A i \in Issues : Forwards(i) /\ Sums(i)
    /\ \A l \in Lease : counted[l] <= 1

\* The counters and the last lease of every issue stay.
KeepsCounts ==
    \A i \in Issues :
        /\ LastOf(i)' = LastOf(i)
        /\ Exists(i)' =>
             IF Exists(i)
             THEN /\ issues'[i].runs = issues[i].runs /\ issues'[i].passed = issues[i].passed
                  /\ issues'[i].failed = issues[i].failed
             ELSE issues'[i].runs = 0 /\ issues'[i].passed = 0 /\ issues'[i].failed = 0

\* The recorded leases of an issue are finitely many.
LEMMA TotalIsFinite == \A i \in Issues : IsFiniteSet(Total(i)) /\ Cardinality(Total(i)) \in Nat
BY LeasesAreFinite, FS_Subset, FS_CardinalityType DEF Total

\* A step that records nothing.
LEMMA CountKeeps ==
  ASSUME CountInv, LeasesInv', UNCHANGED counted, snapshot' >= snapshot, KeepsCounts,
         \A l \in Lease : Pending(l)' => Pending(l) \/ l[2] = snapshot
  PROVE  CountInv'
<1>1. snapshot \in Nat /\ snapshot' \in Nat /\ counted \in [Lease -> Nat]
      /\ \A l \in Lease : l[1] \in Issues /\ l[2] \in Nat
  BY LeaseParts, BoundAssumption DEF CountInv, LeasesInv, Types, Snapshot
<1>2. ASSUME NEW i \in Issues PROVE Forwards(i)'
  <2>1. Forwards(i) /\ LastOf(i)' = LastOf(i)
    BY DEF CountInv, KeepsCounts
  <2> HIDE DEF LastOf, Pending
  <2>2. PICK last : last = LastOf(i)
    OBVIOUS
  <2>3. LastOf(i)' = last
    BY <2>1, <2>2
  <2>4. /\ last # None => last \in Lease /\ last[1] = i /\ last[2] <= snapshot
        /\ \A l \in Lease : l[1] = i =>
             /\ counted[l] > 0 => last # None /\ l[2] <= last[2]
             /\ Pending(l) => l[2] <= snapshot /\ (last # None => last[2] <= l[2])
    BY <2>1, <2>2 DEF Forwards
  <2>5. /\ last # None => last \in Lease /\ last[1] = i /\ last[2] <= snapshot'
        /\ \A l \in Lease : l[1] = i =>
             /\ counted'[l] > 0 => last # None /\ l[2] <= last[2]
             /\ Pending(l)' => l[2] <= snapshot' /\ (last # None => last[2] <= l[2])
    BY <1>1, <2>4
  <2> QED BY <2>3, <2>5 DEF Forwards
<1>3. ASSUME NEW i \in Issues PROVE Sums(i)'
  <2>1. Total(i)' = Total(i)
    BY DEF Total
  <2>2. CASE Exists(i)
    BY <2>1, <2>2 DEF CountInv, Sums, KeepsCounts
  <2>3. CASE ~Exists(i)
    <3>1. \A l \in Lease : l[1] = i => ~(counted[l] > 0)
      BY <2>3 DEF CountInv, Forwards, LastOf
    <3>2. Total(i) = {}
      BY <3>1 DEF Total
    <3> QED BY <2>1, <2>3, <3>2, FS_EmptySet DEF Sums, KeepsCounts
  <2> QED BY <2>2, <2>3
<1> QED BY <1>2, <1>3 DEF CountInv

\* A step that records a lease, the only one that its issue waits for.
LEMMA RecordKeeps ==
  ASSUME CountInv, LeasesInv', snapshot' = snapshot,
         NEW i \in Issues, Exists(i), NEW l \in Lease, l[1] = i,
         Records(i, l), Terminal(l), Pending(l),
         \A m \in Lease : Pending(m)' => Pending(m) /\ (m[1] = i => m = l)
  PROVE  CountInv'
<1>1. /\ snapshot \in Nat /\ counted \in [Lease -> Nat] /\ issues \in [Issues -> Issue \cup {None}]
      /\ \A m \in Lease : m[1] \in Issues /\ m[2] \in Nat /\ m = <<m[1], m[2]>>
  BY LeaseParts, BoundAssumption DEF CountInv, LeasesInv, Types, Snapshot
<1>2. PICK n \in {0, 1} :
        /\ n = IF Counts(i, l) THEN 1 ELSE 0
        /\ issues'[i] \in Issue /\ issues' = [issues EXCEPT ![i] = issues'[i]]
        /\ issues'[i].last = l /\ counted' = [counted EXCEPT ![l] = @ + n]
        /\ issues'[i].runs = issues[i].runs + n
        /\ issues'[i].passed + issues'[i].failed = issues[i].passed + issues[i].failed + n
  BY Zenon DEF Records
<1>3. /\ Exists(i)' /\ LastOf(i)' = l
      /\ \A j \in Issues \ {i} : issues'[j] = issues[j]
  BY <1>1, <1>2, NoneAssumption DEF Exists, LastOf
<1>4. /\ Forwards(i) /\ Sums(i) /\ LastOf(i) = issues[i].last
      /\ \A m \in Lease : m # l => counted'[m] = counted[m]
      /\ counted'[l] = counted[l] + n
  BY <1>1, <1>2 DEF CountInv, LastOf
<1>5. n = 1 => counted[l] = 0
  <2> HIDE DEF Pending, LastOf
  <2>1. n = 1 => LastOf(i) # l
    BY <1>2, <1>4 DEF Counts
  <2> QED BY <1>1, <1>4, <2>1 DEF Forwards
<1>6. \A m \in Lease : counted'[m] <= 1
  BY <1>1, <1>4, <1>5 DEF CountInv
<1>7. ASSUME NEW j \in Issues PROVE Forwards(j)'
  <2>1. CASE j = i
    <3>1. \A m \in Lease : m[1] = i => (counted'[m] > 0 => m[2] <= l[2])
      <4> HIDE DEF Pending, LastOf
      <4> QED BY <1>1, <1>4 DEF Forwards
    <3>2. l[2] <= snapshot
      BY <1>4 DEF Forwards
    <3> HIDE DEF Pending, LastOf
    <3>3. l # None
      BY NoneAssumption
    <3> QED BY <1>1, <1>3, <2>1, <3>1, <3>2, <3>3 DEF Forwards
  <2>2. CASE j # i
    <3>1. LastOf(j)' = LastOf(j)
      BY <1>3, <2>2 DEF LastOf, Exists
    <3>2. \A m \in Lease : m[1] = j => counted'[m] = counted[m]
      BY <1>4, <2>2
    <3>3. Forwards(j)
      BY DEF CountInv
    <3> HIDE DEF Pending, LastOf
    <3> QED BY <3>1, <3>2, <3>3 DEF Forwards
  <2> QED BY <2>1, <2>2
<1>8. ASSUME NEW j \in Issues PROVE Sums(j)'
  <2>1. CASE j = i
    <3>1. /\ issues[i].runs = issues[i].passed + issues[i].failed
          /\ issues[i].runs = Cardinality(Total(i))
      BY <1>4 DEF Sums
    <3>2. Cardinality(Total(i)') = Cardinality(Total(i)) + n
      <4>1. CASE n = 0
        <5>1. Total(i)' = Total(i)
          BY <1>1, <1>4, <4>1 DEF Total
        <5> QED BY <4>1, <5>1, TotalIsFinite
      <4>2. CASE n = 1
        <5>1. Total(i)' = Total(i) \cup {l} /\ l \notin Total(i)
          BY <1>4, <1>5, <4>2 DEF Total
        <5>2. IsFiniteSet(Total(i))
          BY TotalIsFinite
        <5> HIDE DEF Total
        <5> QED BY <4>2, <5>1, <5>2, FS_AddElement
      <4> QED BY <4>1, <4>2
    <3>3. issues[i] \in Issue
      BY <1>1 DEF Exists
    <3> QED BY <1>2, <2>1, <3>1, <3>2, <3>3 DEF Sums, Issue
  <2>2. CASE j # i
    <3>1. Total(j)' = Total(j)
      BY <1>4, <2>2 DEF Total
    <3> QED BY <1>3, <2>2, <3>1 DEF CountInv, Sums, Exists
  <2> QED BY <2>1, <2>2
<1> QED BY <1>6, <1>7, <1>8 DEF CountInv
\* Only a dispatch makes a lease pending, and that one is of the current snapshot.
LEMMA LaunchPends ==
  ASSUME LeasesInv, NEW i \in Issues, Launch(LeaseFor(i)),
         UNCHANGED active \/ active' = [active EXCEPT ![i] = LeaseFor(i)],
         phase # "RECORD", phase' # "RECORD",
         NEW l \in Lease, Pending(l)'
  PROVE  Pending(l) \/ l[2] = snapshot
<1> DEFINE k == LeaseFor(i)
<1>1. k \in Lease /\ k[1] = i /\ (leases[k] = "ISSUED" \/ k[2] = snapshot)
  BY LeaseForFacts
<1>2. leases' = leases \/ leases' = [leases EXCEPT ![k] = "ISSUED"]
  BY DEF Launch
<1>3. UNCHANGED active \/ active' = [active EXCEPT ![i] = k]
  OBVIOUS
<1> HIDE DEF k
<1>4. active'[l[1]] = l \/ leases'[l] = "ISSUED"
  BY DEF Pending
<1>5. l[1] = i => l = k \/ active[i] = l \/ leases[l] = "ISSUED"
  BY <1>1, <1>2, <1>3, <1>4 DEF LeasesInv, Types
<1>6. l[1] # i => active[l[1]] = l \/ leases[l] = "ISSUED"
  BY <1>1, <1>2, <1>3, <1>4, LeaseParts DEF LeasesInv, Types
<1> QED BY <1>1, <1>5, <1>6 DEF Pending

\* Every step keeps the counters equal to the leases that were recorded, while the
\* corpus does not return to an earlier identity.
THEOREM CountStep ==
  ASSUME CorpusReturns = FALSE PROVE CountInv /\ [Next]_vars => CountInv'
<1> SUFFICES ASSUME CountInv, [Next]_vars PROVE CountInv'
  OBVIOUS
<1>0. LeasesInv /\ Types /\ LeasesInv' /\ issues \in [Issues -> Issue \cup {None}]
      /\ snapshot \in Nat /\ clock \in Nat
  BY LeasesStep, BoundAssumption DEF CountInv, LeasesInv, Types, Snapshot
<1>1. ASSUME UNCHANGED issues PROVE KeepsCounts
  BY <1>1 DEF KeepsCounts, LastOf, Exists
<1>2. ProcessEnds =>
        snapshot' = snapshot /\ \A l \in Lease : active'[l[1]] = None /\ phase' = "IDLE"
  BY LeaseParts DEF ProcessEnds
<1>3. ASSUME NEW expired \in SUBSET Orphans, Tick(expired) PROVE CountInv'
  <2>1. /\ leases' = [l \in Lease |-> IF l \in expired THEN "EXPIRED" ELSE leases[l]]
        /\ due' = SetToSeq(expired)
        /\ UNCHANGED <<corpus, issues, active, counted>>
    BY <1>3, Zenon DEF Tick, desk
  <2>2. expired \subseteq Lease /\ \A l \in expired : leases[l] = "ISSUED"
    BY DEF Orphans
  <2>3. due' \in Seq(expired)
    BY <2>1, <2>2, LeasesAreFinite, FS_Subset, SetToSeqFacts
  <2>4. ASSUME NEW l \in Lease, Pending(l)' PROVE Pending(l)
    BY <2>1, <2>2, <2>3, <2>4 DEF Pending
  <2> QED BY <1>0, <1>1, <2>1, <2>4, CountKeeps DEF corpus
<1>4. CASE RecordExpired
  <2>1. phase = "RECORD" /\ due # <<>> /\ UNCHANGED <<corpus, active, leases>>
    BY <1>4, Zenon DEF RecordExpired, lower
  <2>2. /\ due \in Seq(Lease) /\ DueLease(due[1])
        /\ \A k \in 1..Len(due) : due[k][1] = due[1][1] => due[k] = due[1]
    BY <2>1 DEF LeasesInv, CountInv, DueFound
  <2> DEFINE l == Head(due)
  <2>3. /\ l \in Lease /\ l[1] \in Issues /\ Exists(l[1]) /\ Terminal(l) /\ Pending(l)
    BY <2>1, <2>2, LeaseParts DEF DueLease, Terminal, Pending
  <2>4. \/ Complete(l[1], l, clock) /\ phase' = phase /\ due' = Tail(due)
        \/ CompleteFails(l[1], l) /\ phase' = "IDLE"
    BY <1>4, Zenon DEF RecordExpired
  <2>5. ASSUME NEW m \in Lease, Pending(m)' PROVE Pending(m) /\ (m[1] = l[1] => m = l)
    <3>1. due' = Tail(due) \/ phase' = "IDLE"
      BY <2>4
    <3>2. ASSUME due' = Tail(due), NEW k \in 1..Len(due')
          PROVE  k + 1 \in 1..Len(due) /\ due'[k] = due[k + 1]
      BY <2>1, <2>2, <3>2
    <3>3. active[m[1]] = m \/ leases[m] = "ISSUED" \/ \E k \in 1..Len(due) : due[k] = m
      BY <2>1, <2>5, <3>1, <3>2 DEF Pending
    <3>4. m[1] = l[1] => m = l
      BY <2>2, <3>3, NoneAssumption DEF DueLease
    <3> QED BY <2>1, <3>3, <3>4 DEF Pending
  <2> HIDE DEF l
  <2>6. Records(l[1], l) \/ UNCHANGED <<issues, counted>>
    BY <1>0, <2>3, <2>4, CompletesRecords
  <2>7. CASE UNCHANGED <<issues, counted>>
    BY <1>0, <1>1, <2>1, <2>5, <2>7, CountKeeps DEF corpus
  <2>8. CASE Records(l[1], l)
    BY <1>0, <2>1, <2>3, <2>5, <2>8, RecordKeeps DEF corpus
  <2> QED BY <2>6, <2>7, <2>8
<1>5. CASE Select
  <2>1. UNCHANGED <<corpus, issues, active, leases, counted>> /\ phase' # "RECORD"
    BY <1>5, Zenon DEF Select, desk, lower
  <2>2. \A l \in Lease : Pending(l)' => Pending(l)
    BY <2>1 DEF Pending
  <2> QED BY <1>0, <1>1, <2>1, <2>2, CountKeeps DEF corpus
<1>6. ASSUME NEW i \in Issues, NEW who \in {"OPERATOR", "SCHEDULE"}, Exists(i),
             Dispatch(i, who) \/ DispatchFails(i), UNCHANGED corpus,
             phase # "RECORD", phase' # "RECORD"
      PROVE  CountInv'
  <2>1. /\ Launch(LeaseFor(i)) /\ UNCHANGED counted
        /\ UNCHANGED active \/ active' = [active EXCEPT ![i] = LeaseFor(i)]
        /\ issues' = issues \/ issues' = [issues EXCEPT ![i].next = Later(clock + Cadence)]
    BY <1>6, Zenon DEF Dispatch, DispatchFails, desk
  <2>2. KeepsCounts
    <3>1. issues[i] \in Issue
      BY <1>0, <1>6 DEF Exists
    <3> DEFINE new == [issues[i] EXCEPT !.next = Later(clock + Cadence)]
    <3>2. /\ new.last = issues[i].last /\ new.runs = issues[i].runs
          /\ new.passed = issues[i].passed /\ new.failed = issues[i].failed
      BY <3>1 DEF Issue
    <3>3. issues' = issues \/ issues' = [issues EXCEPT ![i] = new]
      BY <2>1
    <3> HIDE DEF new
    <3>4. \A j \in Issues : Exists(j)' => Exists(j)
      BY <1>0, <1>6, <3>3 DEF Exists
    <3>5. Exists(i)'
      <4>1. Later(clock + Cadence) \in Nat
        BY <1>0, BoundAssumption, LaterIsNat
      <4>2. new \in Issue
        <5> HIDE DEF Later
        <5> QED BY <3>1, <4>1 DEF Issue, new
      <4> QED BY <1>0, <1>6, <3>3, <4>2, NoneAssumption DEF Exists
    <3> QED BY <1>0, <3>2, <3>3, <3>4, <3>5 DEF KeepsCounts, LastOf, Exists
  <2>3. \A l \in Lease : Pending(l)' => Pending(l) \/ l[2] = snapshot
    BY <1>0, <1>6, <2>1, LaunchPends
  <2> QED BY <1>0, <1>6, <2>1, <2>2, <2>3, CountKeeps DEF corpus
<1>7. CASE DispatchNext
  <2>1. /\ phase = "DISPATCH" /\ UNCHANGED corpus /\ phase' \in {"IDLE", "DISPATCH"}
    BY <1>7, Zenon DEF DispatchNext
  <2>2. Head(due) \in Issues /\ Exists(Head(due))
    BY <2>1 DEF CountInv, LeasesInv, DueFound
  <2>3. \/ Dispatch(Head(due), "SCHEDULE") \/ DispatchFails(Head(due))
        \/ UNCHANGED <<desk, lower>>
    BY <1>7, Zenon DEF DispatchNext
  <2>4. CASE UNCHANGED <<desk, lower>>
    <3>1. UNCHANGED <<issues, active, leases, counted>>
      BY <2>4, Zenon DEF desk, lower
    <3>2. \A l \in Lease : Pending(l)' => Pending(l)
      BY <2>1, <3>1 DEF Pending
    <3> QED BY <1>0, <1>1, <2>1, <3>1, <3>2, CountKeeps DEF corpus
  <2>5. CASE ~UNCHANGED <<desk, lower>>
    BY <1>6, <2>1, <2>2, <2>3, <2>5
  <2> QED BY <2>4, <2>5
<1>8. ASSUME NEW i \in Issues, RunNow(i) PROVE CountInv'
  <2>1. /\ Exists(i) /\ phase = "IDLE" /\ phase' = "IDLE" /\ UNCHANGED corpus
        /\ Dispatch(i, "OPERATOR") \/ DispatchFails(i)
    BY <1>8, Zenon DEF RunNow
  <2> QED BY <1>6, <2>1
<1>9. ASSUME NEW i \in Issues, Create(i) PROVE CountInv'
  <2>1. /\ issues' = [issues EXCEPT ![i] = [NewIssue EXCEPT !.next = clock]] /\ ~Exists(i)
        /\ UNCHANGED <<corpus, active, leases, counted, phase, due>>
    BY <1>9, Zenon DEF Create, lower
  <2>2. KeepsCounts
    <3> DEFINE new == [NewIssue EXCEPT !.next = clock]
    <3>1. new.last = None /\ new.runs = 0 /\ new.passed = 0 /\ new.failed = 0
      BY DEF NewIssue
    <3>2. issues' = [issues EXCEPT ![i] = new]
      BY <2>1
    <3> HIDE DEF new
    <3> QED BY <1>0, <2>1, <3>1, <3>2 DEF KeepsCounts, LastOf, Exists
  <2>3. \A l \in Lease : Pending(l)' => Pending(l)
    BY <2>1 DEF Pending
  <2> QED BY <1>0, <2>1, <2>2, <2>3, CountKeeps DEF corpus
<1>10. ASSUME NEW i \in Issues, NEW enabled \in BOOLEAN, SetEnabled(i, enabled) PROVE CountInv'
  <2> DEFINE new == [[issues[i] EXCEPT !.enabled = enabled]
                     EXCEPT !.next = IF enabled THEN clock ELSE issues[i].next]
  <2>1. /\ Exists(i) /\ UNCHANGED <<corpus, active, leases, counted, phase, due>>
        /\ issues' = [issues EXCEPT ![i].enabled = enabled,
                                    ![i].next = IF enabled THEN clock ELSE @]
    BY <1>10, Zenon DEF SetEnabled, lower
  <2>2. issues' = [issues EXCEPT ![i] = new]
    BY <2>1
  <2>3. issues[i] \in Issue
    BY <1>0, <2>1 DEF Exists
  <2>4. /\ new.last = issues[i].last /\ new.runs = issues[i].runs
        /\ new.passed = issues[i].passed /\ new.failed = issues[i].failed
    BY <2>3 DEF Issue
  <2> HIDE DEF new
  <2>5. \A j \in Issues : Exists(j)' => Exists(j)
    BY <1>0, <2>1, <2>2 DEF Exists
  <2>6. Exists(i)'
    <3> DEFINE next == IF enabled THEN clock ELSE issues[i].next
    <3>1. next \in Nat
      BY <1>0, <2>3 DEF Issue
    <3>2. new = [[issues[i] EXCEPT !.enabled = enabled] EXCEPT !.next = next]
      BY DEF new
    <3> HIDE DEF next
    <3>3. new \in Issue
      BY <2>3, <3>1, <3>2 DEF Issue
    <3> QED BY <1>0, <2>2, <3>3, NoneAssumption DEF Exists
  <2>7. KeepsCounts
    BY <1>0, <2>2, <2>4, <2>5, <2>6 DEF KeepsCounts, LastOf, Exists
  <2>8. \A l \in Lease : Pending(l)' => Pending(l)
    BY <2>1 DEF Pending
  <2> QED BY <1>0, <2>1, <2>7, <2>8, CountKeeps DEF corpus
<1>11. ASSUME NEW i \in Issues, Settle(i) PROVE CountInv'
  <2> DEFINE l == active[i]
  <2>1. l # None /\ Terminal(l) /\ phase = "IDLE" /\ UNCHANGED leases
    BY <1>11, Zenon DEF Settle
  <2>2. l \in Lease /\ l = active[i] /\ l[1] = i /\ Exists(i)
    BY <1>0, <2>1 DEF Types, LeasesInv, OnlyCreated
  <2>3. Complete(i, l, issues[i].next) \/ CompleteFails(i, l)
    BY <1>11, Zenon DEF Settle
  <2>4. \/ active' = [active EXCEPT ![i] = None] /\ UNCHANGED <<snapshot, phase>>
        \/ ProcessEnds
    BY <1>11, Zenon DEF Settle, Release
  <2>5. issues[i].next \in Nat
    BY <1>0, <2>2 DEF Exists, Issue
  <2> HIDE DEF l
  <2>6. snapshot' = snapshot /\ phase' = "IDLE"
    BY <1>2, <2>1, <2>2, <2>4
  <2>7. \A j \in Issues : active'[j] \in {active[j], None}
    BY <1>0, <2>4 DEF Types, ProcessEnds
  <2>8. Pending(l)
    BY <2>2 DEF Pending
  <2>9. ASSUME NEW m \in Lease, Pending(m)' PROVE Pending(m) /\ (m[1] = i => m = l)
    <3>1. (active[m[1]] = m \/ leases[m] = "ISSUED")
      BY <2>1, <2>6, <2>7, <2>9, LeaseParts, NoneAssumption DEF Pending
    <3> QED BY <1>0, <2>1, <2>2, <3>1 DEF Pending, LeasesInv, OneIssued
  <2>10. Records(i, l) \/ UNCHANGED <<issues, counted>>
    BY <1>0, <2>2, <2>3, <2>5, CompletesRecords
  <2>11. CASE UNCHANGED <<issues, counted>>
    BY <1>0, <1>1, <2>6, <2>9, <2>11, CountKeeps
  <2>12. CASE Records(i, l)
    BY <1>0, <2>1, <2>2, <2>6, <2>8, <2>9, <2>12, RecordKeeps
  <2> QED BY <2>10, <2>11, <2>12
<1>12. ASSUME NEW l \in Lease, Ends(l) PROVE CountInv'
  <2>1. PICK status \in {"PASS", "FAILED"} : leases' = [leases EXCEPT ![l] = status]
    BY <1>12, Zenon DEF Ends, LeaseEnds
  <2>2. UNCHANGED <<corpus, issues, active, counted, phase, due>>
    BY <1>12, Zenon DEF Ends, LeaseEnds, desk
  <2>3. \A m \in Lease : Pending(m)' => Pending(m)
    BY <1>0, <2>1, <2>2 DEF Pending, Types
  <2> QED BY <1>0, <1>1, <2>2, <2>3, CountKeeps DEF corpus
<1>13. CASE Restart \/ \E l \in Lease : LeaseRejects(l)
  <2>1. UNCHANGED <<issues, counted, leases>>
    BY <1>13, Zenon DEF LeaseRejects, Restart
  <2>2. ProcessEnds \/ UNCHANGED <<snapshot, active, phase, due>>
    BY <1>13, Zenon DEF LeaseRejects, Restart
  <2>3. snapshot' = snapshot
    BY <1>2, <2>2
  <2>4. \A m \in Lease : Pending(m)' => Pending(m)
    BY <1>2, <2>1, <2>2, NoneAssumption DEF Pending
  <2> QED BY <1>0, <1>1, <2>1, <2>3, <2>4, CountKeeps
<1>14. CASE \/ \E l \in Lease : Acknowledge(l)
            \/ TimePasses \/ RefreshStarts \/ SourceSettles \/ RefreshEnds
            \/ \E n \in 0..MaxForeign : OtherLeases(n)
            \/ UNCHANGED vars
  <2>1. UNCHANGED <<issues, active, leases, counted, phase, due>>
    BY <1>14, Zenon DEF Acknowledge, TimePasses, RefreshStarts, SourceSettles, RefreshEnds,
                        OtherLeases, vars, desk, lower
  <2>2. snapshot' = snapshot \/ snapshot' = newest + 1
    BY <1>14, Zenon DEF Acknowledge, TimePasses, RefreshStarts, SourceSettles, RefreshEnds,
                        OtherLeases, vars, corpus
  <2>3. snapshot' >= snapshot
    BY <1>0, <2>2, BoundAssumption DEF Types, Snapshot
  <2>4. \A l \in Lease : Pending(l)' => Pending(l)
    BY <2>1 DEF Pending
  <2> QED BY <1>0, <1>1, <2>1, <2>3, <2>4, CountKeeps
<1> QED BY <1>3, <1>4, <1>5, <1>7, <1>8, <1>9, <1>10, <1>11, <1>12, <1>13, <1>14
        DEF Next, TickStep

\* At the start nothing is counted.
THEOREM CountInit == Init => CountInv
<1> SUFFICES ASSUME Init PROVE CountInv
  OBVIOUS
<1>1. LeasesInv /\ \A i \in Issues : LastOf(i) = None
  BY LeasesInit DEF Init, LastOf, NewIssue, Exists
<1>2. \A l \in Lease : counted[l] = 0 /\ ~Pending(l)
  BY LeaseParts, NoneAssumption DEF Init, Pending
<1>3. ASSUME NEW i \in Issues PROVE Forwards(i) /\ Sums(i)
  <2>1. Total(i) = {}
    BY <1>2 DEF Total
  <2>2. Sums(i)
    BY <2>1, FS_EmptySet DEF Init, Sums, NewIssue, Exists
  <2> HIDE DEF LastOf, Pending
  <2>3. Forwards(i)
    BY <1>1, <1>2 DEF Forwards
  <2> QED BY <2>2, <2>3
<1> QED BY <1>1, <1>2, <1>3 DEF CountInv

\* A lease is counted once, also when it is answered again after a failed save or a
\* restart, while the corpus does not return to an earlier identity.
THEOREM CountHolds ==
  ASSUME CorpusReturns = FALSE PROVE Spec => []CountedOnce
<1>1. CountInv => CountedOnce
  BY DEF CountInv, CountedOnce, Sums, Total
<1>2. CountInv /\ [Next]_vars => CountInv'
  BY CountStep, Zenon
<1> QED BY <1>1, <1>2, CountInit, PTL DEF Spec
-----------------------------------------------------------------------------
\* The sets that the limits bound are finite.
LimitsInv ==
    /\ Types
    /\ running \subseteq Lease /\ foreign \in Nat
    /\ LimitsAreKept

\* One more member.
LEMMA OneMore ==
  ASSUME NEW S, NEW T, NEW x, IsFiniteSet(S), T \subseteq S \cup {x}
  PROVE  /\ IsFiniteSet(T) /\ Cardinality(S) \in Nat /\ Cardinality(T) \in Nat
         /\ Cardinality(T) <= Cardinality(S) + 1
<1>1. /\ IsFiniteSet(S \cup {x}) /\ Cardinality(S) \in Nat
      /\ Cardinality(S \cup {x}) = Cardinality(S) \/ Cardinality(S \cup {x}) = Cardinality(S) + 1
  BY FS_AddElement, FS_CardinalityType
<1>2. IsFiniteSet(T) /\ Cardinality(T) <= Cardinality(S \cup {x})
  BY <1>1, FS_Subset
<1>3. Cardinality(T) \in Nat /\ Cardinality(S \cup {x}) \in Nat
  BY <1>1, <1>2, FS_CardinalityType
<1> QED BY <1>1, <1>2, <1>3

\* A part of a finite set is no larger.
LEMMA Fewer ==
  ASSUME NEW S, NEW T, IsFiniteSet(S), T \subseteq S
  PROVE  /\ IsFiniteSet(T) /\ Cardinality(S) \in Nat /\ Cardinality(T) \in Nat
         /\ Cardinality(T) <= Cardinality(S)
BY FS_Subset, FS_CardinalityType

\* Finitely many searches run.
LEMMA RunningIsFinite ==
  ASSUME LimitsInv
  PROVE  /\ IsFiniteSet(running) /\ Cardinality(running) \in Nat
         /\ IsFiniteSet(Active) /\ Cardinality(Active) \in Nat
         /\ \A i \in Issues : IsFiniteSet(InFamily(i)) /\ Cardinality(InFamily(i)) \in Nat
BY LeasesAreFinite, IssueAssumption, Fewer DEF LimitsInv, Active, InFamily

\* Fewer issues are active.
LEMMA FewerActive ==
  ASSUME LimitsInv, Active' \subseteq Active
  PROVE  /\ Cardinality(Active)' <= ConcurrencyLimit
         /\ \A i \in Active' : Cardinality(InFamily(i)') <= FamilyLimit
<1>1. Cardinality(Active') <= Cardinality(Active) /\ Cardinality(Active') \in Nat
      /\ Cardinality(Active) \in Nat
  BY RunningIsFinite, Fewer
<1>2. Cardinality(Active') <= ConcurrencyLimit
  BY <1>1, LimitAssumption DEF LimitsInv, LimitsAreKept
<1>3. ASSUME NEW i \in Active' PROVE Cardinality(InFamily(i)') <= FamilyLimit
  <2>1. i \in Active /\ InFamily(i)' \subseteq InFamily(i) /\ IsFiniteSet(InFamily(i))
    BY RunningIsFinite DEF InFamily, Active
  <2>2. Cardinality(InFamily(i)) <= FamilyLimit
    BY <2>1 DEF LimitsInv, LimitsAreKept
  <2> QED BY <2>1, <2>2, Fewer, LimitAssumption
<1> QED BY <1>2, <1>3

\* Fewer slots are taken.
LEMMA FewerRunning ==
  ASSUME LimitsInv, running' \subseteq running, foreign' \in Nat, foreign' <= foreign
  PROVE  running' \subseteq Lease /\ Cardinality(running)' + foreign' <= LeaseLimit
<1>1. Cardinality(running') <= Cardinality(running) /\ Cardinality(running') \in Nat
      /\ Cardinality(running) \in Nat
  BY RunningIsFinite, Fewer
<1> QED BY <1>1, LeaseLimitAssumption DEF LimitsInv, LimitsAreKept

\* An issue finds a place, and its lease a slot.
LEMMA DispatchFits ==
  ASSUME LimitsInv, NEW i \in Issues, MayDispatch(i), ~IsBusy(i), Launch(LeaseFor(i)),
         LeaseFor(i) \in Lease,
         UNCHANGED active \/ active' = [active EXCEPT ![i] = LeaseFor(i)]
  PROVE  running' \subseteq Lease /\ LimitsAreKept'
<1> DEFINE k == LeaseFor(i)
<1>0. active \in [Issues -> Lease \cup {None}] /\ running \subseteq Lease
  BY DEF LimitsInv, Types
<1>1. /\ Cardinality(Active) < ConcurrencyLimit
      /\ Cardinality(InFamily(i)) < FamilyLimit /\ active[i] = None
  BY DEF MayDispatch
<1>2. UNCHANGED <<running, foreign>> \/ (running' = running \cup {k} /\ UNCHANGED foreign
                                         /\ (k \in running \/ SlotFree))
  BY DEF Launch, IsBusy
<1> HIDE DEF k
<1>3. k \in Lease
  BY DEF k
<1>4. running' \subseteq Lease /\ Cardinality(running') + foreign' <= LeaseLimit
  <2>1. CASE \/ UNCHANGED <<running, foreign>>
             \/ k \in running /\ running' = running /\ UNCHANGED foreign
    BY <1>0, <2>1 DEF LimitsInv, LimitsAreKept
  <2>2. CASE running' = running \cup {k} /\ UNCHANGED foreign /\ SlotFree
    <3>1. /\ Cardinality(running') <= Cardinality(running) + 1
          /\ Cardinality(running') \in Nat /\ Cardinality(running) \in Nat
      BY <2>2, RunningIsFinite, OneMore
    <3> QED BY <1>0, <1>3, <2>2, <3>1, LeaseLimitAssumption DEF LimitsInv, SlotFree
  <2> QED BY <1>2, <2>1, <2>2
<1>5. /\ Active' \subseteq Active \cup {i}
      /\ \A j \in Issues : InFamily(j)' \subseteq InFamily(j) \cup {i}
  BY <1>0 DEF Active, InFamily, k
<1>6. Cardinality(Active') <= ConcurrencyLimit
  <2>1. /\ Cardinality(Active') <= Cardinality(Active) + 1
        /\ Cardinality(Active') \in Nat /\ Cardinality(Active) \in Nat
    BY <1>5, RunningIsFinite, OneMore
  <2> QED BY <1>1, <2>1, LimitAssumption
<1>7. ASSUME NEW j \in Active' PROVE Cardinality(InFamily(j)') <= FamilyLimit
  <2>0. j \in Issues
    BY DEF Active
  <2>1. CASE Family[j] = Family[i]
    <3>1. InFamily(j)' \subseteq InFamily(i) \cup {i}
      BY <1>5, <2>0, <2>1 DEF InFamily
    <3>2. /\ Cardinality(InFamily(j)') <= Cardinality(InFamily(i)) + 1
          /\ Cardinality(InFamily(j)') \in Nat /\ Cardinality(InFamily(i)) \in Nat
      BY <3>1, RunningIsFinite, OneMore
    <3> QED BY <1>1, <3>2, LimitAssumption
  <2>2. CASE Family[j] # Family[i]
    <3>1. j \in Active /\ InFamily(j)' \subseteq InFamily(j)
      BY <1>5, <1>7, <2>0, <2>2 DEF InFamily, Active
    <3>2. Cardinality(InFamily(j)) <= FamilyLimit
      BY <3>1 DEF LimitsInv, LimitsAreKept
    <3> QED BY <2>0, <3>1, <3>2, RunningIsFinite, Fewer, LimitAssumption
  <2> QED BY <2>1, <2>2
<1> QED BY <1>4, <1>6, <1>7 DEF LimitsAreKept

\* Every step keeps the limits of #canReserve: a dispatch checks each issue
\* again after the issues it launched before.
THEOREM LimitsStep == LeasesInv /\ LimitsInv /\ [Next]_vars => LimitsInv'
<1> SUFFICES ASSUME LeasesInv, LimitsInv, [Next]_vars PROVE LimitsInv'
  OBVIOUS
<1>0. /\ Types' /\ active \in [Issues -> Lease \cup {None}]
      /\ running \subseteq Lease /\ foreign \in Nat
  BY LeasesStep DEF LeasesInv, LimitsInv, Types
<1>1. ASSUME NEW i \in Issues, NEW who \in {"OPERATOR", "SCHEDULE"},
             Dispatch(i, who) \/ DispatchFails(i)
      PROVE  LimitsInv'
  <2>1. /\ MayDispatch(i) /\ ~IsBusy(i) /\ Launch(LeaseFor(i)) /\ UNCHANGED foreign
        /\ UNCHANGED active \/ active' = [active EXCEPT ![i] = LeaseFor(i)]
    BY <1>1, Zenon DEF Dispatch, DispatchFails, desk, Launch
  <2>2. LeaseFor(i) \in Lease
    BY LeaseForFacts
  <2> QED BY <1>0, <2>1, <2>2, DispatchFits DEF LimitsInv
<1>2. ASSUME active' \in [Issues -> Lease \cup {None}],
             \A i \in Issues : active'[i] \in {active[i], None},
             running' \subseteq running, foreign' \in Nat, foreign' <= foreign
      PROVE  LimitsInv'
  <2>1. Active' \subseteq Active
    BY <1>2 DEF Active
  <2> QED BY <1>0, <1>2, <2>1, FewerActive, FewerRunning DEF LimitsInv, LimitsAreKept
<1>3. ASSUME UNCHANGED <<active, running, foreign>> PROVE LimitsInv'
  BY <1>0, <1>2, <1>3
<1>4. ASSUME ProcessEnds PROVE LimitsInv'
  <2>1. active' = [i \in Issues |-> None] /\ running' = {} /\ foreign' = 0
    BY <1>4, Zenon DEF ProcessEnds
  <2> QED BY <1>0, <1>2, <2>1
<1>5. ASSUME NEW i \in Issues, Release(i), UNCHANGED <<running, foreign>> PROVE LimitsInv'
  BY <1>0, <1>2, <1>5 DEF Release
<1>6. CASE DispatchNext
  <2>1. phase = "DISPATCH"
    BY <1>6, Zenon DEF DispatchNext
  <2>2. Head(due) \in Issues
    BY <2>1 DEF LeasesInv, DueFound
  <2>3. \/ Dispatch(Head(due), "SCHEDULE") \/ DispatchFails(Head(due))
        \/ UNCHANGED <<active, running, foreign>>
    BY <1>6, Zenon DEF DispatchNext, desk, lower
  <2> QED BY <1>1, <1>3, <2>2, <2>3
<1>7. ASSUME NEW i \in Issues, RunNow(i) PROVE LimitsInv'
  <2>1. Dispatch(i, "OPERATOR") \/ DispatchFails(i)
    BY <1>7, Zenon DEF RunNow
  <2> QED BY <1>1, <2>1
<1>8. ASSUME NEW i \in Issues, Settle(i) PROVE LimitsInv'
  <2>1. ProcessEnds \/ (Release(i) /\ UNCHANGED <<running, foreign>>)
    BY <1>8, Zenon DEF Settle
  <2> QED BY <1>4, <1>5, <2>1
<1>9. ASSUME NEW l \in Lease, Ends(l) \/ LeaseRejects(l) PROVE LimitsInv'
  <2>1. ProcessEnds \/ (running' = running \ {l} /\ UNCHANGED <<active, foreign>>)
    BY <1>9, Zenon DEF Ends, LeaseEnds, LeaseRejects, desk
  <2> QED BY <1>0, <1>2, <1>4, <2>1
<1>10. ASSUME NEW n \in 0..MaxForeign, OtherLeases(n) PROVE LimitsInv'
  <2>1. /\ UNCHANGED <<active, running>> /\ foreign' = n
        /\ n < foreign \/ (n = foreign + 1 /\ SlotFree)
    BY <1>10, Zenon DEF OtherLeases, desk
  <2>2. n \in Nat
    BY BoundAssumption
  <2>3. CASE n < foreign
    BY <1>0, <1>2, <2>1, <2>2, <2>3
  <2>4. CASE n = foreign + 1 /\ SlotFree
    <3>1. Cardinality(running) + foreign' <= LeaseLimit
      BY <1>0, <2>1, <2>4, RunningIsFinite, LeaseLimitAssumption DEF SlotFree
    <3>2. Active' = Active /\ \A i \in Issues : InFamily(i)' = InFamily(i)
      BY <2>1 DEF Active, InFamily
    <3>3. LimitsAreKept'
      BY <2>1, <3>1, <3>2 DEF LimitsInv, LimitsAreKept, Active
    <3> QED BY <1>0, <2>1, <2>2, <3>3 DEF LimitsInv
  <2> QED BY <2>1, <2>3, <2>4
<1>11. CASE \/ \E expired \in SUBSET Orphans : Tick(expired)
            \/ RecordExpired \/ Select
            \/ \E i \in Issues : Create(i) \/ \E enabled \in BOOLEAN : SetEnabled(i, enabled)
            \/ \E l \in Lease : Acknowledge(l)
            \/ TimePasses \/ RefreshStarts \/ SourceSettles \/ RefreshEnds
            \/ UNCHANGED vars
  <2>1. UNCHANGED <<active, running, foreign>>
    BY <1>11, Zenon DEF Tick, RecordExpired, Select, Create, SetEnabled, Acknowledge, TimePasses,
                        RefreshStarts, SourceSettles, RefreshEnds, vars, desk, lower
  <2> QED BY <1>3, <2>1
<1>12. CASE Restart
  BY <1>4, <1>12, Zenon DEF Restart
<1> QED BY <1>6, <1>7, <1>8, <1>9, <1>10, <1>11, <1>12 DEF Next, TickStep

\* #canReserve: the limits of the scheduler, of a family and of the shared leases
\* are kept in every order of dispatches, requests and completions.
THEOREM LimitsHold == Spec => []LimitsAreKept
<1>1. Init => LimitsInv
  <2> SUFFICES ASSUME Init PROVE LimitsInv
    OBVIOUS
  <2>1. Types
    BY LeasesInit DEF LeasesInv
  <2>2. Active = {} /\ running = {} /\ foreign = 0
    BY DEF Init, Active
  <2> QED BY <2>1, <2>2, FS_EmptySet, LimitAssumption, LeaseLimitAssumption
          DEF LimitsInv, LimitsAreKept
<1>2. LimitsInv => LimitsAreKept
  BY DEF LimitsInv
<1> QED BY <1>1, <1>2, LeasesHold, LimitsStep, PTL DEF Spec

-----------------------------------------------------------------------------
(* The outbox.  A request that is under way. *)
InFlight(m) == IF outboxPhase = "ANSWER" /\ Head(outboxDue).message = m THEN 1 ELSE 0

Hook(m) == deliveries[m]["WEBHOOK_JSON"]

\* Requests of the deliveries of a message before the current one, of that one,
\* and those of which nothing is known.
WithinBudget(m, attempts) ==
    /\ enqueued[m] > 0
    /\ posts[m] <= 3 * (enqueued[m] - 1) + attempts + unrecorded[m] + InFlight(m)

\* A delivery is attempted until it was attempted often enough.
AttemptsLeft(delivery) ==
    /\ delivery.attempts \in 0..3 /\ delivery.next \in Nat
    /\ delivery.status \in {"PENDING", "RETRY_WAIT"} => delivery.attempts < 3

OutboxTypes ==
    /\ posts \in [Outbox!Message -> Nat] /\ enqueued \in [Outbox!Message -> Nat]
    /\ unrecorded \in [Outbox!Message -> Nat]
    /\ outboxClock \in Nat /\ occurredAt \in [Outbox!Message -> Nat]
    /\ deliveries = [m \in Outbox!Message |-> [c \in Outbox!Channel |-> deliveries[m][c]]]
    /\ outboxPhase \in {"IDLE", "COLLECT", "DELIVER", "ANSWER", "DOWN"}

\* What a tick read of the deliveries, each of another message.
Entry == [message : Outbox!Message, attempts : 0..2]

ReadForDelivery ==
    outboxPhase \in {"DELIVER", "ANSWER"} =>
      /\ outboxDue \in Seq(Entry) /\ outboxDue # <<>>
      /\ \A j, k \in 1..Len(outboxDue) :
            j # k => outboxDue[j].message # outboxDue[k].message
      /\ \A k \in 1..Len(outboxDue) : WithinBudget(outboxDue[k].message, outboxDue[k].attempts)

OutboxInv ==
    /\ OutboxTypes
    /\ ReadForDelivery
    /\ \A m \in Outbox!Message :
         /\ posts[m] <= 3 * enqueued[m] + unrecorded[m] + InFlight(m)
         /\ Hook(m) # NoDelivery => AttemptsLeft(Hook(m)) /\ WithinBudget(m, Hook(m).attempts)

\* The trim of the outbox keeps or deletes a delivery.
LEMMA TrimmedKeeps ==
  ASSUME NEW d, NEW m \in Outbox!Message, NEW c \in Outbox!Channel
  PROVE  Outbox!Trimmed(d)[m][c] \in {d[m][c], NoDelivery}
BY DEF Outbox!Trimmed

\* The trim of the outbox leaves a table of deliveries.
LEMMA TrimmedShape ==
  ASSUME NEW d
  PROVE  Outbox!Trimmed(d) =
           [m \in Outbox!Message |-> [c \in Outbox!Channel |-> Outbox!Trimmed(d)[m][c]]]
BY DEF Outbox!Trimmed

\* A save changes one delivery.
LEMMA WithShape ==
  ASSUME OutboxTypes, NEW m \in Outbox!Message, NEW c \in Outbox!Channel, NEW delivery
  PROVE  \A n \in Outbox!Message : \A e \in Outbox!Channel :
           Outbox!With(m, c, delivery)[n][e] = IF n = m /\ e = c THEN delivery ELSE deliveries[n][e]
BY DEF Outbox!With, OutboxTypes

\* Deliveries are at most deleted, and the requests stay.
LEMMA ForgettingKeeps ==
  ASSUME OutboxInv, OutboxTypes', UNCHANGED <<posts, enqueued, unrecorded>>,
         \A m \in Outbox!Message : Hook(m)' \in {Hook(m), NoDelivery},
         \/ UNCHANGED <<outboxPhase, outboxDue>>
         \/ outboxPhase # "ANSWER" /\ outboxPhase' \notin {"DELIVER", "ANSWER"}
  PROVE  OutboxInv'
<1>1. ASSUME NEW m \in Outbox!Message PROVE InFlight(m)' = InFlight(m)
  BY DEF InFlight
<1>2. ASSUME NEW m \in Outbox!Message, NEW a PROVE WithinBudget(m, a)' = WithinBudget(m, a)
  BY <1>1 DEF WithinBudget
<1>3. ReadForDelivery'
  <2>1. CASE outboxPhase' \notin {"DELIVER", "ANSWER"}
    BY <2>1 DEF ReadForDelivery
  <2>2. CASE outboxPhase' \in {"DELIVER", "ANSWER"}
    <3>1. UNCHANGED <<outboxPhase, outboxDue>>
      BY <2>2
    <3>2. PICK q : q = outboxDue
      OBVIOUS
    <3>3. q = outboxDue'
      BY <3>1, <3>2
    <3>4. /\ q \in Seq(Entry) /\ q # <<>>
          /\ \A j, k \in 1..Len(q) : j # k => q[j].message # q[k].message
          /\ \A k \in 1..Len(q) : WithinBudget(q[k].message, q[k].attempts)
      BY <2>2, <3>1, <3>2 DEF OutboxInv, ReadForDelivery
    <3>5. ASSUME NEW k \in 1..Len(q) PROVE WithinBudget(q[k].message, q[k].attempts)'
      <4>0. q \in Seq(Entry) /\ WithinBudget(q[k].message, q[k].attempts)
        BY <3>4
      <4>1. q[k].message \in Outbox!Message
        <5>1. q[k] \in Entry
          BY <4>0
        <5> QED BY <5>1 DEF Entry
      <4>2. PICK m, a : m = q[k].message /\ a = q[k].attempts
        OBVIOUS
      <4>3. WithinBudget(m, a)
        BY <4>0, <4>2
      <4> QED BY <1>2, <4>1, <4>2, <4>3
    <3> QED BY <3>3, <3>4, <3>5 DEF ReadForDelivery
  <2> QED BY <2>1, <2>2
<1>4. ASSUME NEW m \in Outbox!Message
      PROVE  /\ posts'[m] <= 3 * enqueued'[m] + unrecorded'[m] + InFlight(m)'
             /\ Hook(m)' # NoDelivery =>
                  AttemptsLeft(Hook(m))' /\ WithinBudget(m, Hook(m).attempts)'
  <2>1. Hook(m)' # NoDelivery => Hook(m)' = Hook(m)
    OBVIOUS
  <2>2. /\ posts[m] <= 3 * enqueued[m] + unrecorded[m] + InFlight(m)
        /\ Hook(m) # NoDelivery => AttemptsLeft(Hook(m)) /\ WithinBudget(m, Hook(m).attempts)
    BY DEF OutboxInv
  <2>3. InFlight(m)' = InFlight(m)
    BY <1>1
  <2> HIDE DEF Hook
  <2> QED BY <2>1, <2>2, <2>3 DEF WithinBudget, AttemptsLeft
<1> QED BY <1>3, <1>4 DEF OutboxInv

\* One delivery of the webhook is saved; no request is under way afterwards.
Spends(m, delivery, e) ==
    /\ UNCHANGED <<posts, unrecorded>>
    /\ enqueued' = [enqueued EXCEPT ![m] = @ + e] /\ enqueued[m] + e > 0
    /\ posts[m] <= 3 * (enqueued[m] + e - 1) + delivery.attempts + unrecorded[m]

Moves(m, e) ==
    /\ outboxPhase # "ANSWER" \/ Head(outboxDue).message = m
    /\ \/ outboxPhase' \notin {"DELIVER", "ANSWER"}
       \/ /\ outboxPhase = "ANSWER" /\ outboxPhase' = "DELIVER"
          /\ Tail(outboxDue) # <<>> /\ outboxDue' = Tail(outboxDue) /\ e = 0

Saves(m, delivery) ==
    /\ Hook(m)' \in {delivery, NoDelivery}
    /\ \A n \in Outbox!Message \ {m} : Hook(n)' \in {Hook(n), NoDelivery}

\* A save after a request keeps the budget of the message.
LEMMA SavingKeeps ==
  ASSUME OutboxInv, OutboxTypes', NEW m \in Outbox!Message, NEW delivery, NEW e \in Nat,
         AttemptsLeft(delivery), Spends(m, delivery, e), Moves(m, e), Saves(m, delivery)
  PROVE  OutboxInv'
<1>0. /\ posts \in [Outbox!Message -> Nat] /\ enqueued \in [Outbox!Message -> Nat]
      /\ unrecorded \in [Outbox!Message -> Nat]
  BY DEF OutboxInv, OutboxTypes
<1>1. \A n \in Outbox!Message : InFlight(n)' = 0 /\ (n # m => InFlight(n) = 0)
  BY DEF InFlight, Moves
<1>2. ASSUME NEW n \in Outbox!Message \ {m}, NEW a PROVE WithinBudget(n, a)' = WithinBudget(n, a)
  BY <1>0, <1>1 DEF WithinBudget, Spends
<1>3. ReadForDelivery'
  <2>1. CASE outboxPhase' \notin {"DELIVER", "ANSWER"}
    BY <2>1 DEF ReadForDelivery
  <2>2. CASE outboxPhase' \in {"DELIVER", "ANSWER"}
    <3>1. /\ outboxPhase = "ANSWER" /\ outboxPhase' = "DELIVER"
          /\ Tail(outboxDue) # <<>> /\ outboxDue' = Tail(outboxDue)
          /\ Head(outboxDue).message = m
      BY <2>2 DEF Moves
    <3>2. PICK q : q = outboxDue
      OBVIOUS
    <3>3. PICK t : t = Tail(q)
      OBVIOUS
    <3>4. /\ q \in Seq(Entry) /\ q # <<>>
          /\ \A j, k \in 1..Len(q) : j # k => q[j].message # q[k].message
          /\ \A k \in 1..Len(q) : WithinBudget(q[k].message, q[k].attempts)
      BY <3>1, <3>2 DEF OutboxInv, ReadForDelivery
    <3>5. /\ t \in Seq(Entry)
          /\ \A k \in 1..Len(t) : k + 1 \in 1..Len(q) /\ t[k] = q[k + 1]
          /\ 1 \in 1..Len(q)
      BY <3>3, <3>4
    <3>6. \A k \in 1..Len(t) : t[k].message \in Outbox!Message \ {m}
      <4>1. q[1].message = m
        BY <3>1, <3>2, <3>4
      <4>2. ASSUME NEW k \in 1..Len(t) PROVE t[k].message \in Outbox!Message \ {m}
        <5>1. k + 1 \in 1..Len(q) /\ k + 1 # 1 /\ t[k] = q[k + 1]
          BY <3>5
        <5>2. q[k + 1].message # q[1].message
          BY <3>4, <3>5, <5>1
        <5>3. q \in Seq(Entry)
          BY <3>4
        <5>4. q[k + 1] \in Entry
          BY <5>1, <5>3
        <5>5. q[k + 1].message \in Outbox!Message
          BY <5>4 DEF Entry
        <5> QED BY <4>1, <5>1, <5>2, <5>5
      <4> QED BY <4>2
    <3>7. \A k \in 1..Len(t) : WithinBudget(t[k].message, t[k].attempts)'
      BY <1>2, <3>4, <3>5, <3>6
    <3>8. \A j, k \in 1..Len(t) : j # k => t[j].message # t[k].message
      BY <3>4, <3>5
    <3>9. outboxDue' = t /\ t # <<>>
      BY <3>1, <3>2, <3>3
    <3> QED BY <3>5, <3>7, <3>8, <3>9 DEF ReadForDelivery
  <2> QED BY <2>1, <2>2
<1>4. ASSUME NEW n \in Outbox!Message
      PROVE  /\ posts'[n] <= 3 * enqueued'[n] + unrecorded'[n] + InFlight(n)'
             /\ Hook(n)' # NoDelivery =>
                  AttemptsLeft(Hook(n))' /\ WithinBudget(n, Hook(n).attempts)'
  <2>1. CASE n # m
    <3>1. Hook(n)' # NoDelivery => Hook(n)' = Hook(n)
      BY <2>1 DEF Saves
    <3>2. /\ posts[n] <= 3 * enqueued[n] + unrecorded[n] + InFlight(n)
          /\ Hook(n) # NoDelivery => AttemptsLeft(Hook(n)) /\ WithinBudget(n, Hook(n).attempts)
      BY DEF OutboxInv
    <3> HIDE DEF Hook
    <3>3. /\ posts'[n] = posts[n] /\ enqueued'[n] = enqueued[n] /\ unrecorded'[n] = unrecorded[n]
          /\ InFlight(n)' = InFlight(n)
      BY <1>0, <1>1, <2>1 DEF Spends
    <3> QED BY <3>1, <3>2, <3>3 DEF WithinBudget, AttemptsLeft
  <2>2. CASE n = m
    <3>1. enqueued'[m] = enqueued[m] + e /\ InFlight(m)' = 0
      BY <1>0, <1>1 DEF Spends
    <3>2. delivery.attempts \in 0..3
      BY DEF AttemptsLeft
    <3>3. posts'[m] <= 3 * enqueued'[m] + unrecorded'[m] + InFlight(m)'
      <4>1. /\ posts[m] \in Nat /\ enqueued[m] \in Nat /\ unrecorded[m] \in Nat
            /\ posts'[m] = posts[m] /\ unrecorded'[m] = unrecorded[m]
            /\ posts[m] <= 3 * (enqueued[m] + e - 1) + delivery.attempts + unrecorded[m]
        BY <1>0 DEF Spends
      <4>2. posts[m] <= 3 * (enqueued[m] + e) + unrecorded[m] + 0
        BY <3>2, <4>1
      <4> QED BY <3>1, <4>1, <4>2
    <3>4. ASSUME Hook(m)' # NoDelivery
          PROVE  AttemptsLeft(Hook(m))' /\ WithinBudget(m, Hook(m).attempts)'
      <4>1. Hook(m)' = delivery
        BY <3>4 DEF Saves
      <4> HIDE DEF Hook
      <4>2. /\ posts[m] \in Nat /\ enqueued[m] \in Nat /\ unrecorded[m] \in Nat
            /\ posts'[m] = posts[m] /\ unrecorded'[m] = unrecorded[m]
        BY <1>0 DEF Spends
      <4>3. WithinBudget(m, delivery.attempts)'
        <5>1. enqueued[m] + e > 0
              /\ posts[m] <= 3 * (enqueued[m] + e - 1) + delivery.attempts + unrecorded[m] + 0
          BY <3>2, <4>2 DEF Spends
        <5> QED BY <3>1, <4>2, <5>1 DEF WithinBudget
      <4> QED BY <4>1, <4>3 DEF AttemptsLeft
    <3> QED BY <2>2, <3>3, <3>4
  <2> QED BY <2>1, <2>2
<1> QED BY <1>3, <1>4 DEF OutboxInv
\* The tick or the process ends; a request that is under way is not recorded.
LosesRequest ==
    /\ UNCHANGED <<posts, enqueued>>
    /\ outboxPhase' \notin {"DELIVER", "ANSWER"}
    /\ \A m \in Outbox!Message : unrecorded'[m] = unrecorded[m] + InFlight(m)
    /\ \A m \in Outbox!Message : Hook(m)' \in {Hook(m), NoDelivery}

\* A request of which nothing is recorded keeps the budget of the message.
LEMMA LosingKeeps == ASSUME OutboxInv, OutboxTypes', LosesRequest PROVE OutboxInv'
<1>1. ReadForDelivery'
  BY DEF LosesRequest, ReadForDelivery
<1>2. ASSUME NEW m \in Outbox!Message
      PROVE  /\ posts'[m] <= 3 * enqueued'[m] + unrecorded'[m] + InFlight(m)'
             /\ Hook(m)' # NoDelivery =>
                  AttemptsLeft(Hook(m))' /\ WithinBudget(m, Hook(m).attempts)'
  <2>1. /\ posts'[m] = posts[m] /\ enqueued'[m] = enqueued[m] /\ InFlight(m)' = 0
        /\ unrecorded'[m] = unrecorded[m] + InFlight(m)
        /\ Hook(m)' # NoDelivery => Hook(m)' = Hook(m)
    BY DEF LosesRequest, InFlight
  <2>2. /\ posts[m] <= 3 * enqueued[m] + unrecorded[m] + InFlight(m)
        /\ Hook(m) # NoDelivery => AttemptsLeft(Hook(m)) /\ WithinBudget(m, Hook(m).attempts)
    BY DEF OutboxInv
  <2>3. InFlight(m) \in {0, 1} /\ posts[m] \in Nat /\ enqueued[m] \in Nat /\ unrecorded[m] \in Nat
    BY DEF InFlight, OutboxInv, OutboxTypes
  <2> HIDE DEF Hook
  <2>4. posts'[m] <= 3 * enqueued'[m] + unrecorded'[m] + InFlight(m)'
    BY <2>1, <2>2, <2>3
  <2>5. ASSUME Hook(m)' # NoDelivery
        PROVE  AttemptsLeft(Hook(m))' /\ WithinBudget(m, Hook(m).attempts)'
    <3>1. PICK h : h = Hook(m)
      OBVIOUS
    <3>2. Hook(m)' = h /\ AttemptsLeft(h) /\ WithinBudget(m, h.attempts)
      BY <2>1, <2>2, <2>5, <3>1
    <3>3. WithinBudget(m, h.attempts)'
      BY <2>1, <2>3, <3>2 DEF WithinBudget, AttemptsLeft
    <3> QED BY <3>2, <3>3 DEF AttemptsLeft
  <2> QED BY <2>4, <2>5
<1> QED BY <1>1, <1>2 DEF OutboxInv

\* What the saves of a delivery do to the deliveries of the webhook.
LEMMA SavingShape ==
  ASSUME OutboxTypes, NEW m \in Outbox!Message, NEW c \in Outbox!Channel, NEW delivery,
         deliveries' = Outbox!Trimmed(Outbox!With(m, c, delivery))
  PROVE  /\ deliveries' = [n \in Outbox!Message |-> [e \in Outbox!Channel |-> deliveries'[n][e]]]
         /\ c = "IN_APP" => \A n \in Outbox!Message : Hook(n)' \in {Hook(n), NoDelivery}
         /\ c = "WEBHOOK_JSON" => Saves(m, delivery)
<1>1. \A n \in Outbox!Message : \A e \in Outbox!Channel :
        deliveries'[n][e] \in {IF n = m /\ e = c THEN delivery ELSE deliveries[n][e], NoDelivery}
  BY TrimmedKeeps, WithShape
<1>2. deliveries' = [n \in Outbox!Message |-> [e \in Outbox!Channel |-> deliveries'[n][e]]]
  BY TrimmedShape
<1>3. "WEBHOOK_JSON" \in Outbox!Channel
  BY DEF Outbox!Channel
<1> QED BY <1>1, <1>2, <1>3 DEF Hook, Saves

\* A tick reads the deliveries that are due.
LEMMA DrainKeeps == ASSUME OutboxInv, Outbox!Drain PROVE OutboxInv'
<1>1. /\ outboxPhase = "COLLECT" /\ outboxPhase' \in {"IDLE", "DELIVER"}
      /\ outboxPhase' = "DELIVER" => outboxDue' # <<>>
      /\ UNCHANGED <<deliveries, posts, enqueued, unrecorded, outboxClock, occurredAt>>
  BY Zenon DEF Outbox!Drain, Outbox!tables, Outbox!history
<1>2. PICK s \in Outbox!Queue : Outbox!DueInOrder(s) /\ outboxDue' = s
  BY Zenon DEF Outbox!Drain
<1>3. \A m \in Outbox!Message : InFlight(m) = 0 /\ InFlight(m)' = 0
  BY <1>1 DEF InFlight
<1>4. ASSUME NEW m \in Outbox!Message, NEW a PROVE WithinBudget(m, a)' = WithinBudget(m, a)
  BY <1>1, <1>3 DEF WithinBudget
<1>5. OutboxTypes'
  BY <1>1 DEF OutboxInv, OutboxTypes
<1>6. PICK n \in Nat : s \in [1..n -> [message : Outbox!Message, attempts : 0..Outbox!MaxAttempts]]
  <2>1. PerTick \in Nat
    BY OutboxAssumption DEF Outbox!PerTickAssumption
  <2> QED BY <2>1 DEF Outbox!Queue
<1>7. DOMAIN s = 1..n /\ Len(s) = n
  BY <1>6
<1>8. ASSUME NEW k \in 1..n
      PROVE  /\ s[k] \in Entry
             /\ WithinBudget(s[k].message, s[k].attempts)
  <2>1. s[k] \in [message : Outbox!Message, attempts : 0..Outbox!MaxAttempts]
    BY <1>6
  <2>2. Outbox!IsDue(s[k].message) /\ s[k].attempts = Outbox!Webhook(s[k].message).attempts
    BY <1>2, <1>7 DEF Outbox!DueInOrder
  <2>3. s[k].message \in Outbox!Message /\ DOMAIN s[k] = {"message", "attempts"}
        /\ s[k] = [message |-> s[k].message, attempts |-> s[k].attempts]
    BY <2>1
  <2>4. PICK m \in Outbox!Message : m = s[k].message
    BY <2>3
  <2>5. Outbox!IsDue(m) /\ s[k].attempts = Hook(m).attempts
    BY <2>2, <2>4 DEF Outbox!Webhook, Hook
  <2>6. Hook(m) # NoDelivery /\ Hook(m).status \in {"PENDING", "RETRY_WAIT"}
    BY <2>5 DEF Outbox!IsDue, Outbox!Exists, Hook
  <2>7. AttemptsLeft(Hook(m)) /\ WithinBudget(m, Hook(m).attempts)
    BY <2>6 DEF OutboxInv
  <2>8. s[k].attempts \in 0..2
    BY <2>5, <2>6, <2>7 DEF AttemptsLeft
  <2> QED BY <2>3, <2>4, <2>5, <2>7, <2>8 DEF Entry
<1>9. ASSUME NEW j \in 1..n, NEW k \in 1..n, j # k PROVE s[j].message # s[k].message
  <2>0. \A x, y \in 1..n : x < y => Outbox!DueBefore(s[x].message, s[y].message)
    BY <1>2, <1>7 DEF Outbox!DueInOrder
  <2>1. \A x, y \in 1..n : x < y => s[x].message # s[y].message
    <3> SUFFICES ASSUME NEW x \in 1..n, NEW y \in 1..n, x < y, s[x].message = s[y].message
                 PROVE  FALSE
      OBVIOUS
    <3>1. PICK m : m = s[x].message
      OBVIOUS
    <3>2. Outbox!DueBefore(m, m)
      BY <2>0, <3>1
    <3>3. m \in Outbox!Message /\ Hook(m) # NoDelivery
      <4>1. s[x] \in [message : Outbox!Message, attempts : 0..Outbox!MaxAttempts]
        BY <1>6
      <4>2. Outbox!IsDue(m)
        BY <1>2, <1>7, <3>1 DEF Outbox!DueInOrder
      <4> QED BY <3>1, <4>1, <4>2 DEF Outbox!IsDue, Outbox!Exists, Hook
    <3>4. Hook(m).next \in Nat
      BY <3>3 DEF OutboxInv, AttemptsLeft
    <3>5. PICK t \in Nat : t = Outbox!Webhook(m).next
      BY <3>4 DEF Outbox!Webhook, Hook
    <3>6. t < t \/ m < m
      BY <3>2, <3>5 DEF Outbox!DueBefore
    <3>7. m \in Nat
      BY <3>3 DEF Outbox!Message
    <3> QED BY <3>5, <3>6, <3>7
  <2> QED BY <1>9, <2>1
<1>10. ReadForDelivery'
  <2>1. s \in Seq(Entry)
    BY <1>6, <1>7, <1>8
  <2>2. \A k \in 1..n : WithinBudget(s[k].message, s[k].attempts)'
    <3> SUFFICES ASSUME NEW k \in 1..n PROVE WithinBudget(s[k].message, s[k].attempts)'
      OBVIOUS
    <3>1. s[k].message \in Outbox!Message
      BY <1>8 DEF Entry
    <3> QED BY <1>4, <1>8, <3>1
  <2> QED BY <1>1, <1>2, <1>7, <1>9, <2>1, <2>2 DEF ReadForDelivery
<1>11. ASSUME NEW m \in Outbox!Message
      PROVE  /\ posts'[m] <= 3 * enqueued'[m] + unrecorded'[m] + InFlight(m)'
             /\ Hook(m)' # NoDelivery =>
                  AttemptsLeft(Hook(m))' /\ WithinBudget(m, Hook(m).attempts)'
  <2>1. /\ posts[m] <= 3 * enqueued[m] + unrecorded[m] + InFlight(m)
        /\ Hook(m) # NoDelivery => AttemptsLeft(Hook(m)) /\ WithinBudget(m, Hook(m).attempts)
    BY DEF OutboxInv
  <2>2. Hook(m)' = Hook(m)
    BY <1>1 DEF Hook
  <2> QED BY <1>1, <1>3, <2>1, <2>2 DEF WithinBudget, AttemptsLeft
<1> QED BY <1>5, <1>10, <1>11 DEF OutboxInv

\* A request is sent.
LEMMA PostKeeps == ASSUME OutboxInv, Outbox!Post PROVE OutboxInv'
<1> DEFINE m == Head(outboxDue).message
<1>1. /\ outboxPhase = "DELIVER"
      /\ UNCHANGED <<deliveries, enqueued, unrecorded, outboxClock, occurredAt>>
      /\ \/ /\ outboxPhase' = "ANSWER" /\ posts' = [posts EXCEPT ![m] = @ + 1]
            /\ UNCHANGED outboxDue
         \/ outboxPhase' = "IDLE" /\ UNCHANGED posts
  BY Zenon DEF Outbox!Post, Outbox!tables
<1>2. /\ outboxDue \in Seq(Entry) /\ outboxDue # <<>>
      /\ \A j, k \in 1..Len(outboxDue) :
            j # k => outboxDue[j].message # outboxDue[k].message
      /\ \A k \in 1..Len(outboxDue) : WithinBudget(outboxDue[k].message, outboxDue[k].attempts)
  BY <1>1 DEF OutboxInv, ReadForDelivery
<1>3. m \in Outbox!Message
  <2>1. Head(outboxDue) \in Entry
    BY <1>2
  <2> QED BY <2>1 DEF Entry
<1>4. CASE outboxPhase' = "IDLE" /\ UNCHANGED posts
  <2>1. OutboxTypes'
    BY <1>1, <1>4 DEF OutboxInv, OutboxTypes
  <2>2. \A n \in Outbox!Message : Hook(n)' = Hook(n)
    BY <1>1 DEF Hook
  <2> QED BY <1>1, <1>4, <2>1, <2>2, ForgettingKeeps
<1>5. CASE /\ outboxPhase' = "ANSWER" /\ posts' = [posts EXCEPT ![m] = @ + 1]
           /\ UNCHANGED outboxDue
  <2>1. OutboxTypes'
    BY <1>1, <1>3, <1>5 DEF OutboxInv, OutboxTypes
  <2>2. ASSUME NEW n \in Outbox!Message
        PROVE  posts'[n] = posts[n] + InFlight(n)' /\ InFlight(n) = 0 /\ InFlight(n)' \in {0, 1}
    BY <1>1, <1>3, <1>5 DEF InFlight, OutboxInv, OutboxTypes
  <2>3. ASSUME NEW n \in Outbox!Message, NEW a \in Nat
        PROVE  WithinBudget(n, a) => WithinBudget(n, a)'
    <3>1. posts[n] \in Nat /\ enqueued[n] \in Nat /\ unrecorded[n] \in Nat
      BY DEF OutboxInv, OutboxTypes
    <3>2. enqueued'[n] = enqueued[n] /\ unrecorded'[n] = unrecorded[n]
      BY <1>1
    <3> QED BY <2>2, <3>1, <3>2 DEF WithinBudget
  <2>4. ReadForDelivery'
    <3>1. PICK q : q = outboxDue
      OBVIOUS
    <3>2. /\ q \in Seq(Entry) /\ q # <<>>
          /\ \A j, k \in 1..Len(q) : j # k => q[j].message # q[k].message
          /\ \A k \in 1..Len(q) : WithinBudget(q[k].message, q[k].attempts)
      BY <1>2, <3>1
    <3>3. ASSUME NEW k \in 1..Len(q) PROVE WithinBudget(q[k].message, q[k].attempts)'
      <4>1. q[k] \in Entry
        BY <3>2
      <4>2. q[k].message \in Outbox!Message /\ q[k].attempts \in Nat
        BY <4>1 DEF Entry
      <4> QED BY <2>3, <3>2, <4>2
    <3>4. q = outboxDue'
      BY <1>5, <3>1
    <3> QED BY <3>2, <3>3, <3>4 DEF ReadForDelivery
  <2>5. ASSUME NEW n \in Outbox!Message
        PROVE  /\ posts'[n] <= 3 * enqueued'[n] + unrecorded'[n] + InFlight(n)'
               /\ Hook(n)' # NoDelivery =>
                    AttemptsLeft(Hook(n))' /\ WithinBudget(n, Hook(n).attempts)'
    <3>1. PICK h : h = Hook(n)
      OBVIOUS
    <3>2. Hook(n)' = h
      BY <1>1, <3>1 DEF Hook
    <3>3. /\ posts[n] <= 3 * enqueued[n] + unrecorded[n] + InFlight(n)
          /\ h # NoDelivery => AttemptsLeft(h) /\ WithinBudget(n, h.attempts)
      BY <3>1 DEF OutboxInv
    <3>4. posts[n] \in Nat /\ enqueued[n] \in Nat /\ unrecorded[n] \in Nat
      BY DEF OutboxInv, OutboxTypes
    <3>5. enqueued'[n] = enqueued[n] /\ unrecorded'[n] = unrecorded[n]
      BY <1>1
    <3>6. h # NoDelivery => h.attempts \in Nat
      BY <3>3 DEF AttemptsLeft
    <3>7. posts'[n] <= 3 * enqueued'[n] + unrecorded'[n] + InFlight(n)'
      BY <2>2, <3>3, <3>4, <3>5
    <3>8. h # NoDelivery => AttemptsLeft(h)' /\ WithinBudget(n, h.attempts)'
      BY <2>3, <3>3, <3>6 DEF AttemptsLeft
    <3> QED BY <3>2, <3>7, <3>8 DEF AttemptsLeft
  <2> QED BY <2>1, <2>4, <2>5 DEF OutboxInv
<1> QED BY <1>1, <1>4, <1>5

\* A request is answered, and the answer is saved or not.
LEMMA AnswerKeeps ==
  ASSUME OutboxInv, NEW accepted \in BOOLEAN, Outbox!Answer(accepted) PROVE OutboxInv'
<1> DEFINE m == Head(outboxDue).message
           a == Head(outboxDue).attempts + 1
           done == deliveries' = Outbox!Trimmed(Outbox!With(m, "WEBHOOK_JSON", Outbox!Succeeded(a)))
           failed == deliveries' = Outbox!Trimmed(Outbox!With(m, "WEBHOOK_JSON", Outbox!Failed(a)))
<1>1. /\ outboxPhase = "ANSWER" /\ UNCHANGED <<posts, enqueued, outboxClock, occurredAt>>
      /\ \/ (done \/ failed) /\ Outbox!NextDelivery /\ UNCHANGED unrecorded
         \/ /\ unrecorded' = [unrecorded EXCEPT ![m] = @ + 1]
            /\ outboxPhase' = "IDLE" /\ UNCHANGED deliveries
  BY Zenon DEF Outbox!Answer, Outbox!tables, Outbox!SaveDelivery, Outbox!RecordFailure
<1>2. /\ outboxDue \in Seq(Entry) /\ outboxDue # <<>>
      /\ WithinBudget(outboxDue[1].message, outboxDue[1].attempts)
  BY <1>1 DEF OutboxInv, ReadForDelivery
<1>3. Head(outboxDue) \in Entry /\ Head(outboxDue) = outboxDue[1]
  BY <1>2
<1>4. m \in Outbox!Message /\ a \in 1..3 /\ WithinBudget(m, a - 1) /\ InFlight(m) = 1
  <2>1. m \in Outbox!Message /\ Head(outboxDue).attempts \in 0..2
    BY <1>3 DEF Entry
  <2>2. a \in 1..3 /\ a - 1 = Head(outboxDue).attempts
    BY <2>1
  <2> QED BY <1>1, <1>2, <1>3, <2>1, <2>2 DEF InFlight
<1> HIDE DEF a, m
<1>5. posts[m] \in Nat /\ enqueued[m] \in Nat /\ unrecorded[m] \in Nat
  BY <1>4 DEF OutboxInv, OutboxTypes
<1>6. CASE (done \/ failed) /\ Outbox!NextDelivery /\ UNCHANGED unrecorded
  <2>1. PICK delivery \in {Outbox!Succeeded(a), Outbox!Failed(a)} :
          deliveries' = Outbox!Trimmed(Outbox!With(m, "WEBHOOK_JSON", delivery))
    BY <1>6
  <2>2. delivery.attempts = a /\ AttemptsLeft(delivery)
    <3>1. outboxClock \in Nat /\ OutboxMaxClock \in Nat /\ RetryDelay \in [1..3 -> Nat]
      BY OutboxAssumption DEF OutboxInv, OutboxTypes, Outbox!ClockAssumption,
                              Outbox!RetryAssumption, Outbox!MaxAttempts
    <3>2. a < 3 => Outbox!Later(RetryDelay[a]) \in Nat
      BY <1>4, <3>1 DEF Outbox!Later
    <3> QED BY <1>4, <3>1, <3>2 DEF Outbox!Succeeded, Outbox!Failed, AttemptsLeft,
                                    Outbox!MaxAttempts
  <2>3. /\ deliveries' = [n \in Outbox!Message |-> [e \in Outbox!Channel |-> deliveries'[n][e]]]
        /\ Saves(m, delivery)
    BY <1>4, <2>1, SavingShape DEF OutboxInv, Outbox!Channel
  <2>4. outboxPhase' \in {"IDLE", "DELIVER"} /\ Moves(m, 0)
    BY <1>1, <1>6, Zenon DEF Outbox!NextDelivery, Moves, m
  <2>5. Spends(m, delivery, 0)
    <3>1. enqueued[m] + 0 > 0
          /\ posts[m] <= 3 * (enqueued[m] + 0 - 1) + delivery.attempts + unrecorded[m]
      BY <1>4, <1>5, <2>2 DEF WithinBudget
    <3>2. enqueued' = [enqueued EXCEPT ![m] = @ + 0]
      BY <1>1, <1>4 DEF OutboxInv, OutboxTypes
    <3> QED BY <1>1, <1>6, <3>1, <3>2 DEF Spends
  <2>6. OutboxTypes'
    BY <1>1, <1>6, <2>3, <2>4 DEF OutboxInv, OutboxTypes
  <2> QED BY <1>4, <2>2, <2>3, <2>4, <2>5, <2>6, SavingKeeps
<1>7. CASE /\ unrecorded' = [unrecorded EXCEPT ![m] = @ + 1]
           /\ outboxPhase' = "IDLE" /\ UNCHANGED deliveries
  <2>1. OutboxTypes'
    BY <1>1, <1>4, <1>7 DEF OutboxInv, OutboxTypes
  <2>2. \A n \in Outbox!Message : unrecorded'[n] = unrecorded[n] + InFlight(n)
    BY <1>1, <1>4, <1>7 DEF InFlight, OutboxInv, OutboxTypes, m
  <2>3. LosesRequest
    BY <1>1, <1>7, <2>2 DEF LosesRequest, Hook
  <2> QED BY <2>1, <2>3, LosingKeeps
<1> QED BY <1>1, <1>6, <1>7

\* A message is put in the outbox.
LEMMA EnqueueKeeps ==
  ASSUME OutboxInv, NEW m \in Outbox!Message, Outbox!EnqueueWebhook(m) PROVE OutboxInv'
<1> DEFINE delivery == Outbox!WebhookDelivery(m)
<1>1. /\ outboxPhase = "COLLECT" /\ UNCHANGED <<posts, unrecorded, outboxClock, occurredAt>>
      /\ \/ /\ deliveries' = Outbox!Trimmed(Outbox!With(m, "WEBHOOK_JSON", delivery))
            /\ enqueued' = [enqueued EXCEPT ![m] = @ + 1]
            /\ UNCHANGED outboxPhase
         \/ outboxPhase' = "IDLE" /\ UNCHANGED <<deliveries, enqueued>>
  BY Zenon DEF Outbox!EnqueueWebhook, Outbox!tables, Outbox!SaveDelivery
<1>2. CASE outboxPhase' = "IDLE" /\ UNCHANGED <<deliveries, enqueued>>
  <2>1. OutboxTypes' /\ \A n \in Outbox!Message : Hook(n)' = Hook(n)
    BY <1>1, <1>2 DEF OutboxInv, OutboxTypes, Hook
  <2> QED BY <1>1, <1>2, <2>1, ForgettingKeeps
<1>3. CASE /\ deliveries' = Outbox!Trimmed(Outbox!With(m, "WEBHOOK_JSON", delivery))
           /\ enqueued' = [enqueued EXCEPT ![m] = @ + 1]
           /\ UNCHANGED outboxPhase
  <2>1. delivery.attempts = 0 /\ AttemptsLeft(delivery)
    BY DEF OutboxInv, OutboxTypes, Outbox!WebhookDelivery, AttemptsLeft
  <2> HIDE DEF delivery
  <2>2. /\ deliveries' = [n \in Outbox!Message |-> [e \in Outbox!Channel |-> deliveries'[n][e]]]
        /\ Saves(m, delivery)
    BY <1>3, SavingShape DEF OutboxInv, Outbox!Channel
  <2>3. Spends(m, delivery, 1)
    <3>1. posts[m] \in Nat /\ enqueued[m] \in Nat /\ unrecorded[m] \in Nat
      BY DEF OutboxInv, OutboxTypes
    <3>2. posts[m] <= 3 * enqueued[m] + unrecorded[m] + 0
      BY <1>1 DEF OutboxInv, InFlight
    <3> QED BY <1>1, <1>3, <2>1, <3>1, <3>2 DEF Spends
  <2>4. Moves(m, 1)
    BY <1>1, <1>3 DEF Moves
  <2>5. OutboxTypes'
    BY <1>1, <1>3, <2>2 DEF OutboxInv, OutboxTypes
  <2> QED BY <2>1, <2>2, <2>3, <2>4, <2>5, SavingKeeps
<1> QED BY <1>1, <1>2, <1>3

\* The process restarts in the middle of a tick.
LEMMA RestartKeeps == ASSUME OutboxInv, Outbox!Restart PROVE OutboxInv'
<1>1. /\ UNCHANGED <<outboxClock, occurredAt, posts, enqueued>>
      /\ deliveries' = Outbox!Trimmed(Outbox!WithInApp)
      /\ outboxPhase' \in {"IDLE", "DOWN"}
      /\ outboxPhase # "ANSWER" => UNCHANGED unrecorded
      /\ outboxPhase = "ANSWER" =>
           unrecorded' = [unrecorded EXCEPT ![Head(outboxDue).message] = @ + 1]
  BY Zenon DEF Outbox!Restart
<1>2. /\ deliveries' = [n \in Outbox!Message |-> [e \in Outbox!Channel |-> deliveries'[n][e]]]
      /\ \A n \in Outbox!Message : Hook(n)' \in {Outbox!WithInApp[n]["WEBHOOK_JSON"], NoDelivery}
  BY <1>1, TrimmedShape, TrimmedKeeps DEF Hook, Outbox!Channel
<1>3. \A n \in Outbox!Message : Hook(n)' \in {Hook(n), NoDelivery}
  BY <1>2 DEF Outbox!WithInApp, Hook, Outbox!Channel
<1>4. outboxPhase = "ANSWER" => Head(outboxDue).message \in Outbox!Message
  <2> SUFFICES ASSUME outboxPhase = "ANSWER" PROVE Head(outboxDue).message \in Outbox!Message
    OBVIOUS
  <2>1. Head(outboxDue) \in Entry
    <3>1. outboxDue \in Seq(Entry) /\ outboxDue # <<>>
      BY DEF OutboxInv, ReadForDelivery
    <3> QED BY <3>1
  <2> QED BY <2>1 DEF Entry
<1>5. \A n \in Outbox!Message : unrecorded'[n] = unrecorded[n] + InFlight(n)
  BY <1>1, <1>4 DEF InFlight, OutboxInv, OutboxTypes
<1>6. OutboxTypes'
  BY <1>1, <1>2, <1>4 DEF OutboxInv, OutboxTypes
<1>7. LosesRequest
  BY <1>1, <1>3, <1>5 DEF LosesRequest
<1> QED BY <1>6, <1>7, LosingKeeps

\* Every step of the outbox keeps the budget of every message.
THEOREM OutboxStep == OutboxInv /\ [Outbox!Next]_(Outbox!vars) => OutboxInv'
<1> SUFFICES ASSUME OutboxInv, [Outbox!Next]_(Outbox!vars) PROVE OutboxInv'
  OBVIOUS
<1>1. CASE Outbox!TickBegins \/ Outbox!Occur \/ Outbox!TimePasses \/ UNCHANGED Outbox!vars
  <2>1. /\ UNCHANGED <<deliveries, posts, enqueued, unrecorded>>
        /\ UNCHANGED <<outboxPhase, outboxDue>>
           \/ (outboxPhase = "IDLE" /\ outboxPhase' = "COLLECT")
    BY <1>1, Zenon DEF Outbox!TickBegins, Outbox!Occur, Outbox!TimePasses, Outbox!vars,
                       Outbox!tables, Outbox!history
  <2>2. /\ outboxClock' = outboxClock \/ outboxClock' = outboxClock + 1
        /\ occurredAt' = occurredAt
           \/ occurredAt' = [occurredAt EXCEPT ![occurred + 1] = outboxClock]
    BY <1>1, Zenon DEF Outbox!TickBegins, Outbox!Occur, Outbox!TimePasses, Outbox!vars
  <2>3. OutboxTypes'
    BY <2>1, <2>2 DEF OutboxInv, OutboxTypes
  <2>4. \A m \in Outbox!Message : Hook(m)' = Hook(m)
    BY <2>1 DEF Hook
  <2> QED BY <2>1, <2>3, <2>4, ForgettingKeeps
<1>2. ASSUME NEW m \in Outbox!Message, Outbox!SaveMessage(m) \/ Outbox!AcknowledgeInApp(m)
      PROVE  OutboxInv'
  <2>1. /\ UNCHANGED <<posts, enqueued, unrecorded, outboxClock, occurredAt>>
        /\ \/ UNCHANGED <<outboxPhase, outboxDue>>
           \/ outboxPhase = "COLLECT" /\ outboxPhase' = "IDLE"
    BY <1>2, Zenon DEF Outbox!SaveMessage, Outbox!AcknowledgeInApp, Outbox!history
  <2>2. \/ UNCHANGED deliveries
        \/ \E delivery : deliveries' = Outbox!Trimmed(Outbox!With(m, "IN_APP", delivery))
    BY <1>2, Zenon DEF Outbox!SaveMessage, Outbox!AcknowledgeInApp, Outbox!tables,
                       Outbox!SaveDelivery
  <2>3. /\ deliveries' = [n \in Outbox!Message |-> [e \in Outbox!Channel |-> deliveries'[n][e]]]
        /\ \A n \in Outbox!Message : Hook(n)' \in {Hook(n), NoDelivery}
    <3>1. CASE UNCHANGED deliveries
      BY <3>1 DEF OutboxInv, OutboxTypes, Hook
    <3>2. CASE \E delivery : deliveries' = Outbox!Trimmed(Outbox!With(m, "IN_APP", delivery))
      BY <3>2, SavingShape DEF OutboxInv, Outbox!Channel
    <3> QED BY <2>2, <3>1, <3>2
  <2>4. OutboxTypes'
    BY <2>1, <2>3 DEF OutboxInv, OutboxTypes
  <2> QED BY <2>1, <2>3, <2>4, ForgettingKeeps
<1> QED BY <1>1, <1>2, DrainKeeps, PostKeeps, AnswerKeeps, EnqueueKeeps,
           RestartKeeps DEF Outbox!Next

\* The retries of a message are limited whatever is lost, trimmed or restarted.
THEOREM OutboxHolds == Outbox!Spec => []RequestsAreBounded
<1>1. Outbox!Init => OutboxInv
  BY DEF Outbox!Init, OutboxInv, OutboxTypes, ReadForDelivery, Hook, InFlight, Outbox!Channel
<1>2. OutboxInv => RequestsAreBounded
  BY DEF OutboxInv, RequestsAreBounded, Outbox!RequestsAreBounded, InFlight, Outbox!MaxAttempts
<1> QED BY <1>1, <1>2, OutboxStep, PTL DEF Outbox!Spec

-----------------------------------------------------------------------------
(* The catalog desk.  The observations of the table, and what refers to them. *)

CatalogInv ==
    /\ catalogRows \in Seq(Catalog!Observation)
    /\ pending \subseteq Source /\ (pending # {} => startedAt \in Catalog!Time)
    /\ catalogClock \in Catalog!Time
    /\ EvidenceKeepsItsSource

\* The rows of a table of observations.
LEMMA RowsOfObservations ==
  ASSUME NEW T, NEW s \in Seq(T) PROVE ToSet(s) = Range(s) /\ ToSet(s) \subseteq T
<1>1. DOMAIN s = 1..Len(s) /\ \A i \in 1..Len(s) : s[i] \in T
  OBVIOUS
<1> QED BY <1>1 DEF ToSet, Range

\* A row with evidence is not deleted.
LEMMA SavedKeeps ==
  ASSUME CatalogInv, NEW o \in Catalog!Observation
  PROVE  /\ Catalog!Saved(o) \in Seq(Catalog!Observation)
         /\ evidence \subseteq Range(Catalog!Saved(o))
<1> DEFINE all == IF o \in Catalog!Rows THEN catalogRows ELSE Append(catalogRows, o)
<1>1. all \in Seq(Catalog!Observation) /\ Range(catalogRows) \subseteq Range(all)
  <2>1. catalogRows \in Seq(Catalog!Observation)
    BY DEF CatalogInv
  <2> QED BY <2>1, RangeOfAppend
<1>2. evidence \subseteq Range(all)
  <2>1. evidence \subseteq ToSet(catalogRows)
    BY Zenon DEF CatalogInv, EvidenceKeepsItsSource, Catalog!EvidenceKeepsItsSource, Catalog!Rows,
                 Catalog!ToSet, ToSet
  <2> QED BY <1>1, <2>1, RowsOfObservations DEF CatalogInv
<1>3. PICK S : Catalog!Saved(o) = Only(all, S) /\ evidence \cap ToSet(all) \subseteq S
  <2> DEFINE rank(p) == Catalog!Cardinality({q \in Catalog!Retained(all, o[1]) :
                                  \E i, j \in DOMAIN all : all[i] = p /\ all[j] = q /\ i < j})
             goes(p) == p \in Catalog!Retained(all, o[1]) /\ rank(p) >= CatalogRetention
             T == {p \in Catalog!ToSet(all) : ~goes(p)}
  <2>1. Catalog!Saved(o) = Catalog!Only(all, T)
    BY DEF Catalog!Saved
  <2>2. Catalog!Only(all, T) = Only(all, T)
    <3> HIDE DEF T, all
    <3> QED BY DEF Catalog!Only, Only
  <2>3. evidence \cap ToSet(all) \subseteq T
    <3> HIDE DEF rank, all
    <3> QED BY Zenon DEF Catalog!Retained, Catalog!ToSet, ToSet
  <2> HIDE DEF T
  <2> QED BY <2>1, <2>2, <2>3
<1> HIDE DEF all
<1> QED BY <1>1, <1>2, <1>3, OnlyKeeps, RowsOfObservations

\* At the start there is no observation and no evidence.
THEOREM CatalogInit == Catalog!Init => CatalogInv
<1> SUFFICES ASSUME Catalog!Init PROVE CatalogInv
  OBVIOUS
<1>1. 1 \in Catalog!Time
  BY CatalogAssumption DEF Catalog!TimeAssumption, Catalog!Time
<1> QED
  BY <1>1 DEF Catalog!Init, CatalogInv, EvidenceKeepsItsSource, Catalog!EvidenceKeepsItsSource

\* Every step of the desk keeps the observations that are evidence.
THEOREM CatalogStep ==
  ASSUME CatalogInv, [Catalog!Next]_(Catalog!vars) PROVE CatalogInv'
<1>t. /\ catalogRows \in Seq(Catalog!Observation) /\ pending \subseteq Source
      /\ pending # {} => startedAt \in Catalog!Time
      /\ catalogClock \in Catalog!Time /\ evidence \subseteq Catalog!ToSet(catalogRows)
  BY Zenon DEF CatalogInv, EvidenceKeepsItsSource, Catalog!EvidenceKeepsItsSource, Catalog!Rows
<1>d. /\ catalogRows' \in Seq(Catalog!Observation) /\ pending' \subseteq Source
      /\ pending' # {} => startedAt' \in Catalog!Time
      /\ catalogClock' \in Catalog!Time /\ evidence' \subseteq Catalog!ToSet(catalogRows')
      => CatalogInv'
  BY Zenon DEF CatalogInv, EvidenceKeepsItsSource, Catalog!EvidenceKeepsItsSource, Catalog!Rows,
               Catalog!ToSet
<1>1. CASE Catalog!Tick \/ Catalog!RunNow
  BY <1>1, <1>t, <1>d, SMT
  DEF Catalog!Tick, Catalog!RunNow, Catalog!Refresh, Catalog!table
<1>2. ASSUME NEW s \in Source, Catalog!Answers(s) PROVE CatalogInv'
  <2>1. /\ s \in pending /\ catalogRows' = Catalog!Saved(<<s, startedAt>>)
        /\ pending' = pending \ {s} /\ startedAt' = startedAt
        /\ catalogClock' = catalogClock /\ evidence' = evidence
    BY <1>2 DEF Catalog!Answers, Catalog!scheduler
  <2>2. <<s, startedAt>> \in Catalog!Observation
    BY <2>1, <1>t DEF Catalog!Observation
  <2>3. /\ catalogRows' \in Seq(Catalog!Observation)
        /\ evidence' \subseteq Catalog!ToSet(catalogRows')
    <3>1. PICK o \in Catalog!Observation : o = <<s, startedAt>>
      BY <2>2
    <3>2. /\ Catalog!Saved(o) \in Seq(Catalog!Observation)
          /\ evidence \subseteq Range(Catalog!Saved(o))
      BY SavedKeeps
    <3>3. Range(Catalog!Saved(o)) = Catalog!ToSet(Catalog!Saved(o))
      BY <3>2, RowsOfObservations DEF Catalog!ToSet, ToSet
    <3>4. catalogRows' = Catalog!Saved(o)
      BY <2>1, <3>1
    <3> HIDE DEF Catalog!Saved
    <3> QED BY <2>1, <3>2, <3>3, <3>4
  <2> QED BY <2>1, <2>3, <1>t, <1>d
<1>3. ASSUME NEW s \in Source, Catalog!Fails(s) PROVE CatalogInv'
  BY <1>3, <1>t, <1>d, SMT DEF Catalog!Fails, Catalog!table, Catalog!scheduler
<1>4. ASSUME NEW s \in Source, Catalog!Materialize(s) PROVE CatalogInv'
  BY <1>4, <1>t, <1>d, SMT DEF Catalog!Materialize, Catalog!Rows, Catalog!desk, Catalog!scheduler
<1>5. CASE Catalog!RefreshEnds
  BY <1>5, <1>t, <1>d, SMT DEF Catalog!RefreshEnds, Catalog!desk, Catalog!table
<1>6. CASE Catalog!Restart
  BY <1>6, <1>t, <1>d, SMT DEF Catalog!Restart, Catalog!table
<1>7. CASE Catalog!TimePasses
  <2>1. catalogClock' \in Catalog!Time
    BY <1>7, <1>t, CatalogAssumption
    DEF Catalog!TimePasses, Catalog!Time, Catalog!TimeAssumption
  <2> QED
    BY <1>7, <2>1, <1>t, <1>d, SMT
    DEF Catalog!TimePasses, Catalog!desk, Catalog!table, Catalog!scheduler
<1>8. CASE UNCHANGED Catalog!vars
  BY <1>8, <1>t, <1>d, SMT DEF Catalog!vars, Catalog!desk, Catalog!table, Catalog!scheduler
<1> QED BY <1>1, <1>2, <1>3, <1>4, <1>5, <1>6, <1>7, <1>8 DEF Catalog!Next

\* Evidence keeps its raw observation, however many newer ones arrive and whatever
\* retention deletes.
THEOREM CatalogHolds == Catalog!Spec => []EvidenceKeepsItsSource
<1>1. CatalogInv => EvidenceKeepsItsSource
  BY DEF CatalogInv
<1> QED BY <1>1, CatalogInit, CatalogStep, PTL DEF Catalog!Spec
=============================================================================
