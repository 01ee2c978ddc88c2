--------------------------- MODULE ResearchProofs ---------------------------
(***************************************************************************)
(* Theorems about the desks that keep a list in memory beside a table:     *)
(* the market archaeologist, the discovery ledger and the desk of          *)
(* investigations, for any tasks, retention, limits and number of failed   *)
(* saves and restarts; and about the scheduler of semantic reviews, for    *)
(* any proposals, contracts, attempts, slots and changes.                  *)
(*                                                                         *)
(* The two lists of a desk are newest first and bounded, and they forget   *)
(* different records.  So the invariants compare them element by element   *)
(* where the order does not matter (the archaeologist, the ledger), and as *)
(* beginnings of one another where it does: of the list of investigations  *)
(* what has completed is a beginning of the table, since the record of the *)
(* one under way is its front until it is replaced there.                  *)
(***************************************************************************)
EXTENDS MCResearch, FiniteFolds

-----------------------------------------------------------------------------
(* Lists that are bounded *)

\* What slice(0, limit) and the trim of a table keep.
First(s, limit) == SubSeq(s, 1, IF Len(s) < limit THEN Len(s) ELSE limit)

\* The first elements of a list are elements of it; the first one is kept.
LEMMA RangeOfFirst ==
  ASSUME NEW T, NEW s \in Seq(T), NEW limit \in Nat \ {0}
  PROVE  /\ First(s, limit) \in Seq(T) /\ Range(First(s, limit)) \subseteq Range(s)
         /\ s # <<>> => s[1] \in Range(First(s, limit))
<1> DEFINE n == IF Len(s) < limit THEN Len(s) ELSE limit
           f == SubSeq(s, 1, n)
<1>1. /\ Len(s) \in Nat /\ DOMAIN s = 1..Len(s) /\ n \in 0..Len(s)
      /\ s # <<>> => Len(s) # 0
  OBVIOUS
<1>2. n # 0 \/ Len(s) = 0
  OBVIOUS
<1> HIDE DEF n
<1>3. f \in Seq(T) /\ DOMAIN f = 1..n /\ \A i \in 1..n : f[i] = s[i]
  BY <1>1
<1> HIDE DEF f
<1>4. First(s, limit) = f
  BY DEF First, f, n
<1>5. 1..n \subseteq 1..Len(s) /\ (n # 0 => 1 \in 1..n)
  BY <1>1
<1> QED BY <1>1, <1>2, <1>3, <1>4, <1>5 DEF Range

\* A record goes to the front of a list that then is bounded.
LEMMA RangeOfFront ==
  ASSUME NEW T, NEW s \in Seq(T), NEW x \in T, NEW limit \in Nat \ {0}
  PROVE  /\ First(InFront(x, s), limit) \in Seq(T)
         /\ x \in Range(First(InFront(x, s), limit))
         /\ Range(First(InFront(x, s), limit)) \subseteq {x} \cup Range(s)
<1>1. <<x>> \in Seq(T) /\ Range(<<x>>) = {x}
  <2>1. <<x>> \in Seq(T) /\ DOMAIN <<x>> = {1} /\ <<x>>[1] = x
    OBVIOUS
  <2> QED BY <2>1 DEF Range
<1> DEFINE t == <<x>> \o s
<1>3. t \in Seq(T) /\ Range(t) = {x} \cup Range(s)
  <2>1. ASSUME NEW u, u = <<x>> PROVE u \o s \in Seq(T) /\ Range(u \o s) = {x} \cup Range(s)
    <3>1. u \in Seq(T) /\ Range(u) = {x}
      BY <1>1, <2>1
    <3> QED BY <3>1, RangeOfConcat
  <2> QED BY <2>1, Zenon
<1>4. t # <<>> /\ t[1] = x
  OBVIOUS
<1>5. /\ First(t, limit) \in Seq(T) /\ Range(First(t, limit)) \subseteq Range(t)
      /\ t # <<>> => t[1] \in Range(First(t, limit))
  <2> HIDE DEF t
  <2> QED BY <1>3, RangeOfFirst
<1> HIDE DEF First
<1>6. t = InFront(x, s)
  BY DEF InFront
<1> HIDE DEF t
<1> QED BY <1>3, <1>4, <1>5, <1>6

\* A sequence of elements of a set, over a larger set.
LEMMA SeqOfMore ==
  ASSUME NEW T, NEW U, T \subseteq U, NEW s \in Seq(T)
  PROVE  s \in Seq(U) /\ Range(s) \subseteq T /\ s \in Seq(Range(s))
<1>1. Len(s) \in Nat /\ DOMAIN s = 1..Len(s) /\ \A i \in 1..Len(s) : s[i] \in T
  OBVIOUS
<1>2. Range(s) \subseteq T /\ \A i \in 1..Len(s) : s[i] \in Range(s)
  BY <1>1 DEF Range
<1>3. s \in [1..Len(s) -> U] /\ s \in [1..Len(s) -> Range(s)]
  BY <1>1, <1>2
<1> QED BY <1>1, <1>2, <1>3

\* A beginning is a prefix.
LEMMA BeginningIsPrefix ==
  ASSUME NEW T, NEW p \in Seq(T), NEW s \in Seq(T), Begins(p, s)
  PROVE  IsPrefix(p, s)
<1>1. /\ Len(p) \in Nat /\ Len(s) \in Nat /\ Len(p) <= Len(s)
      /\ \A i \in 1..Len(p) : p[i] = s[i]
  BY DEF Begins
<1>2. SubSeq(p, 1, Len(p)) = [i \in 1..Len(p) |-> p[i]]
  BY <1>1
<1>3. SubSeq(s, 1, Len(p)) = [i \in 1..Len(p) |-> s[i]]
  BY <1>1
<1>4. [i \in 1..Len(p) |-> p[i]] = [i \in 1..Len(p) |-> s[i]]
  BY <1>1
<1> QED BY <1>1, <1>2, <1>3, <1>4 DEF IsPrefix

\* A beginning of a beginning.
LEMMA BeginsTransitive ==
  ASSUME NEW T, NEW p \in Seq(T), NEW s \in Seq(T), NEW t \in Seq(T), Begins(p, s), Begins(s, t)
  PROVE  Begins(p, t)
BY DEF Begins

\* The filter of a list that lies in S as a whole is the list.
LEMMA OnlyOfAll ==
  ASSUME NEW S, NEW s \in Seq(S) PROVE Begins(Only(s, S), s)
<1>0. Len(s) \in Nat /\ \A k \in 1..Len(s) : s[k] \in S
  OBVIOUS
<1>1. PICK g : Collects(g, s, S, Len(s)) /\ Only(s, S) = g[Len(s)]
  BY OnlyCollects
<1>2. \A k \in 0..Len(s) : g[k] \in Seq(S)
  BY <1>1, CollectionTypes
<1> DEFINE A == {k \in 0..Len(s) : Len(g[k]) = k /\ \A i \in 1..k : g[k][i] = s[i]}
<1>3. 0 \in A
  <2>1. 0 \in 0..Len(s)
    BY <1>0
  <2>2. g[0] = <<>>
    BY <2>1, <1>1 DEF Collects
  <2>3. Len(g[0]) = 0 /\ \A i \in 1..0 : g[0][i] = s[i]
    BY <2>2
  <2> QED BY <2>1, <2>3
<1>4. ASSUME NEW k \in 0..Len(s), k # Len(s), k \in A PROVE k + 1 \in A
  <2>1. k + 1 \in 0..Len(s) /\ k + 1 \in 1..Len(s) /\ k + 1 # 0 /\ (k + 1) - 1 = k /\ k \in Nat
    BY <1>0, <1>4
  <2>2. g[k + 1] = IF s[k + 1] \in S THEN Append(g[k], s[k + 1]) ELSE g[k]
    BY <2>1, <1>1 DEF Collects
  <2>3. PICK p \in Seq(S) : p = g[k] /\ Len(p) = k /\ \A i \in 1..k : p[i] = s[i]
    BY <1>2, <1>4
  <2>4. PICK x \in S : x = s[k + 1]
    BY <1>0, <2>1
  <2>5. PICK a : a = Append(p, x)
    BY Zenon
  <2>6. Len(a) = k + 1 /\ a[k + 1] = x /\ \A i \in 1..k : a[i] = p[i]
    BY <2>1, <2>3, <2>5
  <2>7. \A i \in 1..k + 1 : i \in 1..k \/ i = k + 1
    BY <2>1
  <2>8. g[k + 1] = a
    BY <2>2, <2>3, <2>4, <2>5
  <2>9. Len(g[k + 1]) = k + 1 /\ \A i \in 1..k + 1 : g[k + 1][i] = s[i]
    BY <2>3, <2>4, <2>6, <2>7, <2>8
  <2> QED BY <2>1, <2>9
<1> HIDE DEF A
<1>5. \A k \in 0..Len(s) : k \in A
  BY <1>0, <1>3, <1>4, NumbersReached
<1>6. Len(s) \in A
  BY <1>0, <1>5
<1> QED BY <1>1, <1>6 DEF A, Begins

\* A bounded list with a new front.
LEMMA FirstOfFront ==
  ASSUME NEW T, NEW s \in Seq(T), NEW x \in T, NEW limit \in Nat \ {0}
  PROVE  /\ First(InFront(x, s), limit)
              = InFront(x, SubSeq(s, 1, Len(First(InFront(x, s), limit)) - 1))
         /\ Len(First(InFront(x, s), limit)) - 1 \in 0..Len(s)
         /\ Len(First(InFront(x, s), limit)) <= limit
<1> DEFINE t == <<x>> \o s
           n == IF Len(t) < limit THEN Len(t) ELSE limit
           f == SubSeq(t, 1, n)
           r == SubSeq(s, 1, n - 1)
           u == <<x>> \o r
<1>1. /\ t \in Seq(T) /\ Len(t) = Len(s) + 1 /\ Len(s) \in Nat /\ t[1] = x
      /\ \A i \in 2..Len(s) + 1 : t[i] = s[i - 1]
  OBVIOUS
<1> HIDE DEF t
<1>2. n \in Nat /\ n >= 1 /\ n <= Len(s) + 1 /\ n <= limit
  BY <1>1
<1> HIDE DEF n
<1>3. f \in Seq(T) /\ Len(f) = n /\ \A i \in 1..n : f[i] = t[i]
  BY <1>1, <1>2
<1>4. r \in Seq(T) /\ Len(r) = n - 1 /\ \A i \in 1..n - 1 : r[i] = s[i]
  BY <1>1, <1>2
<1> HIDE DEF f, r
<1>5. u \in Seq(T) /\ Len(u) = n /\ u[1] = x /\ \A i \in 2..n : u[i] = r[i - 1]
  BY <1>2, <1>4
<1> HIDE DEF u
<1>6. \A i \in 1..n : f[i] = u[i]
  <2> TAKE i \in 1..n
  <2>1. CASE i = 1
    BY <2>1, <1>1, <1>2, <1>3, <1>5
  <2>2. CASE i # 1
    <3>1. i \in 2..n /\ i \in 2..Len(s) + 1 /\ i - 1 \in 1..n - 1
      BY <2>2, <1>1, <1>2
    <3> QED BY <3>1, <1>1, <1>3, <1>4, <1>5
  <2> QED BY <2>1, <2>2
<1>7. f = u
  <2>1. f = [i \in 1..n |-> f[i]] /\ u = [i \in 1..n |-> u[i]]
    BY <1>3, <1>5
  <2> QED BY <1>6, <2>1
<1>8. First(t, limit) = f
  BY DEF First, f, n
<1>9. Len(First(t, limit)) = n
  BY <1>3, <1>8
<1>10. First(t, limit) = InFront(x, SubSeq(s, 1, Len(First(t, limit)) - 1))
  BY <1>7, <1>8, <1>9, Zenon DEF u, r, InFront
<1>11. n - 1 \in 0..Len(s)
  BY <1>1, <1>2
<1> HIDE DEF First
<1> QED BY <1>2, <1>9, <1>10, <1>11, Zenon DEF t, InFront

\* A list with a new front still begins the other list with the same front, and
\* what of that is kept.
LEMMA BeginsFirstOfFront ==
  ASSUME NEW T, NEW s \in Seq(T), NEW r \in Seq(T), NEW x \in T, NEW limit \in Nat \ {0},
         Begins(s, r), Len(s) < limit
  PROVE  Begins(InFront(x, s), First(InFront(x, r), limit))
<1> DEFINE u == <<x>> \o s
           t == <<x>> \o r
           n == IF Len(t) < limit THEN Len(t) ELSE limit
           f == SubSeq(t, 1, n)
<1>1. /\ Len(s) \in Nat /\ Len(r) \in Nat /\ Len(s) <= Len(r)
      /\ \A i \in 1..Len(s) : s[i] = r[i]
  BY DEF Begins
<1>2. /\ u \in Seq(T) /\ Len(u) = Len(s) + 1 /\ u[1] = x
      /\ \A i \in 2..Len(s) + 1 : u[i] = s[i - 1]
  OBVIOUS
<1>3. /\ t \in Seq(T) /\ Len(t) = Len(r) + 1 /\ t[1] = x
      /\ \A i \in 2..Len(r) + 1 : t[i] = r[i - 1]
  OBVIOUS
<1> HIDE DEF u, t
<1>4. n \in Nat /\ Len(s) + 1 <= n /\ n <= Len(r) + 1
  BY <1>1, <1>3
<1> HIDE DEF n
<1>5. f \in Seq(T) /\ Len(f) = n /\ \A i \in 1..n : f[i] = t[i]
  BY <1>3, <1>4
<1> HIDE DEF f
<1>6. ASSUME NEW i \in 1..Len(u) PROVE u[i] = f[i]
  <2>1. CASE i = 1
    BY <2>1, <1>1, <1>2, <1>3, <1>4, <1>5
  <2>2. CASE i # 1
    <3>1. /\ i \in 2..Len(s) + 1 /\ i \in 2..Len(r) + 1 /\ i \in 1..n
          /\ i - 1 \in 1..Len(s)
      BY <2>2, <1>1, <1>2, <1>4
    <3> QED BY <3>1, <1>1, <1>2, <1>3, <1>5
  <2> QED BY <2>1, <2>2
<1>7. Begins(u, f)
  BY <1>2, <1>4, <1>5, <1>6 DEF Begins
<1>8. First(t, limit) = f
  BY DEF First, f, n
<1> HIDE DEF First
<1> QED BY <1>7, <1>8, Zenon DEF u, t, InFront

-----------------------------------------------------------------------------
(* The market archaeologist.  Reports that are shown or kept were stored. *)

PassedIn(list) == {x \in Range(list) : x.status = "PASS"}

ArchaeologyInv ==
    /\ reports \in Seq(Archaeology!Record) /\ reportRows \in Seq(Archaeology!Record)
    /\ PassedIn(reports) \cup PassedIn(reportRows) \subseteq stored
    /\ working \subseteq Runs \X Archaeology!Attempt
    /\ attempts \in [Runs -> Nat]

\* #replace: the record comes to the front and the others stay.
LEMMA ReplacedRange ==
  ASSUME NEW list \in Seq(Archaeology!Record), NEW record \in Archaeology!Record
  PROVE  /\ Archaeology!Replace(list, record) \in Seq(Archaeology!Record)
         /\ Range(Archaeology!Replace(list, record)) \subseteq {record} \cup Range(list)
<1> DEFINE S == {x \in Archaeology!ToSet(list) : Archaeology!IsOther(record.run, x)}
<1>1. Archaeology!Replace(list, record)
        = Archaeology!Newest(<<record>> \o Archaeology!Only(list, S))
  BY DEF Archaeology!Replace
<1> HIDE DEF S
<1>2. Archaeology!Only(list, S) = Only(list, S)
  BY DEF Archaeology!Only, Only
<1>3. Only(list, S) \in Seq(Archaeology!Record) /\ Range(Only(list, S)) \subseteq Range(list)
  BY OnlyKeeps
<1>4. Archaeology!Replace(list, record) = First(InFront(record, Only(list, S)), DeskRecords)
  BY <1>1, <1>2 DEF Archaeology!Newest, First, InFront
<1>5. DeskRecords \in Nat \ {0}
  BY ArchaeologyAssumption DEF Archaeology!RetentionAssumption
<1> HIDE DEF First
<1> QED BY <1>3, <1>4, <1>5, RangeOfFront

\* The upsert: a row of the run, the record or one that was stored before.
LEMMA UpsertedRows ==
  ASSUME ArchaeologyInv, NEW record \in Archaeology!Record
  PROVE  /\ Archaeology!Upserted(record) \in Seq(Archaeology!Record)
         /\ Archaeology!StoredAs(record) \in Range(Archaeology!Upserted(record))
<1> DEFINE up == Archaeology!Upserted(record)
<1>0. DeskRecords \in Nat \ {0} /\ reportRows \in Seq(Archaeology!Record)
  BY ArchaeologyAssumption DEF Archaeology!RetentionAssumption, ArchaeologyInv
<1>1. up \in Seq(Archaeology!Record) /\ \E x \in Range(up) : x.run = record.run
  <2>1. CASE Archaeology!Of(reportRows, record.run) = {}
    <3>1. up = First(InFront(record, reportRows), DeskRecords)
      BY <2>1 DEF Archaeology!Upserted, Archaeology!Newest, First, InFront
    <3> HIDE DEF First, up
    <3> QED BY <1>0, <3>1, RangeOfFront
  <2>2. CASE Archaeology!Of(reportRows, record.run) # {}
    <3>1. up = [i \in DOMAIN reportRows |->
                  IF reportRows[i].run = record.run /\ Archaeology!UpdatesRow(reportRows[i])
                  THEN record ELSE reportRows[i]]
      BY <2>2 DEF Archaeology!Upserted
    <3>2. PICK i \in DOMAIN reportRows : reportRows[i].run = record.run
      BY <2>2 DEF Archaeology!Of
    <3>3. DOMAIN reportRows = 1..Len(reportRows) /\ Len(reportRows) \in Nat
      BY <1>0
    <3>4. \A k \in 1..Len(reportRows) : reportRows[k] \in Archaeology!Record
      BY <1>0
    <3> HIDE DEF up
    <3>5. up \in [1..Len(reportRows) -> Archaeology!Record]
      BY <3>1, <3>3, <3>4
    <3>6. up \in Seq(Archaeology!Record)
      BY <3>3, <3>5
    <3>7. i \in DOMAIN up /\ up[i].run = record.run
      BY <3>1, <3>2
    <3> QED BY <3>6, <3>7 DEF Range
  <2> QED BY <2>1, <2>2
<1> HIDE DEF up
<1>2. \A x : x \in Archaeology!Of(up, record.run) <=> x \in Range(up) /\ x.run = record.run
  BY DEF Archaeology!Of, Range
<1>3. Archaeology!StoredAs(record) \in Archaeology!Of(up, record.run)
  <2>1. \E x : x \in Archaeology!Of(up, record.run)
    BY <1>1, <1>2
  <2> QED BY <2>1 DEF Archaeology!StoredAs, up
<1> QED BY <1>1, <1>2, <1>3 DEF up

\* A new list in memory, over the rows of before or those just stored.
LEMMA ShowingKeeps ==
  ASSUME ArchaeologyInv,
         working' \subseteq Runs \X Archaeology!Attempt, attempts' \in [Runs -> Nat],
         reportRows' \in Seq(Archaeology!Record), PassedIn(reportRows') \subseteq stored',
         stored \subseteq stored',
         NEW record \in Archaeology!Record, record.status = "PASS" => record \in stored',
         reports' = Archaeology!Replace(reports, record)
  PROVE  ArchaeologyInv'
<1>1. reports \in Seq(Archaeology!Record) /\ PassedIn(reports) \subseteq stored
  BY DEF ArchaeologyInv
<1>2. /\ reports' \in Seq(Archaeology!Record)
      /\ Range(reports') \subseteq {record} \cup Range(reports)
  BY <1>1, ReplacedRange
<1>3. PassedIn(reports') \subseteq stored'
  BY <1>1, <1>2 DEF PassedIn
<1>4. PassedIn(reports)' = PassedIn(reports') /\ PassedIn(reportRows)' = PassedIn(reportRows')
  BY DEF PassedIn
<1> QED BY <1>2, <1>3, <1>4 DEF ArchaeologyInv

\* No report yet.
THEOREM ArchaeologyInit == Archaeology!Init => ArchaeologyInv
<1> SUFFICES ASSUME Archaeology!Init PROVE ArchaeologyInv
  OBVIOUS
<1>1. Range(<<>>) = {} /\ <<>> \in Seq(Archaeology!Record)
  BY DEF Range
<1> QED BY <1>1 DEF Archaeology!Init, ArchaeologyInv, PassedIn

\* Whatever is begun, answered, refused or restarted, what passed was stored.
THEOREM ArchaeologyStep ==
  ASSUME ArchaeologyInv, [Archaeology!Next]_(Archaeology!vars) PROVE ArchaeologyInv'
<1>1. ASSUME NEW r \in Runs, Archaeology!Begin(r) PROVE ArchaeologyInv'
  <2> DEFINE record == [run |-> r, attempt |-> attempts[r] + 1, status |-> "RUNNING"]
  <2>1. /\ attempts[r] < RunAttempts /\ attempts' = [attempts EXCEPT ![r] = @ + 1]
        /\ working' = working \cup {<<r, attempts[r] + 1>>}
        /\ reports' = Archaeology!Replace(reports, record)
        /\ reportRows' = reportRows /\ stored' = stored
    BY <1>1 DEF Archaeology!Begin
  <2>2. attempts[r] \in Nat /\ RunAttempts \in Nat
    BY ArchaeologyAssumption DEF ArchaeologyInv, Archaeology!AttemptsAssumption
  <2>3. attempts[r] + 1 \in Archaeology!Attempt
    BY <2>1, <2>2 DEF Archaeology!Attempt
  <2>4. record \in Archaeology!Record /\ record.status # "PASS"
    BY <2>3 DEF Archaeology!Record
  <2>5. working' \subseteq Runs \X Archaeology!Attempt /\ attempts' \in [Runs -> Nat]
    BY <2>1, <2>2, <2>3 DEF ArchaeologyInv
  <2>6. reportRows' \in Seq(Archaeology!Record) /\ PassedIn(reportRows') \subseteq stored'
    BY <2>1 DEF ArchaeologyInv
  <2> HIDE DEF record
  <2> QED BY <2>1, <2>4, <2>5, <2>6, ShowingKeeps
<1>2. ASSUME NEW r \in Runs, Archaeology!Answer(r) PROVE ArchaeologyInv'
  <2>1. PICK attempt \in Archaeology!Attempt, status \in {"PASS", "FAILED"} :
          Archaeology!Complete(r, attempt, status)
    BY <1>2 DEF Archaeology!Answer
  <2>2. PICK record \in Archaeology!Record :
          record = [run |-> r, attempt |-> attempt, status |-> status]
    BY DEF Archaeology!Record
  <2>3. /\ Archaeology!SaveRecord(record) \/ Archaeology!SaveThrows(record)
        /\ working' = working \ {<<r, attempt>>} /\ attempts' = attempts
    BY <2>1, <2>2 DEF Archaeology!Complete
  <2>4. working' \subseteq Runs \X Archaeology!Attempt /\ attempts' \in [Runs -> Nat]
    BY <2>3 DEF ArchaeologyInv
  <2>5. CASE Archaeology!SaveRecord(record)
    <3>1. PICK row : row = Archaeology!StoredAs(record)
      OBVIOUS
    <3>2. /\ reportRows' = Archaeology!Upserted(record)
          /\ reports' = Archaeology!Replace(reports, row)
          /\ stored' = stored \cup Archaeology!Remember(reportRows')
      BY <2>5, <3>1 DEF Archaeology!SaveRecord
    <3>3. reportRows' \in Seq(Archaeology!Record) /\ row \in Range(reportRows')
      BY <3>1, <3>2, UpsertedRows
    <3>4. row \in Archaeology!Record
      BY <3>3 DEF Range
    <3>5. Archaeology!Remember(reportRows') = PassedIn(reportRows')
      BY DEF Archaeology!Remember, PassedIn, Range
    <3>6. PassedIn(reportRows') \subseteq stored' /\ (row.status = "PASS" => row \in stored')
      BY <3>2, <3>3, <3>5 DEF PassedIn
    <3> QED BY <2>4, <3>2, <3>3, <3>4, <3>6, ShowingKeeps
  <2>6. CASE Archaeology!SaveThrows(record)
    <3>1. PICK shown : shown = [record EXCEPT !.status = "FAILED"]
      OBVIOUS
    <3>2. shown \in Archaeology!Record /\ shown.status # "PASS"
      BY <3>1 DEF Archaeology!Record
    <3>3. /\ reports' = Archaeology!Replace(reports, shown)
          /\ reportRows' = reportRows /\ stored' = stored
      BY <2>6, <3>1 DEF Archaeology!SaveThrows, Archaeology!ShowFailure
    <3>4. reportRows' \in Seq(Archaeology!Record) /\ PassedIn(reportRows') \subseteq stored'
      BY <3>3 DEF ArchaeologyInv
    <3> QED BY <2>4, <3>2, <3>3, <3>4, ShowingKeeps
  <2> QED BY <2>3, <2>5, <2>6
<1>3. CASE Archaeology!Restart
  BY <1>3 DEF Archaeology!Restart, ArchaeologyInv, PassedIn
<1>4. CASE UNCHANGED Archaeology!vars
  BY <1>4 DEF Archaeology!vars, ArchaeologyInv, PassedIn
<1> QED BY <1>1, <1>2, <1>3, <1>4 DEF Archaeology!Next

\* A report of the archaeologist that is shown as passed was committed, whatever
\* was refused, forgotten or started again since.
THEOREM ShownStaysStored == Archaeology!Spec => []ShownPassWasStored
<1>1. ArchaeologyInv => ShownPassWasStored
  <2> SUFFICES ASSUME ArchaeologyInv, NEW i \in DOMAIN reports, reports[i].status = "PASS"
               PROVE  reports[i] \in stored
    BY DEF ShownPassWasStored, Archaeology!ShownPassWasStored
  <2>1. reports[i] \in PassedIn(reports)
    BY DEF PassedIn, Range
  <2> QED BY <2>1 DEF ArchaeologyInv
<1> QED BY <1>1, ArchaeologyInit, ArchaeologyStep, PTL DEF Archaeology!Spec

-----------------------------------------------------------------------------
(* The discovery ledger.  Two lists of stored records that agree. *)

LedgerInv ==
    /\ runs \in Seq(committed) /\ runRows \in Seq(committed)
    /\ \A x, y \in Range(runRows) : x.task = y.task => x = y
    /\ \A x \in Range(runs), y \in Range(runRows) : x.task = y.task => x = y

\* The rows of a task.
LEMMA RowsOfTask ==
  ASSUME NEW list, NEW t
  PROVE  Discovery!Of(list, t) = {x \in Range(list) : x.task = t}
BY DEF Discovery!Of, Range

\* The insert: the new row, if its task has none.
LEMMA InsertedRows ==
  ASSUME LedgerInv, NEW record, NEW U, committed \subseteq U, record \in U
  PROVE  /\ Discovery!Inserted(record) \in Seq(U)
         /\ \/ Discovery!Inserted(record) = runRows
            \/ /\ Range(Discovery!Inserted(record)) \subseteq {record} \cup Range(runRows)
               /\ \A y \in Range(runRows) : y.task # record.task
<1>1. runRows \in Seq(U) /\ DeskRecords \in Nat \ {0}
  BY SeqOfMore, DiscoveryAssumption DEF LedgerInv, Discovery!RetentionAssumption
<1>2. CASE Discovery!Of(runRows, record.task) = {}
  <2>1. Discovery!Inserted(record) = First(InFront(record, runRows), DeskRecords)
    BY <1>2 DEF Discovery!Inserted, Discovery!Newest, First, InFront
  <2>2. \A y \in Range(runRows) : y.task # record.task
    BY <1>2, RowsOfTask
  <2> HIDE DEF First
  <2> QED BY <1>1, <2>1, <2>2, RangeOfFront
<1>3. CASE Discovery!Of(runRows, record.task) # {}
  BY <1>1, <1>3 DEF Discovery!Inserted
<1> QED BY <1>2, <1>3

\* The stored record goes to the front of the ledger.
LEMMA RetainedRuns ==
  ASSUME NEW U, runs \in Seq(U), NEW record, NEW row \in U, row.task = record.task,
         runs' = Discovery!Newest(<<row>> \o Discovery!Others(runs, record.task))
  PROVE  /\ runs' \in Seq(U)
         /\ \A x \in Range(runs') : x = row \/ (x \in Range(runs) /\ x.task # record.task)
<1> DEFINE S == {x \in Discovery!ToSet(runs) : x.task # record.task}
<1>1. Discovery!Others(runs, record.task) = Only(runs, S)
  <2>1. Discovery!Others(runs, record.task) = Discovery!Only(runs, S)
    BY DEF Discovery!Others
  <2> HIDE DEF S
  <2> QED BY <2>1 DEF Discovery!Only, Only
<1>2. \A x \in S : x.task # record.task
  OBVIOUS
<1> HIDE DEF S
<1>3. Only(runs, S) \in Seq(U) /\ Range(Only(runs, S)) = Range(runs) \cap S
  BY OnlyKeeps
<1>4. runs' = First(InFront(row, Only(runs, S)), DeskRecords)
  BY <1>1 DEF Discovery!Newest, First, InFront
<1>5. DeskRecords \in Nat \ {0}
  BY DiscoveryAssumption DEF Discovery!RetentionAssumption
<1> HIDE DEF First
<1>6. /\ runs' \in Seq(U)
      /\ Range(runs') \subseteq {row} \cup Range(Only(runs, S))
  <2>1. ASSUME NEW q \in Seq(U)
        PROVE  /\ First(InFront(row, q), DeskRecords) \in Seq(U)
               /\ Range(First(InFront(row, q), DeskRecords)) \subseteq {row} \cup Range(q)
    BY <1>5, RangeOfFront
  <2>2. PICK q : q = Only(runs, S)
    BY Zenon
  <2> QED BY <1>3, <1>4, <2>1, <2>2
<1> QED BY <1>2, <1>3, <1>6

\* A save: ledger and table change together, or the task has a row of another scope.
LEMMA SavingRunKeeps ==
  ASSUME LedgerInv, NEW k, Discovery!SaveRun(k) PROVE LedgerInv'
<1>1. PICK record : record = [task |-> flights[k].task, scope |-> flights[k].scope, run |-> k]
  BY Zenon
<1>2. PICK row \in Discovery!Of(runRows', record.task) :
        /\ runRows' = Discovery!Inserted(record)
        /\ committed' = committed \cup Discovery!Range(runRows')
        /\ IF row.scope = record.scope
           THEN \E kept \in Discovery!Of(runRows', record.task) :
                  runs' = Discovery!Newest(<<kept>> \o Discovery!Others(runs, record.task))
           ELSE runs' = runs
  BY <1>1 DEF Discovery!SaveRun, Discovery!Retains
<1>3. row \in Range(runRows') /\ row.task = record.task
  BY <1>2, RowsOfTask
<1> DEFINE U == committed \cup {record}
<1>4. /\ runRows' \in Seq(U)
      /\ \/ runRows' = runRows
         \/ /\ Range(runRows') \subseteq {record} \cup Range(runRows)
            /\ \A y \in Range(runRows) : y.task # record.task
  BY <1>2, InsertedRows
<1>5. Range(runRows') \subseteq committed' /\ committed \subseteq committed'
  BY <1>2 DEF Discovery!Range, Range
<1>6. runRows' \in Seq(committed') /\ runs \in Seq(committed')
  BY <1>4, <1>5, SeqOfMore DEF LedgerInv
<1>7. \A x, y \in Range(runRows') : x.task = y.task => x = y
  BY <1>4 DEF LedgerInv
<1>8. /\ runs' \in Seq(committed')
      /\ \A x \in Range(runs'), y \in Range(runRows') : x.task = y.task => x = y
  <2>1. CASE row.scope = record.scope
    <3>1. PICK kept \in Discovery!Of(runRows', record.task) :
            runs' = Discovery!Newest(<<kept>> \o Discovery!Others(runs, record.task))
      BY <1>2, <2>1
    <3>2. kept \in Range(runRows') /\ kept.task = record.task
      BY <3>1, RowsOfTask
    <3>3. /\ runs' \in Seq(committed')
          /\ \A x \in Range(runs') : x = kept \/ (x \in Range(runs) /\ x.task # record.task)
      BY <1>5, <1>6, <3>1, <3>2, RetainedRuns
    <3> QED BY <1>4, <1>7, <3>2, <3>3 DEF LedgerInv
  <2>2. CASE row.scope # record.scope
    <3>1. runs' = runs /\ row # record
      BY <1>2, <2>2
    <3>2. runRows' = runRows
      BY <1>3, <1>4, <3>1
    <3> QED BY <1>6, <3>1, <3>2 DEF LedgerInv
  <2> QED BY <2>1, <2>2
<1> QED BY <1>6, <1>7, <1>8 DEF LedgerInv, Range

\* Nothing was discovered yet.
THEOREM LedgerInit == Discovery!Init => LedgerInv
<1> SUFFICES ASSUME Discovery!Init PROVE LedgerInv
  OBVIOUS
<1>1. Range(<<>>) = {} /\ <<>> \in Seq(committed)
  BY DEF Range
<1> QED BY <1>1 DEF Discovery!Init, LedgerInv

\* Only a saved run and a restart change the lists.
THEOREM LedgerStep ==
  ASSUME LedgerInv, [Discovery!Next]_(Discovery!vars) PROVE LedgerInv'
<1>1. ASSUME UNCHANGED <<runs, runRows, committed>> PROVE LedgerInv'
  BY <1>1 DEF LedgerInv, Range
<1>2. ASSUME NEW r \in Requests, NEW t, NEW s, Discovery!Invoke(r, t, s) PROVE LedgerInv'
  BY <1>1, <1>2 DEF Discovery!Invoke
<1>3. ASSUME NEW t \in LeaseTasks, Discovery!RunFast(t) PROVE LedgerInv'
  BY <1>1, <1>3 DEF Discovery!RunFast
<1>4. ASSUME NEW k, Discovery!PoolAnswers(k) \/ Discovery!Publish(k) PROVE LedgerInv'
  BY <1>1, <1>4, SavingRunKeeps
  DEF Discovery!PoolAnswers, Discovery!RunFails, Discovery!Publish
<1>5. CASE Discovery!Restart
  BY <1>5 DEF Discovery!Restart, LedgerInv, Range
<1>6. CASE UNCHANGED Discovery!vars
  BY <1>1, <1>6 DEF Discovery!vars
<1> QED BY <1>2, <1>3, <1>4, <1>5, <1>6 DEF Discovery!Next, Discovery!Advance

\* The ledger shows nothing that was not stored, and what ledger and table both
\* retain for a task is the same, though they forget in different orders.
THEOREM LedgerStaysInAgreement == Discovery!Spec => []LedgerAgreesWithTable
<1>1. LedgerInv => LedgerAgreesWithTable
  <2> SUFFICES ASSUME LedgerInv PROVE LedgerAgreesWithTable
    OBVIOUS
  <2>1. Range(runs) \subseteq committed
    BY SeqOfMore DEF LedgerInv
  <2>2. ASSUME NEW i \in DOMAIN runs PROVE Discovery!Of(runRows, runs[i].task) \subseteq {runs[i]}
    <3>1. runs[i] \in Range(runs)
      BY DEF Range
    <3> QED BY <3>1, RowsOfTask DEF LedgerInv
  <2> QED BY <2>1, <2>2
      DEF LedgerAgreesWithTable, Discovery!LedgerAgreesWithTable, Discovery!Range, Range
<1> QED BY <1>1, LedgerInit, LedgerStep, PTL DEF Discovery!Spec

-----------------------------------------------------------------------------
(* The investigation desk.  Its completed records are the newest rows. *)

Started(a) == [id |-> a.id, task |-> a.task, scope |-> a.scope, status |-> "RUNNING"]

\* The record of the active investigation is at the front, and no other has its id.
ActiveIsFirst ==
    investigating # None =>
        /\ investigating \in Investigation!Active
        /\ \E rest \in Seq(Investigation!Record) :
             /\ records = InFront(Started(investigating), rest)
             /\ \A x \in Range(rest) : x.id # investigating.id

InvestigationInv ==
    /\ started \in Nat
    /\ records \in Seq(Investigation!Record) /\ Len(records) <= DeskRecords
    /\ \A x \in Range(records) : x.id <= started
    /\ recordRows \in Seq(Investigation!Completion) /\ Len(recordRows) <= DeskRecords
    /\ \A x \in Range(recordRows) : x.id <= started
    /\ investigating # None => investigating.id <= started
    /\ ActiveIsFirst
    /\ Begins(Only(records, Investigation!Completion), recordRows)

\* The instance's filter is that of the lemmas.
LEMMA CompletedRecords ==
  ASSUME NEW list PROVE Investigation!CompletedOf(list) = Only(list, Investigation!Completion)
BY DEF Investigation!CompletedOf, Investigation!Only, Only

\* The instance's bound is First.
LEMMA TrimIsFirst ==
  ASSUME NEW list PROVE Investigation!Trim(list) = First(list, DeskRecords)
BY DEF Investigation!Trim, First

\* A record is completed unless it is RUNNING.
LEMMA CompletionIsRecord ==
  /\ Investigation!Completion \subseteq Investigation!Record
  /\ \A x \in Investigation!Record : x \in Investigation!Completion <=> x.status # "RUNNING"
BY DEF Investigation!Completion, Investigation!Record

\* A record that is neither completed nor kept by the table comes to the front.
LEMMA BeginKeeps ==
  ASSUME InvestigationInv, NEW t \in Tasks, NEW s \in Scopes, Investigation!Begin(t, s)
  PROVE  InvestigationInv'
<1> DEFINE run == [id |-> started + 1, task |-> t, scope |-> s, status |-> "RUNNING"]
           C == Investigation!Completion
           R == Investigation!Record
<1>1. /\ started < MaxInvestigations /\ started' = started + 1
      /\ records' = First(InFront(run, records), DeskRecords)
      /\ investigating' = [id |-> started + 1, task |-> t, scope |-> s, next |-> "RECORD_REPORT"]
      /\ recordRows' = recordRows
  BY TrimIsFirst DEF Investigation!Begin, InFront
<1>2. started \in Nat /\ records \in Seq(R) /\ recordRows \in Seq(C)
  BY DEF InvestigationInv
<1>3. started + 1 \in Investigation!Investigation
  BY <1>1, <1>2, InvestigationAssumption
  DEF Investigation!BoundAssumption, Investigation!Investigation
<1>4. run \in R /\ run \notin C /\ investigating' \in Investigation!Active
      /\ run = Started(investigating')
  BY <1>1, <1>3
  DEF Investigation!Record, Investigation!Completion, Investigation!Active, Started
<1>5. DeskRecords \in Nat \ {0}
  BY InvestigationAssumption DEF Investigation!RetentionAssumption
<1> HIDE DEF C, R, run
<1> DEFINE n == Len(First(InFront(run, records), DeskRecords)) - 1
           rest == SubSeq(records, 1, n)
<1>6. n \in 0..Len(records) /\ records' = InFront(run, rest) /\ Len(records') <= DeskRecords
  <2>1. ASSUME NEW q \in Seq(R), NEW x \in R, NEW f, f = First(InFront(x, q), DeskRecords)
        PROVE  /\ f = InFront(x, SubSeq(q, 1, Len(f) - 1))
               /\ Len(f) - 1 \in 0..Len(q) /\ Len(f) <= DeskRecords
    BY <1>5, <2>1, FirstOfFront
  <2> QED BY <1>1, <1>2, <1>4, <2>1
<1> HIDE DEF n
<1>7. rest \in Seq(R) /\ Range(rest) \subseteq Range(records)
  <2>1. rest \in Seq(R) /\ DOMAIN rest = 1..n /\ \A i \in 1..n : rest[i] = records[i]
    BY <1>2, <1>6
  <2>2. 1..n \subseteq DOMAIN records
    BY <1>2, <1>6
  <2> QED BY <2>1, <2>2 DEF Range
<1>8. Begins(Only(records', C), recordRows)
  <2>1. Only(records', C) = Only(rest, C)
    <3>1. ASSUME NEW q \in Seq(R), NEW x \in R, x \notin C PROVE Only(InFront(x, q), C) = Only(q, C)
      BY <3>1, OnlyOfFront
    <3> HIDE DEF rest
    <3> QED BY <1>4, <1>6, <1>7, <3>1
  <2>2. Only(rest, C) \in Seq(R) /\ Only(records, C) \in Seq(R)
    BY <1>2, <1>7, OnlyKeeps
  <2>3. Begins(Only(rest, C), Only(records, C))
    BY <1>2, <1>6, OnlyOfFirst
  <2>4. Begins(Only(records, C), recordRows)
    BY DEF InvestigationInv, C
  <2>5. recordRows \in Seq(R)
    BY <1>2, CompletionIsRecord, SeqOfMore DEF C, R
  <2> QED BY <2>1, <2>2, <2>3, <2>4, <2>5, BeginsTransitive
<1>9. records' \in Seq(R) /\ Range(records') \subseteq {run} \cup Range(records)
  BY <1>1, <1>2, <1>4, <1>5, RangeOfFront
<1>10. run.id = started + 1 /\ investigating'.id = started + 1
  BY <1>1 DEF run
<1>11. \A x \in Range(records) : x.id \in Nat /\ x.id <= started
  <2>1. \A x \in Range(records) : x \in R
    BY <1>2, SeqOfMore
  <2> QED BY <2>1, InvestigationAssumption
      DEF InvestigationInv, R, Investigation!Record, Investigation!Investigation
<1>12. \A x \in Range(recordRows) : x.id \in Nat /\ x.id <= started
  <2>1. \A x \in Range(recordRows) : x \in C
    BY <1>2, SeqOfMore
  <2> QED BY <2>1, InvestigationAssumption
      DEF InvestigationInv, C, Investigation!Completion, Investigation!Investigation
<1>13. ActiveIsFirst'
  <2>1. \A x \in Range(rest) : x.id # investigating'.id
    BY <1>2, <1>7, <1>10, <1>11
  <2> HIDE DEF rest
  <2> QED BY <1>4, <1>6, <1>7, <2>1 DEF ActiveIsFirst, R
<1>14. /\ started' \in Nat /\ Len(recordRows') <= DeskRecords /\ recordRows' \in Seq(C)
       /\ investigating'.id <= started'
       /\ \A x \in Range(records') : x.id <= started'
       /\ \A x \in Range(recordRows') : x.id <= started'
  <2>1. ASSUME NEW x \in Range(records') PROVE x.id <= started'
    BY <1>1, <1>2, <1>9, <1>10, <1>11
  <2>2. ASSUME NEW x \in Range(recordRows') PROVE x.id <= started'
    BY <1>1, <1>2, <1>12
  <2>3. started' \in Nat /\ investigating'.id <= started'
    BY <1>1, <1>2, <1>10
  <2> QED BY <1>1, <1>2, <2>1, <2>2, <2>3 DEF InvestigationInv
<1>15. Range(records)' = Range(records') /\ Range(recordRows)' = Range(recordRows')
  BY DEF Range
<1> QED BY <1>1, <1>6, <1>8, <1>9, <1>13, <1>14, <1>15 DEF InvestigationInv, C, R

\* The completed record takes the place of the running one, and a new row.
LEMMA FinishKeeps ==
  ASSUME InvestigationInv, investigating # None, NEW status \in {"PASS", "FAILED"},
         Investigation!Finish(status), investigating' = None, started' = started
  PROVE  InvestigationInv'
<1> DEFINE C == Investigation!Completion
           R == Investigation!Record
           run == Started(investigating)
           done == Investigation!Completed(status)
<1>1. /\ investigating \in Investigation!Active
      /\ records \in Seq(R) /\ recordRows \in Seq(C) /\ started \in Nat
  BY DEF InvestigationInv, ActiveIsFirst
<1>2. PICK rest \in Seq(R) :
        records = InFront(run, rest) /\ \A x \in Range(rest) : x.id # investigating.id
  BY DEF InvestigationInv, ActiveIsFirst
<1>3. /\ recordRows' = First(InFront(done, recordRows), DeskRecords)
      /\ records' = [i \in DOMAIN records |->
                       IF records[i].id = investigating.id THEN done ELSE records[i]]
  BY TrimIsFirst DEF Investigation!Finish, InFront
<1>4. /\ run \in R /\ run \notin C /\ run.id = investigating.id
      /\ done \in C /\ done \in R /\ done.id = investigating.id
  BY <1>1 DEF Investigation!Record, Investigation!Completion, Investigation!Active, Started,
              Investigation!Completed
<1>5. DeskRecords \in Nat \ {0}
  BY InvestigationAssumption DEF Investigation!RetentionAssumption
<1>6. C \subseteq R
  BY CompletionIsRecord
<1>7. \A x \in R : x.id \in Nat
  BY InvestigationAssumption
  DEF Investigation!BoundAssumption, Investigation!Record, Investigation!Investigation
<1> HIDE DEF C, R, run, done
<1>8. records' = InFront(done, rest) /\ Len(records') = Len(records)
  <2>1. /\ Len(rest) \in Nat /\ Len(records) = Len(rest) + 1 /\ DOMAIN records = 1..Len(rest) + 1
        /\ records[1] = run /\ \A i \in 2..Len(rest) + 1 : records[i] = rest[i - 1]
    BY <1>2 DEF InFront
  <2>2. ASSUME NEW i \in 2..Len(rest) + 1 PROVE rest[i - 1].id # investigating.id
    <3>1. i - 1 \in DOMAIN rest
      BY <2>1
    <3> QED BY <3>1, <1>2 DEF Range
  <2>3. /\ DOMAIN records' = 1..Len(rest) + 1 /\ records'[1] = done
        /\ \A i \in 2..Len(rest) + 1 : records'[i] = rest[i - 1]
    BY <1>3, <1>4, <2>1, <2>2
  <2> DEFINE u == <<done>> \o rest
  <2>4. /\ u \in Seq(R) /\ DOMAIN u = 1..Len(rest) + 1 /\ u[1] = done
        /\ \A i \in 2..Len(rest) + 1 : u[i] = rest[i - 1]
    BY <1>4
  <2> HIDE DEF u
  <2>5. \A i \in 1..Len(rest) + 1 : i = 1 \/ i \in 2..Len(rest) + 1
    BY <2>1
  <2>6. records' = [i \in 1..Len(rest) + 1 |-> records'[i]] /\ u = [i \in 1..Len(rest) + 1 |-> u[i]]
    BY <1>3, <2>1, <2>4
  <2>7. records' = u
    BY <2>3, <2>4, <2>5, <2>6
  <2>8. Len(u) = Len(rest) + 1
    BY <2>1, <2>4
  <2> QED BY <2>1, <2>7, <2>8 DEF u, InFront
<1>9. records' \in Seq(R) /\ Range(records') \subseteq {done} \cup Range(rest)
  <2>1. <<done>> \o rest \in Seq(R)
    BY <1>4
  <2>2. Range(<<done>>) = {done} /\ <<done>> \in Seq(R)
    BY <1>4 DEF Range
  <2>3. ASSUME NEW u, u = <<done>> PROVE Range(u \o rest) = {done} \cup Range(rest)
    <3>1. u \in Seq(R) /\ Range(u) = {done}
      BY <2>2, <2>3
    <3> QED BY <3>1, RangeOfConcat
  <2>4. Range(<<done>> \o rest) = {done} \cup Range(rest)
    BY <2>3, Zenon
  <2> QED BY <1>8, <2>1, <2>4 DEF InFront
<1>10. Range(rest) \subseteq Range(records)
  <2>1. /\ Len(rest) \in Nat /\ DOMAIN rest = 1..Len(rest) /\ DOMAIN records = 1..Len(rest) + 1
        /\ \A i \in 1..Len(rest) : rest[i] = records[i + 1] /\ i + 1 \in 1..Len(rest) + 1
    BY <1>2 DEF InFront
  <2> QED BY <2>1 DEF Range
<1>11. Only(records', C) = InFront(done, Only(rest, C)) /\ Only(records, C) = Only(rest, C)
  <2>1. ASSUME NEW q \in Seq(R), NEW x \in R
        PROVE  Only(InFront(x, q), C) = IF x \in C THEN InFront(x, Only(q, C)) ELSE Only(q, C)
    BY OnlyOfFront
  <2> QED BY <1>2, <1>4, <1>8, <2>1
<1>12. PICK c \in Seq(R) : c = Only(rest, C) /\ Len(c) <= Len(rest)
  <2>1. 0 \in 0..Len(rest)
    BY <1>2
  <2>2. Only(rest, C) \in Seq(R) /\ Len(Only(rest, C)) <= Len(rest)
    BY <2>1, <1>2, OnlyOfFirst
  <2> QED BY <2>2
<1>13. Len(c) < DeskRecords
  <2>1. Len(records) = Len(rest) + 1 /\ Len(rest) \in Nat /\ Len(c) \in Nat
    BY <1>2 DEF InFront
  <2> QED BY <2>1, <1>5, <1>12 DEF InvestigationInv
<1>14. Begins(c, recordRows)
  BY <1>11, <1>12 DEF InvestigationInv, C
<1>15. recordRows \in Seq(R)
  BY <1>1, <1>6, SeqOfMore
<1>16. Begins(Only(records', C), recordRows')
  BY <1>3, <1>4, <1>5, <1>11, <1>12, <1>13, <1>14, <1>15, BeginsFirstOfFront
<1>17. /\ recordRows' \in Seq(C) /\ Range(recordRows') \subseteq {done} \cup Range(recordRows)
       /\ Len(recordRows') <= DeskRecords
  BY <1>1, <1>3, <1>4, <1>5, RangeOfFront, FirstOfFront
<1>18. \A x \in Range(records') : x.id <= started
  BY <1>4, <1>9, <1>10 DEF InvestigationInv
<1>19. \A x \in Range(recordRows') : x.id <= started
  BY <1>4, <1>17 DEF InvestigationInv
<1>20. ActiveIsFirst' /\ (investigating' # None => investigating'.id <= started')
  BY DEF ActiveIsFirst
<1>21. Range(records)' = Range(records') /\ Range(recordRows)' = Range(recordRows')
  BY DEF Range
<1>22. Len(records') <= DeskRecords
  BY <1>8 DEF InvestigationInv
<1> QED BY <1>1, <1>9, <1>16, <1>17, <1>18, <1>19, <1>20, <1>21, <1>22
    DEF InvestigationInv, C, R

\* Nothing is finished: the investigation goes on, or the desk becomes free.
LEMMA HandlingKeeps ==
  ASSUME InvestigationInv, UNCHANGED <<records, recordRows, started>>,
         \/ investigating' = None
         \/ investigating' = investigating
         \/ /\ investigating # None
            /\ investigating' = [investigating EXCEPT !.next = "RECORD_FAILURE"]
  PROVE  InvestigationInv'
<1>1. ActiveIsFirst' /\ (investigating' # None => investigating'.id <= started')
  <2>1. CASE investigating' = None
    BY <2>1 DEF ActiveIsFirst
  <2>2. CASE investigating' = investigating
    BY <2>2 DEF ActiveIsFirst, InvestigationInv
  <2>3. CASE /\ investigating # None
             /\ investigating' = [investigating EXCEPT !.next = "RECORD_FAILURE"]
    <3>1. investigating \in Investigation!Active /\ investigating.id <= started
      BY <2>3 DEF InvestigationInv, ActiveIsFirst
    <3>2. /\ investigating' \in Investigation!Active
          /\ investigating'.id = investigating.id
          /\ Started(investigating') = Started(investigating)
      BY <2>3, <3>1 DEF Investigation!Active, Started
    <3>3. PICK rest \in Seq(Investigation!Record) :
            /\ records = InFront(Started(investigating), rest)
            /\ \A x \in Range(rest) : x.id # investigating.id
      BY <2>3 DEF InvestigationInv, ActiveIsFirst
    <3> QED BY <3>1, <3>2, <3>3 DEF ActiveIsFirst
  <2> QED BY <2>1, <2>2, <2>3
<1> QED BY <1>1 DEF InvestigationInv, Range

\* The process starts again with the rows of the table.
LEMMA RestartKeeps ==
  ASSUME InvestigationInv, Investigation!Restart PROVE InvestigationInv'
<1> DEFINE C == Investigation!Completion
<1>1. /\ records' = recordRows /\ recordRows' = recordRows /\ started' = started
      /\ investigating' = None
  BY DEF Investigation!Restart
<1>2. recordRows \in Seq(C) /\ Len(recordRows) <= DeskRecords
  BY DEF InvestigationInv
<1>3. recordRows \in Seq(Investigation!Record)
  BY <1>2, CompletionIsRecord, SeqOfMore
<1>4. Begins(Only(recordRows, C), recordRows)
  BY <1>2, OnlyOfAll
<1> QED BY <1>1, <1>2, <1>3, <1>4 DEF InvestigationInv, ActiveIsFirst, Range

\* No investigation yet.
THEOREM InvestigationInit == Investigation!Init => InvestigationInv
<1> SUFFICES ASSUME Investigation!Init PROVE InvestigationInv
  OBVIOUS
<1>1. /\ records = <<>> /\ recordRows = <<>> /\ investigating = None /\ started = 0
  BY DEF Investigation!Init
<1>2. /\ Range(<<>>) = {} /\ Len(<<>>) = 0 /\ <<>> \in Seq(Investigation!Record)
      /\ <<>> \in Seq(Investigation!Completion)
  BY DEF Range
<1>3. DeskRecords \in Nat
  BY InvestigationAssumption DEF Investigation!RetentionAssumption
<1>4. Begins(Only(<<>>, Investigation!Completion), <<>>)
  BY <1>2, OnlyOfAll
<1> QED BY <1>1, <1>2, <1>3, <1>4 DEF InvestigationInv, ActiveIsFirst

\* Every handler of the desk keeps the active record first and the lists alike.
THEOREM InvestigationStep ==
  ASSUME InvestigationInv, [Investigation!Next]_(Investigation!vars) PROVE InvestigationInv'
<1>1. ASSUME NEW t \in Tasks, NEW s \in Scopes, Investigation!Begin(t, s)
      PROVE  InvestigationInv'
  BY <1>1, BeginKeeps
<1>2. CASE Investigation!Report
  <2>1. investigating # None /\ started' = started
    BY <1>2 DEF Investigation!Report
  <2>2. CASE Investigation!Finish("PASS") /\ investigating' = None
    BY <2>1, <2>2, FinishKeeps
  <2>3. CASE /\ Investigation!SaveFails("PASS")
             /\ investigating' = [investigating EXCEPT !.next = "RECORD_FAILURE"]
    BY <2>1, <2>3, HandlingKeeps DEF Investigation!SaveFails
  <2> QED BY <1>2, <2>2, <2>3 DEF Investigation!Report
<1>3. CASE Investigation!InvestigatorFails
  BY <1>3, HandlingKeeps DEF Investigation!InvestigatorFails
<1>4. CASE Investigation!RecordFailure
  <2>1. investigating # None /\ started' = started /\ investigating' = None
    BY <1>4 DEF Investigation!RecordFailure, Investigation!FinishAndFree
  <2>2. CASE Investigation!Finish("FAILED")
    BY <2>1, <2>2, FinishKeeps
  <2>3. CASE Investigation!SaveFails("FAILED")
    BY <2>1, <2>3, HandlingKeeps DEF Investigation!SaveFails
  <2> QED BY <1>4, <2>2, <2>3 DEF Investigation!RecordFailure, Investigation!FinishAndFree
<1>5. CASE Investigation!Restart
  BY <1>5, RestartKeeps
<1>6. CASE UNCHANGED Investigation!vars
  BY <1>6, HandlingKeeps DEF Investigation!vars
<1> QED BY <1>1, <1>2, <1>3, <1>4, <1>5, <1>6 DEF Investigation!Next

\* What the desk shows as completed are the newest rows of its table in their
\* order, whichever save failed and whatever both have forgotten.
THEOREM MemoryStaysDurable == Investigation!Spec => []MemoryIsDurable
<1>1. InvestigationInv => MemoryIsDurable
  <2> SUFFICES ASSUME InvestigationInv PROVE MemoryIsDurable
    OBVIOUS
  <2>1. /\ records \in Seq(Investigation!Record)
        /\ recordRows \in Seq(Investigation!Record)
        /\ Begins(Only(records, Investigation!Completion), recordRows)
    BY CompletionIsRecord, SeqOfMore DEF InvestigationInv
  <2>2. Only(records, Investigation!Completion) \in Seq(Investigation!Record)
    BY <2>1, OnlyKeeps
  <2>3. IsPrefix(Only(records, Investigation!Completion), recordRows)
    BY <2>1, <2>2, BeginningIsPrefix
  <2> QED BY <2>3, CompletedRecords
      DEF MemoryIsDurable, Investigation!MemoryIsDurable, Investigation!IsPrefix, IsPrefix
<1> QED BY <1>1, InvestigationInit, InvestigationStep, PTL DEF Investigation!Spec

-----------------------------------------------------------------------------
(* The reviews *)

\* What the variables of the reviews are.
ReviewTypes ==
  /\ terms \in [{Contract[p] : p \in Proposals} -> Nat] /\ claims \in [Proposals -> Nat]
  /\ job \in [Proposals -> ReviewJob \union {None}]
  /\ active \in [Proposals -> ReviewJob \union {None}]
  /\ running \subseteq Proposals \X ReviewScope
  /\ passed \subseteq Proposals \X ReviewScope

\* s is a scope that p has or had.
WasScope(p, s) ==
  /\ s = ScopeOf(p, s.terms, s.claims)
  /\ s.terms <= terms[Contract[p]]
  /\ claims[p] = 0 => s.claims = 0

\* A job p may have: one that passed keeps the review that did.
Sound(p, j) ==
  /\ WasScope(p, j.scope)
  /\ j.status = "PASS" => j.outcome # None /\ <<p, j.outcome>> \in passed

AllSound(J) ==
  /\ J \in [Proposals -> ReviewJob \union {None}]
  /\ \A p \in Proposals : J[p] # None => Sound(p, J[p])

\* p is under automatic review in a scope it may share.
Held(p) == active[p] # None /\ job[p].status = "LEASED" /\ job[p].scope.claims = 0

ReviewInv ==
  /\ ReviewTypes
  /\ \A r \in running \union passed : WasScope(r[1], r[2])
  /\ \A p \in Proposals : job[p] # None => Sound(p, job[p])
  /\ \A p \in Proposals : active[p] # None => job[p] # None /\ WasScope(p, active[p].scope)
  /\ \A p, q \in Proposals :
       p # q /\ Contract[p] = Contract[q] /\ Held(p) /\ Held(q) => Reworded(Contract[p])

\* None is not one of the things it stands in for.
LEMMA NoneIsNoOther == None \notin Proposals /\ None \notin ReviewJob /\ None \notin ReviewScope
BY NoneAssumption

\* A set of numbers that is not empty has a least one.
LEMMA LeastProposal ==
  ASSUME NEW S \in SUBSET Proposals, S # {}
  PROVE  Min(S) \in S /\ \A x \in S : Min(S) <= x
<1> DEFINE f == [x \in S |-> x]
<1>1. IsFiniteSet(S)
  BY ConstantsAssumption, FS_Subset
<1>4. \A x \in S : f[x] = x /\ f[x] \in Int
  BY ConstantsAssumption
<1> HIDE DEF f
<1>2. PICK m \in S : \A x \in S : f[m] <= f[x]
  BY <1>1, <1>4, LeastValue
<1>3. \E n \in S : \A x \in S : n <= x
  BY <1>2, <1>4
<1> QED BY <1>3 DEF Min

\* The scope of a proposal is one it has.
LEMMA ScopeIsScope ==
  ASSUME ReviewTypes, NEW p \in Proposals
  PROVE  /\ Scope(p) \in ReviewScope /\ WasScope(p, Scope(p))
         /\ Scope(p).claims = claims[p] /\ Scope(p).terms = terms[Contract[p]]
         /\ Scope(p).contract = Contract[p]
BY DEF ReviewTypes, Scope, ScopeOf, ReviewScope, WasScope

\* The canonical proposal of a scope is one of those that deserve it most.
LEMMA CanonicalIsLeast ==
  ASSUME ReviewTypes, NEW J, NEW p \in Proposals
  PROVE  /\ CanonicalOf(J, p) \in Proposals
         /\ \A q \in Proposals :
              Scope(q) = Scope(p) => Rank(J, CanonicalOf(J, p)) <= Rank(J, q)
<1> DEFINE group == {q \in Proposals : Scope(q) = Scope(p)}
           f == [q \in group |-> Rank(J, q)]
           best == {q \in group : \A r \in group : Rank(J, q) <= Rank(J, r)}
<1>1. group \subseteq Proposals /\ group # {} /\ IsFiniteSet(group)
  BY ConstantsAssumption, FS_Subset
<1>2. \A q \in group : Rank(J, q) \in Int
  BY DEF Rank
<1>3. \A q \in group : f[q] = Rank(J, q) /\ f[q] \in Int
  BY <1>2
<1> HIDE DEF f
<1>4. PICK n \in group : \A k \in group : f[n] <= f[k]
  BY <1>1, <1>3, LeastValue
<1>5. n \in best
  BY <1>3, <1>4
<1>6. best \subseteq Proposals
  OBVIOUS
<1>7. CanonicalOf(J, p) = Min(best)
  BY DEF CanonicalOf
<1>8. Min(best) \in best
  BY <1>5, <1>6, LeastProposal
<1> QED BY <1>7, <1>8

\* A job is a duplicate of another proposal or of none.
LEMMA DuplicateIsProposal ==
  ASSUME ReviewTypes, NEW J, NEW p \in Proposals
  PROVE  /\ DuplicateOf(J, p) \in Proposals \union {None}
         /\ DuplicateOf(J, p) = None =>
              \/ ~Admitted(p) \/ CanonicalOf(J, p) = p \/ PassedNow(p)
              \/ J[p] # None /\ J[p].status = "PASS"
BY CanonicalIsLeast, NoneIsNoOther DEF DuplicateOf

\* What makes a job.
LEMMA JobOf ==
  ASSUME NEW status \in Statuses, NEW scope \in ReviewScope, NEW tries \in Nat,
         NEW dup \in Proposals \union {None}, NEW outcome \in ReviewScope \union {None},
         NEW lapsed \in BOOLEAN
  PROVE  [status |-> status, scope |-> scope, attempts |-> tries, dup |-> dup,
          outcome |-> outcome, lapsed |-> lapsed] \in ReviewJob
BY DEF ReviewJob

\* A job that starts over is in the scope of its proposal, and is not leased.
LEMMA CreatedFacts ==
  ASSUME ReviewTypes, NEW p \in Proposals, NEW dup \in Proposals \union {None}
  PROVE  LET d == Created(p, dup)
         IN  /\ d \in ReviewJob /\ d.scope = Scope(p) /\ Sound(p, d)
             /\ d.status \notin {"LEASED", "RETRY_WAIT"}
             /\ d.status = "PENDING" => ~PassedNow(p) /\ dup = None /\ Admitted(p)
<1> DEFINE d == Created(p, dup)
<1>1. Scope(p) \in ReviewScope /\ WasScope(p, Scope(p))
  BY ScopeIsScope
<1>2. d = [status |-> d.status, scope |-> Scope(p), attempts |-> 0, dup |-> d.dup,
           outcome |-> d.outcome, lapsed |-> FALSE]
  BY DEF Created, Fresh, Completed
<1>3. /\ d.status \in {"PASS", "RESEARCH_ONLY", "PENDING", "DUPLICATE_SCOPE"}
      /\ d.dup \in Proposals \union {None} /\ d.outcome \in ReviewScope \union {None}
      /\ d.status = "PENDING" => ~PassedNow(p) /\ dup = None /\ Admitted(p)
      /\ d.status = "PASS" => PassedNow(p) /\ d.outcome = Scope(p)
  BY <1>1 DEF Created, Fresh, Completed
<1> HIDE DEF d
<1>4. d \in ReviewJob
  <2>1. d.status \in Statuses
    BY <1>3 DEF Statuses, Terminal
  <2>2. 0 \in Nat /\ FALSE \in BOOLEAN
    OBVIOUS
  <2>3. [status |-> d.status, scope |-> Scope(p), attempts |-> 0, dup |-> d.dup,
         outcome |-> d.outcome, lapsed |-> FALSE] \in ReviewJob
    BY ONLY <1>1, <1>3, <2>1, <2>2, JobOf
  <2> QED BY ONLY <1>2, <2>3
<1>5. Sound(p, d)
  BY <1>1, <1>2, <1>3, NoneIsNoOther DEF Sound, PassedNow, Passed
<1>6. d.scope = Scope(p)
  BY <1>2
<1> QED BY <1>3, <1>4, <1>5, <1>6 DEF d

\* What becomes of a job keeps its scope, and is a job again.
LEMMA JobChanges ==
  ASSUME NEW j \in ReviewJob
  PROVE  /\ j.scope \in ReviewScope /\ j.status \in Statuses /\ j.attempts \in Nat
         /\ Completed(j) \in ReviewJob /\ Completed(j).scope = j.scope
         /\ Completed(j).status = "PASS" /\ Completed(j).outcome = j.scope
         /\ Waiting(j) \in ReviewJob /\ Waiting(j).scope = j.scope
         /\ Waiting(j).status = "RETRY_WAIT" /\ Waiting(j).lapsed = FALSE
         /\ Exhausted(j) \in ReviewJob /\ Exhausted(j).scope = j.scope
         /\ Exhausted(j).status = "EXHAUSTED"
         /\ Leased(j) \in ReviewJob /\ Leased(j).scope = j.scope
         /\ Leased(j).status = "LEASED"
<1>1. /\ j.scope \in ReviewScope /\ j.status \in Statuses /\ j.attempts \in Nat
      /\ j.dup \in Proposals \union {None} /\ j.outcome \in ReviewScope \union {None}
      /\ j.lapsed \in BOOLEAN
  BY DEF ReviewJob
<1>2. j = [status |-> j.status, scope |-> j.scope, attempts |-> j.attempts,
           dup |-> j.dup, outcome |-> j.outcome, lapsed |-> j.lapsed]
  BY DEF ReviewJob
<1>3. /\ {"PASS", "RETRY_WAIT", "EXHAUSTED", "LEASED"} \subseteq Statuses
      /\ j.attempts + 1 \in Nat /\ FALSE \in BOOLEAN
      /\ None \in Proposals \union {None} /\ j.scope \in ReviewScope \union {None}
  BY <1>1 DEF Statuses, Terminal
<1> DEFINE completed == [status |-> "PASS", scope |-> j.scope, attempts |-> j.attempts,
                         dup |-> None, outcome |-> j.scope, lapsed |-> FALSE]
           waiting == [status |-> "RETRY_WAIT", scope |-> j.scope,
                       attempts |-> j.attempts, dup |-> j.dup, outcome |-> j.outcome,
                       lapsed |-> FALSE]
           exhausted == [status |-> "EXHAUSTED", scope |-> j.scope,
                         attempts |-> j.attempts, dup |-> j.dup, outcome |-> j.outcome,
                         lapsed |-> FALSE]
           leased == [status |-> "LEASED", scope |-> j.scope,
                      attempts |-> j.attempts + 1, dup |-> j.dup, outcome |-> j.outcome,
                      lapsed |-> FALSE]
<1>4. ASSUME NEW d, d = Completed(j) PROVE d = completed
  BY <1>2, <1>4 DEF Completed
<1>5. ASSUME NEW d, d = Waiting(j) PROVE d = waiting
  BY <1>2, <1>5 DEF Waiting
<1>6. ASSUME NEW d, d = Exhausted(j) PROVE d = exhausted
  BY <1>2, <1>6 DEF Exhausted
<1>7. ASSUME NEW d, d = Leased(j) PROVE d = leased
  BY <1>2, <1>7 DEF Leased
<1>8. completed \in ReviewJob /\ waiting \in ReviewJob
  BY ONLY <1>1, <1>3, JobOf
<1>9. exhausted \in ReviewJob /\ leased \in ReviewJob
  BY ONLY <1>1, <1>3, JobOf
<1>10. /\ completed.scope = j.scope /\ completed.status = "PASS"
       /\ completed.outcome = j.scope /\ waiting.scope = j.scope
       /\ waiting.status = "RETRY_WAIT" /\ waiting.lapsed = FALSE
       /\ exhausted.scope = j.scope /\ exhausted.status = "EXHAUSTED"
       /\ leased.scope = j.scope /\ leased.status = "LEASED"
  OBVIOUS
<1> HIDE DEF completed, waiting, exhausted, leased
<1>11. Completed(j) = completed /\ Waiting(j) = waiting
  BY ONLY <1>4, <1>5
<1>12. Exhausted(j) = exhausted /\ Leased(j) = leased
  BY ONLY <1>6, <1>7
<1> QED BY <1>1, <1>8, <1>9, <1>10, <1>11, <1>12

\* What reconcile decides about a job: the scope is the current one, a leased
\* job was leased before, and one that waits to be reviewed is no duplicate.
LEMMA DecidedFacts ==
  ASSUME ReviewTypes, NEW J, AllSound(J), NEW p \in Proposals, Decided(J, p) # None
  PROVE  LET d == Decided(J, p)
         IN  /\ d \in ReviewJob /\ d.scope = Scope(p) /\ Sound(p, d)
             /\ d.status = "LEASED" => J[p] # None /\ J[p].status = "LEASED"
             /\ d.status \in {"PENDING", "RETRY_WAIT"} =>
                  /\ Admitted(p) /\ ~PassedNow(p) /\ DuplicateOf(J, p) = None
                  /\ J[p] # None => J[p].status # "LEASED"
<1> DEFINE d == Decided(J, p)
           j == J[p]
           dup == DuplicateOf(J, p)
           Fine(x) == /\ x \in ReviewJob /\ x.scope = Scope(p) /\ Sound(p, x)
                      /\ x.status = "LEASED" => j # None /\ j.status = "LEASED"
                      /\ x.status \in {"PENDING", "RETRY_WAIT"} =>
                           /\ Admitted(p) /\ ~PassedNow(p) /\ dup = None
                           /\ j # None => j.status # "LEASED"
<1>1. /\ Scope(p) \in ReviewScope /\ WasScope(p, Scope(p))
      /\ dup \in Proposals \union {None}
  BY ScopeIsScope, DuplicateIsProposal
<1>2. ASSUME j = None \/ j.status # "LEASED", d = Created(p, dup) PROVE Fine(d)
  BY <1>1, <1>2, CreatedFacts
<1>3. CASE j = None
  BY <1>2, <1>3 DEF Decided
<1>4. CASE j # None
  <2>1. j \in ReviewJob /\ Sound(p, j)
    BY <1>4 DEF AllSound
  <2>2. /\ j.scope \in ReviewScope /\ j.status \in Statuses /\ j.attempts \in Nat
        /\ j.dup \in Proposals \union {None} /\ j.outcome \in ReviewScope \union {None}
        /\ j.lapsed \in BOOLEAN
        /\ j = [status |-> j.status, scope |-> j.scope, attempts |-> j.attempts,
                dup |-> j.dup, outcome |-> j.outcome, lapsed |-> j.lapsed]
    BY <2>1 DEF ReviewJob
  <2>3. {"PENDING", "RESEARCH_ONLY", "DUPLICATE_SCOPE"} \subseteq Statuses
    BY DEF Statuses, Terminal
  <2>4. FALSE \in BOOLEAN /\ None \in ReviewScope \union {None}
        /\ None \in Proposals \union {None}
    OBVIOUS
  <2> DEFINE moved == j.scope # Scope(p) /\ j.status # "LEASED" /\ ~PassedNow(p)
             done == PassedNow(p) /\ j.status # "PASS"
  <2>5. CASE moved
    BY <1>2, <1>4, <2>5 DEF Decided, Reopened
  <2>6. CASE ~moved /\ done
    <3>1. d = Completed(j) /\ j.scope = Scope(p)
      BY <1>4, <2>6 DEF Decided
    <3>2. /\ Completed(j) \in ReviewJob /\ Completed(j).scope = j.scope
          /\ Completed(j).status = "PASS" /\ Completed(j).outcome = j.scope
      BY <2>1, JobChanges
    <3>3. Sound(p, d)
      BY <1>1, <2>6, <3>1, <3>2, NoneIsNoOther DEF Sound, PassedNow, Passed
    <3> QED BY <3>1, <3>2, <3>3
  <2>7. CASE ~moved /\ ~done
    <3>1. CASE ~Admitted(p) /\ j.status \notin {"PASS", "LEASED", "RESEARCH_ONLY"}
      <4>1. d = [j EXCEPT !.status = "RESEARCH_ONLY", !.dup = None,
                          !.outcome = None, !.lapsed = FALSE]
        BY <1>4, <2>7, <3>1 DEF Decided
      <4>2. d = [status |-> "RESEARCH_ONLY", scope |-> j.scope, attempts |-> j.attempts,
                 dup |-> None, outcome |-> None, lapsed |-> FALSE]
        BY <2>2, <4>1
      <4>3. j.scope = Scope(p)
        BY <2>7, <3>1
      <4>4. [status |-> "RESEARCH_ONLY", scope |-> j.scope, attempts |-> j.attempts,
             dup |-> None, outcome |-> None, lapsed |-> FALSE] \in ReviewJob
        BY ONLY <2>2, <2>3, <2>4, JobOf
      <4> QED BY <1>1, <4>2, <4>3, <4>4 DEF Sound
    <3>2. CASE /\ ~(~Admitted(p) /\ j.status \notin {"PASS", "LEASED", "RESEARCH_ONLY"})
               /\ Admitted(p) /\ dup = None /\ j.status = "DUPLICATE_SCOPE"
      <4>1. d = [j EXCEPT !.status = "PENDING", !.dup = None]
        BY <1>4, <2>7, <3>2 DEF Decided
      <4>2. d = [status |-> "PENDING", scope |-> j.scope, attempts |-> j.attempts,
                 dup |-> None, outcome |-> j.outcome, lapsed |-> j.lapsed]
        BY <2>2, <4>1
      <4>3. j.scope = Scope(p) /\ ~PassedNow(p)
        BY <2>7, <3>2
      <4>4. d \in ReviewJob
        BY ONLY <2>2, <2>3, <2>4, <4>2, JobOf
      <4> QED BY <1>1, <3>2, <4>2, <4>3, <4>4 DEF Sound
    <3>3. CASE /\ ~(~Admitted(p) /\ j.status \notin {"PASS", "LEASED", "RESEARCH_ONLY"})
               /\ ~(Admitted(p) /\ dup = None /\ j.status = "DUPLICATE_SCOPE")
               /\ dup # None /\ j.status \notin {"PASS", "LEASED", "DUPLICATE_SCOPE"}
      <4>1. d = [j EXCEPT !.status = "DUPLICATE_SCOPE", !.dup = dup,
                          !.outcome = None, !.lapsed = FALSE]
        BY <1>4, <2>7, <3>3 DEF Decided
      <4>2. d = [status |-> "DUPLICATE_SCOPE", scope |-> j.scope,
                 attempts |-> j.attempts, dup |-> dup, outcome |-> None,
                 lapsed |-> FALSE]
        BY <2>2, <4>1
      <4>3. j.scope = Scope(p)
        BY <2>7, <3>3
      <4>4. [status |-> "DUPLICATE_SCOPE", scope |-> j.scope,
             attempts |-> j.attempts, dup |-> dup, outcome |-> None,
             lapsed |-> FALSE] \in ReviewJob
        BY ONLY <1>1, <2>2, <2>3, <2>4, JobOf
      <4> QED BY <1>1, <4>2, <4>3, <4>4 DEF Sound
    <3>4. CASE /\ ~(~Admitted(p) /\ j.status \notin {"PASS", "LEASED", "RESEARCH_ONLY"})
               /\ ~(Admitted(p) /\ dup = None /\ j.status = "DUPLICATE_SCOPE")
               /\ ~(dup # None /\ j.status \notin {"PASS", "LEASED", "DUPLICATE_SCOPE"})
      <4>1. d = [j EXCEPT !.scope = Scope(p), !.dup = dup]
        BY <1>4, <2>7, <3>4 DEF Decided, Kept
      <4>2. d = [status |-> j.status, scope |-> Scope(p), attempts |-> j.attempts,
                 dup |-> dup, outcome |-> j.outcome, lapsed |-> j.lapsed]
        BY <2>2, <4>1
      <4>3. d \in ReviewJob
        BY ONLY <1>1, <2>2, <4>2, JobOf
      <4>4. Sound(p, d)
        BY <1>1, <2>1, <4>2 DEF Sound
      <4>5. d.status \in {"PENDING", "RETRY_WAIT"} =>
              Admitted(p) /\ ~PassedNow(p) /\ dup = None
        BY <2>7, <3>4, <4>2
      <4>6. d.status = j.status /\ d.scope = Scope(p)
        BY <4>2
      <4> QED BY <1>4, <4>3, <4>4, <4>5, <4>6
    <3> QED BY <3>1, <3>2, <3>3, <3>4
  <2> QED BY <2>5, <2>6, <2>7
<1> QED BY <1>3, <1>4

\* What a review that passed makes of the jobs keeps them in their scopes.
LEMMA ObservedFacts ==
  ASSUME ReviewInv
  PROVE  /\ AllSound(Observed)
         /\ \A p \in Proposals :
              /\ job[p] # None => Observed[p] # None
              /\ Observed[p] # None =>
                   /\ job[p] # None /\ Observed[p].scope = job[p].scope
                   /\ Observed[p].status = "LEASED" => job[p].status = "LEASED"
<1>1. ASSUME NEW p \in Proposals
      PROVE  /\ Observed[p] \in ReviewJob \union {None}
             /\ job[p] # None => Observed[p] # None
             /\ Observed[p] # None =>
                  /\ job[p] # None /\ Observed[p].scope = job[p].scope
                  /\ Observed[p].status = "LEASED" => job[p].status = "LEASED"
                  /\ Sound(p, Observed[p])
  <2>1. Observed[p] = IF Fulfilled(p) THEN Completed(job[p]) ELSE job[p]
    BY DEF Observed
  <2>2. job[p] \in ReviewJob \union {None} /\ (job[p] # None => Sound(p, job[p]))
    BY DEF ReviewInv, ReviewTypes
  <2>3. CASE ~Fulfilled(p)
    BY <2>1, <2>2, <2>3
  <2>4. CASE Fulfilled(p)
    <3>1. job[p] \in ReviewJob /\ <<p, job[p].scope>> \in passed /\ Sound(p, job[p])
      BY <2>2, <2>4 DEF Fulfilled, Passed
    <3>2. /\ Completed(job[p]) \in ReviewJob /\ Completed(job[p]).scope = job[p].scope
          /\ Completed(job[p]).status = "PASS" /\ job[p].scope \in ReviewScope
          /\ Completed(job[p]).outcome = job[p].scope
      BY <3>1, JobChanges
    <3>3. Sound(p, Completed(job[p]))
      BY <3>1, <3>2, NoneIsNoOther DEF Sound
    <3> QED BY <2>1, <2>4, <3>1, <3>2, <3>3, NoneIsNoOther
  <2> QED BY <2>3, <2>4
<1>2. Observed = [p \in Proposals |-> Observed[p]]
  BY DEF Observed
<1> QED BY <1>1, <1>2 DEF AllSound

\* What reconcile writes: sound jobs, none of them newly leased, and when it
\* does not throw every job is in the scope of its proposal.
LEMMA ReconciledFacts ==
  ASSUME ReviewInv, NEW J, J = Observed, NEW D, D = Decisions(J), NEW K, K = Reconciled(J, D)
  PROVE  /\ AllSound(K)
         /\ \A p \in Proposals :
              /\ job[p] # None => K[p] # None
              /\ K[p] # None /\ K[p].status = "LEASED" =>
                   /\ job[p] # None /\ job[p].status = "LEASED"
                   /\ K[p].scope.claims = 0 => job[p].scope.claims = 0
              /\ Throwing(D) = {} =>
                   /\ K[p] # None /\ K[p].scope = Scope(p)
                   /\ K[p].status = "LEASED" => J[p] # None /\ J[p].status = "LEASED"
                   /\ p \in Due(K) =>
                        /\ Admitted(p) /\ ~PassedNow(p) /\ DuplicateOf(J, p) = None
                        /\ J[p] # None => J[p].status # "LEASED"
<1>1. /\ ReviewTypes /\ AllSound(J)
      /\ \A p \in Proposals :
           /\ job[p] # None => J[p] # None
           /\ J[p] # None =>
                /\ job[p] # None /\ J[p].scope = job[p].scope
                /\ J[p].status = "LEASED" => job[p].status = "LEASED"
  BY ObservedFacts DEF ReviewInv
<1>2. ASSUME NEW p \in Proposals
      PROVE  /\ K[p] \in ReviewJob \union {None}
             /\ K[p] # None => Sound(p, K[p])
             /\ job[p] # None => K[p] # None
             /\ K[p] # None /\ K[p].status = "LEASED" =>
                  /\ job[p] # None /\ job[p].status = "LEASED"
                  /\ K[p].scope.claims = 0 => job[p].scope.claims = 0
             /\ Throwing(D) = {} =>
                  /\ K[p] # None /\ K[p].scope = Scope(p)
                  /\ K[p].status = "LEASED" => J[p] # None /\ J[p].status = "LEASED"
                  /\ p \in Due(K) =>
                       /\ Admitted(p) /\ ~PassedNow(p) /\ DuplicateOf(J, p) = None
                       /\ J[p] # None => J[p].status # "LEASED"
  <2>1. K[p] = IF Throwing(D) = {} THEN Recovered(p, D[p])
               ELSE IF p < Min(Throwing(D)) THEN D[p] ELSE J[p]
    BY DEF Reconciled
  <2>2. /\ D[p] = Decided(J, p)
        /\ J[p] \in ReviewJob \union {None} /\ (J[p] # None => Sound(p, J[p]))
        /\ claims[p] = 0 /\ J[p] # None => J[p].scope.claims = 0
        /\ Scope(p).claims = claims[p]
    BY <1>1, ScopeIsScope DEF Decisions, AllSound, Sound, WasScope
  <2>3. D[p] # None =>
          /\ D[p] \in ReviewJob /\ D[p].scope = Scope(p) /\ Sound(p, D[p])
          /\ D[p].status = "LEASED" => J[p] # None /\ J[p].status = "LEASED"
          /\ D[p].status \in {"PENDING", "RETRY_WAIT"} =>
               /\ Admitted(p) /\ ~PassedNow(p) /\ DuplicateOf(J, p) = None
               /\ J[p] # None => J[p].status # "LEASED"
    BY <1>1, <2>2, DecidedFacts
  <2>4. CASE Throwing(D) = {}
    <3>1. D[p] # None /\ K[p] = Recovered(p, D[p])
      BY <2>1, <2>4 DEF Throwing
    <3>2. CASE ~Lapsed(p, D[p])
      <4>1. K[p] = D[p]
        BY <3>1, <3>2 DEF Recovered
      <4> QED BY <1>1, <2>2, <2>3, <3>1, <4>1 DEF Due
    <3>3. CASE Lapsed(p, D[p])
      <4>1. /\ D[p].scope \in ReviewScope
            /\ Completed(D[p]) \in ReviewJob /\ Completed(D[p]).scope = D[p].scope
            /\ Completed(D[p]).status = "PASS" /\ Completed(D[p]).outcome = D[p].scope
            /\ Waiting(D[p]) \in ReviewJob /\ Waiting(D[p]).scope = D[p].scope
            /\ Waiting(D[p]).status = "RETRY_WAIT" /\ Waiting(D[p]).lapsed = FALSE
            /\ Exhausted(D[p]) \in ReviewJob /\ Exhausted(D[p]).scope = D[p].scope
            /\ Exhausted(D[p]).status = "EXHAUSTED"
        BY <2>3, <3>1, JobChanges
      <4>2. CASE Passed(p, D[p].scope)
        <5>1. K[p] = Completed(D[p])
          BY <3>1, <3>3, <4>2 DEF Recovered
        <5>2. Sound(p, K[p])
          BY <2>3, <3>1, <4>1, <4>2, <5>1, NoneIsNoOther DEF Sound, Passed
        <5> QED BY <2>3, <2>4, <3>1, <4>1, <5>1, <5>2, NoneIsNoOther DEF Due
      <4>3. CASE ~Passed(p, D[p].scope)
        <5>1. K[p] \in {Exhausted(D[p]), Waiting(D[p])}
          BY <3>1, <3>3, <4>3 DEF Recovered
        <5>2. Sound(p, K[p])
          BY <2>3, <3>1, <4>1, <5>1 DEF Sound
        <5>3. p \notin Due(K) /\ K[p].status # "LEASED"
          BY <4>1, <5>1 DEF Due
        <5> QED BY <2>3, <2>4, <3>1, <4>1, <5>1, <5>2, <5>3, NoneIsNoOther
      <4> QED BY <4>2, <4>3
    <3> QED BY <3>2, <3>3
  <2>5. CASE Throwing(D) # {} /\ p < Min(Throwing(D))
    <3>1. K[p] = D[p]
      BY <2>1, <2>5
    <3>2. Throwing(D) \subseteq Proposals
      BY DEF Throwing
    <3>3. p \notin Throwing(D)
      <4>1. \A x \in Throwing(D) : Min(Throwing(D)) <= x
        BY <2>5, <3>2, LeastProposal
      <4>2. Min(Throwing(D)) \in Nat /\ p \in Nat
        BY <2>5, <3>2, LeastProposal, ConstantsAssumption
      <4> QED BY <2>5, <4>1, <4>2
    <3>4. D[p] # None
      BY <3>3 DEF Throwing
    <3> QED BY <1>1, <2>2, <2>3, <2>5, <3>1, <3>4
  <2>6. CASE Throwing(D) # {} /\ ~(p < Min(Throwing(D)))
    <3>1. K[p] = J[p]
      BY <2>1, <2>6
    <3> QED BY <1>1, <2>2, <2>6, <3>1
  <2> QED BY <2>4, <2>5, <2>6
<1>3. K = [p \in Proposals |-> K[p]]
  BY DEF Reconciled
<1> QED BY <1>2, <1>3 DEF AllSound

\* A job that passed, but not in the scope its proposal has now, was reviewed
\* before its contract was reworded.
LEMMA PassedBefore ==
  ASSUME ReviewInv, NEW J, AllSound(J), NEW p \in Proposals, J[p] # None,
         J[p].status = "PASS", ~PassedNow(p), claims[p] = 0
  PROVE  Reworded(Contract[p])
<1> DEFINE s == J[p].outcome
           r == <<p, s>>
<1>1. r \in passed
  BY DEF AllSound, Sound
<1>2. WasScope(p, s) /\ s \in ReviewScope
  BY <1>1 DEF ReviewInv, ReviewTypes
<1>3. s = ScopeOf(p, s.terms, 0) /\ s.terms <= terms[Contract[p]] /\ s.contract = Contract[p]
  BY <1>2 DEF WasScope, ScopeOf
<1>4. s.terms # terms[Contract[p]]
  BY <1>1, <1>3 DEF PassedNow, Passed, Scope
<1>5. s.terms \in Nat /\ terms[Contract[p]] \in Nat
  BY <1>2 DEF ReviewInv, ReviewTypes, ReviewScope
<1>6. s.terms < terms[Contract[p]]
  BY <1>3, <1>4, <1>5
<1>7. r[2] = s
  OBVIOUS
<1> HIDE DEF r, s
<1> QED BY <1>1, <1>3, <1>6, <1>7 DEF Reworded

\* Of the proposals of one scope only the canonical one is dispatched, and only
\* if none of them is leased, unless the contract was reworded.
LEMMA DueFacts ==
  ASSUME ReviewInv, NEW J, J = Observed, NEW D, D = Decisions(J), NEW K, K = Reconciled(J, D),
         Throwing(D) = {}, NEW p \in Due(K), NEW q \in Proposals, p # q,
         Contract[p] = Contract[q], claims[p] = 0, claims[q] = 0,
         q \in Due(K) \/ K[q].status = "LEASED"
  PROVE  Reworded(Contract[p])
<1>1. /\ p \in Proposals /\ AllSound(J) /\ ReviewTypes
      /\ Admitted(p) /\ ~PassedNow(p) /\ DuplicateOf(J, p) = None
      /\ J[p] # None => J[p].status # "LEASED"
  BY ReconciledFacts, ObservedFacts DEF Due, ReviewInv
<1>2. Scope(p) = Scope(q)
  BY DEF Scope, ScopeOf
<1>3. CanonicalOf(J, p) = p \/ Reworded(Contract[p])
  BY <1>1, DuplicateIsProposal, PassedBefore
<1>4. CASE q \in Due(K)
  <2>1. Admitted(q) /\ ~PassedNow(q) /\ DuplicateOf(J, q) = None
    BY <1>4, ReconciledFacts
  <2>2. CanonicalOf(J, q) = q \/ Reworded(Contract[q])
    BY <1>1, <2>1, DuplicateIsProposal, PassedBefore
  <2>3. CanonicalOf(J, p) = CanonicalOf(J, q)
    BY <1>2 DEF CanonicalOf
  <2> QED BY <1>3, <2>2, <2>3
<1>5. CASE K[q].status = "LEASED"
  <2>1. J[q] # None /\ J[q].status = "LEASED"
    BY <1>5, ReconciledFacts
  <2>2. Rank(J, q) <= 1
    BY <2>1 DEF Rank
  <2>3. CASE CanonicalOf(J, p) = p
    <3>1. Rank(J, p) <= Rank(J, q)
      BY <1>1, <1>2, <2>3, CanonicalIsLeast
    <3>2. Rank(J, p) \in Int /\ Rank(J, q) \in Int
      BY DEF Rank
    <3>3. Rank(J, p) <= 1
      BY <2>2, <3>1, <3>2
    <3>4. J[p] # None /\ J[p].status = "PASS"
      BY <1>1, <3>3 DEF Rank
    <3> QED BY <1>1, <3>4, PassedBefore
  <2> QED BY <1>3, <2>3
<1> QED BY <1>4, <1>5

\* A step that writes what reconcile made of the jobs, dispatches some that are
\* due, and starts reviews of proposals in their scopes.
LEMMA WrittenJobs ==
  ASSUME ReviewInv, NEW J, J = Observed, NEW D, D = Decisions(J), NEW K, K = Reconciled(J, D),
         NEW sent \in SUBSET Proposals, sent # {} => Throwing(D) = {} /\ sent \subseteq Due(K),
         job' = [p \in Proposals |-> IF p \in sent THEN Leased(K[p]) ELSE K[p]],
         active' = [p \in Proposals |-> IF p \in sent THEN job'[p] ELSE active[p]],
         running' \subseteq running \union {<<p, Scope(p)>> : p \in Proposals},
         UNCHANGED <<terms, claims, passed>>
  PROVE  ReviewInv'
<1>1. /\ AllSound(K)
      /\ \A p \in Proposals :
           /\ job[p] # None => K[p] # None
           /\ K[p] # None /\ K[p].status = "LEASED" =>
                /\ job[p] # None /\ job[p].status = "LEASED"
                /\ K[p].scope.claims = 0 => job[p].scope.claims = 0
           /\ Throwing(D) = {} => K[p] # None /\ K[p].scope = Scope(p)
  BY ReconciledFacts
<1>4. ASSUME NEW p \in sent
      PROVE  /\ p \in Proposals /\ K[p] # None /\ K[p] \in ReviewJob
             /\ job'[p] \in ReviewJob /\ job'[p].status = "LEASED" /\ job'[p] # None
             /\ job'[p].scope = Scope(p) /\ Sound(p, job'[p]) /\ active'[p] = job'[p]
  <2>1. p \in Proposals /\ K[p] # None /\ K[p] \in ReviewJob /\ K[p].scope = Scope(p)
    BY <1>1 DEF AllSound
  <2>2. /\ Leased(K[p]) \in ReviewJob /\ Leased(K[p]).scope = K[p].scope
        /\ Leased(K[p]).status = "LEASED"
    BY <2>1, JobChanges
  <2>3. WasScope(p, Scope(p))
    BY <2>1, ScopeIsScope DEF ReviewInv
  <2>4. job'[p] = Leased(K[p]) /\ active'[p] = job'[p]
    BY <2>1
  <2> QED BY <2>1, <2>2, <2>3, <2>4, NoneIsNoOther DEF Sound
<1>5. ASSUME NEW p \in Proposals, p \notin sent
      PROVE  /\ job'[p] = K[p] /\ active'[p] = active[p]
             /\ job'[p] \in ReviewJob \union {None}
             /\ job[p] # None => job'[p] # None
             /\ job'[p] # None => Sound(p, job'[p])
  BY <1>1, <1>5 DEF AllSound
<1>6. ReviewTypes'
  <2>1. \A p \in Proposals : <<p, Scope(p)>> \in Proposals \X ReviewScope
    BY ScopeIsScope DEF ReviewInv
  <2>2. running' \subseteq Proposals \X ReviewScope
    BY <2>1 DEF ReviewInv, ReviewTypes
  <2>3. \A p \in Proposals : active[p] \in ReviewJob \union {None}
    BY DEF ReviewInv, ReviewTypes
  <2>4. \A p \in Proposals : job'[p] \in ReviewJob \union {None}
    BY <1>4, <1>5
  <2>5. \A p \in Proposals : active'[p] \in ReviewJob \union {None}
    BY <1>4, <1>5, <2>3
  <2>6. job' \in [Proposals -> ReviewJob \union {None}]
    BY <2>4
  <2>7. active' \in [Proposals -> ReviewJob \union {None}]
    BY <2>5
  <2> QED BY <2>2, <2>6, <2>7 DEF ReviewInv, ReviewTypes
<1>7. (\A r \in running \union passed : WasScope(r[1], r[2]))'
  <2>1. \A p \in Proposals : WasScope(p, Scope(p))
    BY ScopeIsScope DEF ReviewInv
  <2>2. \A r \in running \union passed : WasScope(r[1], r[2]) /\ r[1] \in Proposals
    BY DEF ReviewInv, ReviewTypes
  <2>3. \A r \in running' \union passed' : WasScope(r[1], r[2]) /\ r[1] \in Proposals
    BY <2>1, <2>2
  <2> QED BY <2>3 DEF WasScope
<1>8. (\A p \in Proposals : job[p] # None => Sound(p, job[p]))'
  <2>1. \A p \in Proposals : job'[p] # None => Sound(p, job'[p])
    BY <1>4, <1>5
  <2> QED BY <2>1 DEF Sound, WasScope
<1>9. (\A p \in Proposals : active[p] # None => job[p] # None /\ WasScope(p, active[p].scope))'
  <2>1. \A p \in sent : job'[p] # None /\ WasScope(p, active'[p].scope)
    BY <1>4 DEF Sound
  <2>2. ASSUME NEW p \in Proposals, p \notin sent, active'[p] # None
        PROVE  job'[p] # None /\ WasScope(p, active'[p].scope)
    BY <1>5, <2>2 DEF ReviewInv
  <2>3. \A p \in Proposals :
          active'[p] # None => job'[p] # None /\ WasScope(p, active'[p].scope)
    BY <2>1, <2>2
  <2> QED BY <2>3 DEF WasScope
<1>10. \A c : Reworded(c)' <=> Reworded(c)
  BY DEF Reworded
<1>11. ASSUME NEW p \in Proposals, p \notin sent, Held(p)'
       PROVE  Held(p) /\ K[p] # None /\ K[p].status = "LEASED"
              /\ (Throwing(D) = {} => claims[p] = 0)
  <2>1. /\ active[p] # None /\ K[p].status = "LEASED" /\ K[p].scope.claims = 0
        /\ job[p] # None /\ K[p] # None
    BY <1>5, <1>11 DEF Held, ReviewInv
  <2>2. Throwing(D) = {} => claims[p] = 0
    BY <1>1, <2>1, ScopeIsScope DEF ReviewInv
  <2> QED BY <1>1, <2>1, <2>2 DEF Held
<1>12. ASSUME NEW p \in sent, Held(p)'
       PROVE  p \in Due(K) /\ claims[p] = 0 /\ Throwing(D) = {}
  BY <1>4, <1>12, ScopeIsScope DEF Held, ReviewInv
<1>13. ASSUME NEW p \in Proposals, NEW q \in Proposals, p # q, Contract[p] = Contract[q],
              Held(p)', Held(q)'
       PROVE  Reworded(Contract[p])
  <2>1. CASE p \in sent
    <3>1. q \in Due(K) \/ K[q].status = "LEASED"
      BY <1>11, <1>12, <1>13
    <3>2. claims[q] = 0
      BY <1>11, <1>12, <1>13, <2>1
    <3> QED BY <1>12, <1>13, <2>1, <3>1, <3>2, DueFacts
  <2>2. CASE p \notin sent /\ q \in sent
    <3>1. K[p].status = "LEASED" /\ claims[p] = 0
      BY <1>11, <1>12, <1>13, <2>2
    <3>2. Reworded(Contract[q])
      BY <1>12, <1>13, <2>2, <3>1, DueFacts
    <3> QED BY <1>13, <3>2
  <2>3. CASE p \notin sent /\ q \notin sent
    BY <1>11, <1>13, <2>3 DEF ReviewInv
  <2> QED BY <2>1, <2>2, <2>3
<1>14. (\A p, q \in Proposals :
          p # q /\ Contract[p] = Contract[q] /\ Held(p) /\ Held(q) => Reworded(Contract[p]))'
  BY <1>10, <1>13
<1> QED BY <1>6, <1>7, <1>8, <1>9, <1>14 DEF ReviewInv

\* A reconciliation that dispatches nothing.
LEMMA ReconcilingKeeps ==
  ASSUME ReviewInv, Reconciling,
         running' \subseteq running \union {<<p, Scope(p)>> : p \in Proposals},
         UNCHANGED <<terms, claims, active, passed>>
  PROVE  ReviewInv'
<1> DEFINE J == Observed
           D == Decisions(J)
           K == Reconciled(J, D)
<1>1. job' = K
  BY DEF Reconciling
<1>2. K = [p \in Proposals |-> K[p]]
  BY DEF Reconciled
<1>3. active = [p \in Proposals |-> active[p]]
  BY DEF ReviewInv, ReviewTypes
<1> DEFINE sent == {}
<1>4. /\ job' = [p \in Proposals |-> IF p \in sent THEN Leased(K[p]) ELSE K[p]]
      /\ active' = [p \in Proposals |-> IF p \in sent THEN job'[p] ELSE active[p]]
  <2> HIDE DEF K
  <2> QED BY <1>1, <1>2, <1>3
<1>5. sent \in SUBSET Proposals /\ (sent # {} => Throwing(D) = {} /\ sent \subseteq Due(K))
  OBVIOUS
<1> HIDE DEF J, D, K, sent
<1>6. J = Observed /\ D = Decisions(J) /\ K = Reconciled(J, D)
  BY DEF J, D, K
<1> QED BY ONLY <1>4, <1>5, <1>6, WrittenJobs, ReviewInv,
              running' \subseteq running \union {<<p, Scope(p)>> : p \in Proposals},
              UNCHANGED <<terms, claims, active, passed>>

\* A tick.
LEMMA TickKeeps == ASSUME ReviewInv, Tick PROVE ReviewInv'
<1> DEFINE J == Observed
           D == Decisions(J)
           K == Reconciled(J, D)
           sent == IF Throwing(D) = {} /\ Available > 0 THEN Dispatched(K) ELSE {}
<1>1. /\ job' = [p \in Proposals |-> IF p \in sent THEN Leased(K[p]) ELSE K[p]]
      /\ active' = [p \in Proposals |-> IF p \in sent THEN job'[p] ELSE active[p]]
      /\ running' = running \union {<<p, K[p].scope>> : p \in sent}
      /\ UNCHANGED <<terms, claims, passed>>
  BY DEF Tick
<1>2. Dispatched(K) \subseteq Due(K) /\ Due(K) \subseteq Proposals
  BY DEF Dispatched, FirstOf, Due
<1>3. sent \in SUBSET Proposals /\ (sent # {} => Throwing(D) = {} /\ sent \subseteq Due(K))
  <2> HIDE DEF J, D, K
  <2> QED BY <1>2
<1> HIDE DEF J, D, K, sent
<1>4. J = Observed /\ D = Decisions(J) /\ K = Reconciled(J, D)
  BY DEF J, D, K
<1>5. \A p \in sent : K[p].scope = Scope(p)
  BY <1>3, <1>4, ReconciledFacts
<1>6. running' \subseteq running \union {<<p, Scope(p)>> : p \in Proposals}
  BY <1>1, <1>3, <1>5
<1> QED BY <1>1, <1>3, <1>4, <1>6, WrittenJobs

\* Time passes a lease or a retry delay.
LEMMA LapseKeeps ==
  ASSUME ReviewInv, NEW p \in Proposals, Lapse(p) PROVE ReviewInv'
<1>1. /\ job[p] \in ReviewJob /\ job' = [job EXCEPT ![p].lapsed = TRUE]
      /\ UNCHANGED <<terms, claims, active, running, passed>>
  BY DEF Lapse, ReviewInv, ReviewTypes
<1>2. /\ job'[p] \in ReviewJob /\ job'[p].status = job[p].status
      /\ job'[p].scope = job[p].scope /\ job'[p].outcome = job[p].outcome
  <2>1. job'[p] = [job[p] EXCEPT !.lapsed = TRUE]
    BY <1>1 DEF ReviewInv, ReviewTypes
  <2> DEFINE j == job[p]
  <2>2. /\ j.scope \in ReviewScope /\ j.status \in Statuses /\ j.attempts \in Nat
        /\ j.dup \in Proposals \union {None} /\ j.outcome \in ReviewScope \union {None}
        /\ TRUE \in BOOLEAN
        /\ j = [status |-> j.status, scope |-> j.scope, attempts |-> j.attempts,
                dup |-> j.dup, outcome |-> j.outcome, lapsed |-> j.lapsed]
    BY <1>1 DEF ReviewJob
  <2>3. job'[p] = [status |-> j.status, scope |-> j.scope, attempts |-> j.attempts,
                   dup |-> j.dup, outcome |-> j.outcome, lapsed |-> TRUE]
    BY ONLY <2>1, <2>2
  <2>4. [status |-> j.status, scope |-> j.scope, attempts |-> j.attempts,
         dup |-> j.dup, outcome |-> j.outcome, lapsed |-> TRUE] \in ReviewJob
    BY ONLY <2>2, JobOf
  <2> QED BY ONLY <2>3, <2>4
<1>3. \A q \in Proposals \ {p} : job'[q] = job[q]
  BY <1>1 DEF ReviewInv, ReviewTypes
<1>4. job[p] # None /\ job'[p] # None
  BY <1>1, <1>2, NoneIsNoOther
<1>5. ReviewTypes'
  <2>1. job' \in [Proposals -> ReviewJob \union {None}]
    BY <1>1, <1>2, <1>3 DEF ReviewInv, ReviewTypes
  <2> QED BY <1>1, <2>1 DEF ReviewInv, ReviewTypes
<1>6. (\A r \in running \union passed : WasScope(r[1], r[2]))'
  BY <1>1 DEF ReviewInv, WasScope
<1>7. (\A q \in Proposals : job[q] # None => Sound(q, job[q]))'
  BY <1>1, <1>2, <1>3, <1>4 DEF ReviewInv, Sound, WasScope
<1>8. (\A q \in Proposals : active[q] # None => job[q] # None /\ WasScope(q, active[q].scope))'
  BY <1>1, <1>3, <1>4 DEF ReviewInv, WasScope
<1>9. \A q \in Proposals : Held(q)' => Held(q)
  BY <1>1, <1>2, <1>3 DEF Held
<1>10. (\A a, b \in Proposals :
          a # b /\ Contract[a] = Contract[b] /\ Held(a) /\ Held(b) => Reworded(Contract[a]))'
  BY <1>1, <1>9 DEF ReviewInv, Reworded
<1> QED BY <1>5, <1>6, <1>7, <1>8, <1>10 DEF ReviewInv

\* The end of a review.
LEMMA ReviewEndKeeps ==
  ASSUME ReviewInv, NEW r \in running, NEW end, Finish(r, end) PROVE ReviewInv'
<1> DEFINE p == r[1]
           waited == active[p] # None /\ active[p].scope = r[2]
<1>1. /\ running' \subseteq running
      /\ passed \subseteq passed' /\ passed' \subseteq passed \union {r}
      /\ end = "PASS" => r \in passed'
      /\ UNCHANGED <<terms, claims>>
  BY DEF Finish
<1>2. /\ p \in Proposals /\ r = <<p, r[2]>> /\ r[2] \in ReviewScope
      /\ r \in Proposals \X ReviewScope /\ WasScope(p, r[2]) /\ r[2] # None
  BY NoneIsNoOther DEF ReviewInv, ReviewTypes
<1>3. ReviewTypes' /\ \A q \in Proposals : Held(q)' => Held(q)
  <2>1. CASE ~waited
    <3>1. UNCHANGED <<job, active>>
      BY <2>1 DEF Finish
    <3> QED BY <1>1, <1>2, <3>1 DEF ReviewInv, ReviewTypes, Held
  <2>2. CASE waited
    <3>1. /\ job' = [job EXCEPT ![p] = AfterEnd(active[p], end)]
          /\ active' = [active EXCEPT ![p] = None]
      BY <2>2 DEF Finish
    <3>2. AfterEnd(active[p], end) \in ReviewJob
      BY <1>2, <2>2, JobChanges DEF AfterEnd, ReviewInv, ReviewTypes
    <3>3. job' \in [Proposals -> ReviewJob \union {None}]
      BY <3>1, <3>2 DEF ReviewInv, ReviewTypes
    <3>4. active' \in [Proposals -> ReviewJob \union {None}]
      BY <3>1 DEF ReviewInv, ReviewTypes
    <3>5. \A q \in Proposals : Held(q)' => Held(q)
      BY <3>1 DEF ReviewInv, ReviewTypes, Held
    <3>6. running' \subseteq Proposals \X ReviewScope /\ passed' \subseteq Proposals \X ReviewScope
      BY <1>1, <1>2 DEF ReviewInv, ReviewTypes
    <3> QED BY <1>1, <3>3, <3>4, <3>5, <3>6 DEF ReviewInv, ReviewTypes
  <2> QED BY <2>1, <2>2
<1>4. (\A x \in running \union passed : WasScope(x[1], x[2]))'
  <2>1. \A x \in running' \union passed' : WasScope(x[1], x[2])
    BY <1>1, <1>2 DEF ReviewInv
  <2> QED BY <1>1, <2>1 DEF WasScope
<1>5. \A q \in Proposals :
        job'[q] # None => /\ WasScope(q, job'[q].scope)
                          /\ job'[q].status = "PASS" =>
                               job'[q].outcome # None /\ <<q, job'[q].outcome>> \in passed'
  <2>1. ASSUME NEW q \in Proposals, job'[q] = job[q], job'[q] # None
        PROVE  /\ WasScope(q, job'[q].scope)
               /\ job'[q].status = "PASS" =>
                    job'[q].outcome # None /\ <<q, job'[q].outcome>> \in passed'
    BY <1>1, <2>1 DEF ReviewInv, Sound
  <2>2. CASE ~waited
    <3>1. job' = job
      BY <2>2 DEF Finish
    <3> QED BY <2>1, <3>1
  <2>3. CASE waited
    <3>1. /\ job' = [job EXCEPT ![p] = AfterEnd(active[p], end)]
          /\ active[p] \in ReviewJob /\ active[p].scope = r[2]
      BY <1>2, <2>3 DEF Finish, ReviewInv, ReviewTypes
    <3>2. \A q \in Proposals \ {p} : job'[q] = job[q]
      BY <3>1 DEF ReviewInv, ReviewTypes
    <3>3. job'[p] = AfterEnd(active[p], end)
      BY <1>2, <3>1 DEF ReviewInv, ReviewTypes
    <3>4. /\ job'[p].scope = r[2]
          /\ job'[p].status = "PASS" => end = "PASS" /\ job'[p].outcome = r[2]
      <4> DEFINE j == active[p]
      <4>1. /\ Completed(j).scope = r[2] /\ Completed(j).outcome = r[2]
            /\ Waiting(j).scope = r[2] /\ Waiting(j).status # "PASS"
            /\ Exhausted(j).scope = r[2] /\ Exhausted(j).status # "PASS"
        BY <3>1, JobChanges
      <4>2. \/ end = "PASS" /\ job'[p] = Completed(j)
            \/ job'[p] \in {Waiting(j), Exhausted(j)}
        BY <3>3 DEF AfterEnd
      <4> QED BY <4>1, <4>2
    <3>5. /\ WasScope(p, job'[p].scope)
          /\ job'[p].status = "PASS" =>
               job'[p].outcome # None /\ <<p, job'[p].outcome>> \in passed'
      BY <1>1, <1>2, <3>4
    <3> QED BY <2>1, <3>2, <3>5
  <2> QED BY <2>2, <2>3
<1>6. (\A q \in Proposals : job[q] # None => Sound(q, job[q]))'
  BY <1>1, <1>5 DEF Sound, WasScope
<1>7. \A q \in Proposals :
        active'[q] # None => job'[q] # None /\ WasScope(q, active'[q].scope)
  <2>1. \A q \in Proposals : active'[q] # None => active'[q] = active[q] /\ job'[q] = job[q]
    BY DEF Finish, ReviewInv, ReviewTypes
  <2> QED BY <2>1 DEF ReviewInv
<1>8. (\A q \in Proposals : active[q] # None => job[q] # None /\ WasScope(q, active[q].scope))'
  BY <1>1, <1>7 DEF WasScope
<1>9. \A c : Reworded(c) => Reworded(c)'
  BY <1>1 DEF Reworded
<1>10. (\A a, b \in Proposals :
          a # b /\ Contract[a] = Contract[b] /\ Held(a) /\ Held(b) => Reworded(Contract[a]))'
  BY <1>3, <1>9 DEF ReviewInv
<1> QED BY <1>3, <1>4, <1>6, <1>8, <1>10 DEF ReviewInv

\* What a proposal is about changes, or the process ends.
LEMMA WorldKeeps ==
  ASSUME ReviewInv,
         \/ \E c \in DOMAIN terms : Reword(c)
         \/ \E p \in Proposals, set \in 1..MaxClaims : Enrich(p, set)
         \/ Crash
  PROVE  ReviewInv'
<1>1. CASE \E c \in DOMAIN terms : Reword(c)
  <2>1. PICK c \in DOMAIN terms : Reword(c)
    BY <1>1
  <2>2. /\ terms' \in [{Contract[p] : p \in Proposals} -> Nat]
        /\ \A x \in DOMAIN terms : terms[x] <= terms'[x] /\ terms[x] \in Nat /\ terms'[x] \in Nat
        /\ DOMAIN terms = {Contract[p] : p \in Proposals}
        /\ UNCHANGED <<claims, job, active, running, passed>>
    BY <2>1 DEF Reword, ReviewInv, ReviewTypes
  <2>3. ReviewTypes'
    BY <2>2 DEF ReviewInv, ReviewTypes
  <2>4. ASSUME NEW p \in Proposals, NEW s, s.terms \in Nat, WasScope(p, s)
        PROVE  /\ s = ScopeOf(p, s.terms, s.claims) /\ s.terms <= terms'[Contract[p]]
               /\ claims'[p] = 0 => s.claims = 0
    BY <2>2, <2>4 DEF WasScope
  <2>5. \A s \in ReviewScope : s.terms \in Nat
    BY DEF ReviewScope
  <2>6. (\A r \in running \union passed : WasScope(r[1], r[2]))'
    <3>1. \A r \in running \union passed :
            r[1] \in Proposals /\ r[2] \in ReviewScope /\ WasScope(r[1], r[2])
      BY DEF ReviewInv, ReviewTypes
    <3> QED BY <2>2, <2>4, <2>5, <3>1 DEF WasScope
  <2>7. (\A p \in Proposals : job[p] # None => Sound(p, job[p]))'
    <3>1. \A p \in Proposals : job[p] # None => job[p].scope \in ReviewScope /\ Sound(p, job[p])
      BY DEF ReviewInv, ReviewTypes, ReviewJob
    <3> QED BY <2>2, <2>4, <2>5, <3>1 DEF WasScope, Sound
  <2>8. (\A p \in Proposals : active[p] # None => job[p] # None /\ WasScope(p, active[p].scope))'
    <3>1. \A p \in Proposals :
            active[p] # None => /\ active[p].scope \in ReviewScope
                                /\ job[p] # None /\ WasScope(p, active[p].scope)
      BY DEF ReviewInv, ReviewTypes, ReviewJob
    <3> QED BY <2>2, <2>4, <2>5, <3>1 DEF WasScope
  <2>9. \A p \in Proposals : Reworded(Contract[p]) => Reworded(Contract[p])'
    <3>1. \A r \in passed : r[2].terms \in Nat
      BY <2>5 DEF ReviewInv, ReviewTypes
    <3> QED BY <2>2, <3>1 DEF Reworded
  <2>10. (\A a, b \in Proposals :
          a # b /\ Contract[a] = Contract[b] /\ Held(a) /\ Held(b) => Reworded(Contract[a]))'
    BY <2>2, <2>9 DEF ReviewInv, Held
  <2> QED BY <2>3, <2>6, <2>7, <2>8, <2>10 DEF ReviewInv
<1>2. CASE \E p \in Proposals, set \in 1..MaxClaims : Enrich(p, set)
  <2>1. PICK p \in Proposals, set \in 1..MaxClaims : Enrich(p, set)
    BY <1>2
  <2>2. /\ claims' \in [Proposals -> Nat]
        /\ \A q \in Proposals : claims'[q] = 0 => claims[q] = 0
        /\ UNCHANGED <<terms, job, active, running, passed>>
    <3>1. MaxClaims \in Nat /\ set \in Nat /\ set # 0
      BY ConstantsAssumption
    <3> QED BY <2>1, <3>1 DEF Enrich, ReviewInv, ReviewTypes
  <2>3. ReviewTypes'
    BY <2>2 DEF ReviewInv, ReviewTypes
  <2>4. (\A r \in running \union passed : WasScope(r[1], r[2]))'
    <3>1. \A r \in running \union passed : r[1] \in Proposals /\ WasScope(r[1], r[2])
      BY DEF ReviewInv, ReviewTypes
    <3> QED BY <2>2, <3>1 DEF WasScope
  <2>5. (\A q \in Proposals : job[q] # None => Sound(q, job[q]))'
    BY <2>2 DEF ReviewInv, Sound, WasScope
  <2>6. (\A q \in Proposals : active[q] # None => job[q] # None /\ WasScope(q, active[q].scope))'
    BY <2>2 DEF ReviewInv, WasScope
  <2>7. (\A a, b \in Proposals :
          a # b /\ Contract[a] = Contract[b] /\ Held(a) /\ Held(b) => Reworded(Contract[a]))'
    BY <2>2 DEF ReviewInv, Held, Reworded
  <2> QED BY <2>3, <2>4, <2>5, <2>6, <2>7 DEF ReviewInv
<1>3. CASE Crash
  <2>1. /\ active' = [p \in Proposals |-> None] /\ running' = {}
        /\ passed \subseteq passed' /\ passed' \subseteq passed \union running
        /\ UNCHANGED <<terms, claims, job>>
    BY <1>3 DEF Crash
  <2>2. ReviewTypes'
    BY <2>1 DEF ReviewInv, ReviewTypes
  <2>3. (\A r \in running \union passed : WasScope(r[1], r[2]))'
    BY <2>1 DEF ReviewInv, WasScope
  <2>4. (\A q \in Proposals : job[q] # None => Sound(q, job[q]))'
    BY <2>1 DEF ReviewInv, Sound, WasScope
  <2>5. \A q \in Proposals : active'[q] = None
    BY <2>1
  <2> QED BY <2>2, <2>3, <2>4, <2>5 DEF ReviewInv, Held
<1> QED BY <1>1, <1>2, <1>3

\* The reviews begin with nothing known, and every step keeps ReviewInv.
THEOREM ReviewStep == (Init => ReviewInv) /\ (ReviewInv /\ [Next]_vars => ReviewInv')
<1>1. Init => ReviewInv
  <2> SUFFICES ASSUME Init PROVE ReviewInv
    OBVIOUS
  <2>1. \A p \in Proposals : job[p] = None /\ active[p] = None
    BY DEF Init
  <2>2. ReviewTypes
    BY DEF Init, ReviewTypes
  <2>3. running = {} /\ passed = {}
    BY DEF Init
  <2> QED BY <2>1, <2>2, <2>3 DEF ReviewInv, Held
<1>2. ASSUME ReviewInv, [Next]_vars PROVE ReviewInv'
  <2>1. CASE Tick
    BY <1>2, <2>1, TickKeeps
  <2>2. CASE Reconcile
    <3>1. /\ Reconciling /\ UNCHANGED <<terms, claims, active, running, passed>>
      BY <2>2 DEF Reconcile
    <3> QED BY <1>2, <3>1, ReconcilingKeeps
  <2>3. ASSUME NEW p \in Proposals, Manual(p) PROVE ReviewInv'
    <3>1. /\ Reconciling /\ UNCHANGED <<terms, claims, active, passed>>
          /\ running' = running \union {<<p, Scope(p)>>}
      BY <2>3 DEF Manual
    <3> QED BY <1>2, <3>1, ReconcilingKeeps
  <2>4. ASSUME NEW p \in Proposals, Lapse(p) PROVE ReviewInv'
    BY <1>2, <2>4, LapseKeeps
  <2>5. ASSUME NEW r \in running, NEW end, Finish(r, end) PROVE ReviewInv'
    BY <1>2, <2>5, ReviewEndKeeps
  <2>6. CASE UNCHANGED vars
    BY <1>2, <2>6 DEF vars, ReviewInv, ReviewTypes, WasScope, Sound, Held, Reworded
  <2>7. \/ Tick \/ Reconcile \/ UNCHANGED vars
        \/ \E p \in Proposals : Lapse(p) \/ Manual(p)
        \/ \E r \in running, end \in Ends : Finish(r, end)
        \/ \/ \E c \in DOMAIN terms : Reword(c)
           \/ \E p \in Proposals, set \in 1..MaxClaims : Enrich(p, set)
           \/ Crash
    BY <1>2 DEF Next
  <2> QED BY <1>2, <2>1, <2>2, <2>3, <2>4, <2>5, <2>6, <2>7, WorldKeeps
<1> QED BY <1>1, <1>2

\* However claims, manual reviews, expired leases and crashes change which job
\* of a scope is the canonical one, two of them are under automatic review at
\* once only after their contract was given another meaning.
THEOREM ScopesAreReviewedOnce == Spec => []OneReviewUntilReworded
<1>1. ReviewInv => OneReviewUntilReworded
  <2> SUFFICES ASSUME ReviewInv, NEW p \in Waits(active), NEW q \in Waits(active),
                      job[p].status = "LEASED", job[q].status = "LEASED",
                      job[p].scope = job[q].scope, p # q
               PROVE  Reworded(Contract[p])
    BY DEF OneReviewUntilReworded
  <2>1. p \in Proposals /\ active[p] # None /\ q \in Proposals /\ active[q] # None
    BY DEF Waits
  <2>2. WasScope(p, job[p].scope) /\ WasScope(q, job[p].scope)
    BY <2>1 DEF ReviewInv, Sound
  <2>3. Contract[p] = Contract[q] /\ job[p].scope.claims = 0
    BY <2>2 DEF WasScope, ScopeOf
  <2> QED BY <2>1, <2>3 DEF ReviewInv, Held
<1> QED BY <1>1, ReviewStep, PTL DEF Spec
=============================================================================
