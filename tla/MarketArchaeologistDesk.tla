----------------------- MODULE MarketArchaeologistDesk -----------------------
(***************************************************************************)
(* The desk of the market archaeologist (packages/control-plane/src/       *)
(* market-archaeologist.ts) with its table (saveMarketArchaeologistRecord  *)
(* of operational-store.ts).  A run is identified by corpus snapshot and   *)
(* question.  Several runs are active at a time, and a failed run may be   *)
(* tried again.                                                            *)
(*                                                                         *)
(* Memory and table are bounded by the same retention and forget in        *)
(* different orders: #replace moves a record to the front, and the table   *)
(* updates the row of a failed run where it is.  Both lists are newest     *)
(* first; an attempt stands for the report that it produced.               *)
(***************************************************************************)
EXTENDS Naturals, SequencesExt, FiniteSets, Selection

CONSTANTS
    Runs,               \* run ids
    Retention,          \* retentionLimit
    ConcurrencyLimit,   \* concurrencyLimit
    MaxAttempts,        \* bound: attempts of each run
    MaxFailedSaves,     \* bound: saves the database refuses
    MaxRestarts         \* bound: restarts of the process

Attempt == 1..MaxAttempts
Record == [run : Runs, attempt : Attempt, status : {"RUNNING", "PASS", "FAILED"}]

RetentionAssumption == Retention \in Nat \ {0}
ConcurrencyAssumption == ConcurrencyLimit \in 1..8
AttemptsAssumption == MaxAttempts \in Nat

VARIABLES
    records,        \* #records
    rows,           \* market_archaeologist_records
    active,         \* #active
    attempts,       \* attempts of each run so far
    working,        \* attempts whose archaeologist is at work
    stored,         \* reports the table has ever held
    failedSaves,    \* saves refused so far
    restarts        \* restarts so far

vars == <<records, rows, active, attempts, working, stored, failedSaves, restarts>>

Init ==
    /\ records = <<>> /\ rows = <<>>
    /\ active = {}
    /\ attempts = [r \in Runs |-> 0]
    /\ working = {}
    /\ stored = {}
    /\ failedSaves = 0 /\ restarts = 0

Newest(list) == SubSeq(list, 1, IF Len(list) < Retention THEN Len(list) ELSE Retention)

Of(list, r) == {list[i] : i \in {j \in DOMAIN list : list[j].run = r}}

IsOther(r, record) == record.run # r

\* Deviation: the earlier record of the run stays.
Unshift(list, record) == Newest(<<record>> \o list)

\* #replace.
Replace(list, record) ==
    Newest(<<record>> \o Only(list, {x \in ToSet(list) : IsOther(record.run, x)}))

-----------------------------------------------------------------------------
(* begin.  A record in memory that has not failed is the answer; otherwise *)
(* a run that is active is joined.                                         *)

\* Deviation: only the records in memory tell that a run is active.
NotRecorded(r) == \A record \in Of(records, r) : record.status = "FAILED"

MayBegin(r) ==
    /\ \A record \in Of(records, r) : record.status = "FAILED"
    /\ r \notin active

Begin(r) ==
    /\ attempts[r] < MaxAttempts
    /\ MayBegin(r)
    /\ Cardinality(active) < ConcurrencyLimit
    /\ attempts' = [attempts EXCEPT ![r] = @ + 1]
    /\ working' = working \cup {<<r, attempts[r] + 1>>}
    /\ records' = Replace(records, [run |-> r, attempt |-> attempts[r] + 1,
                                    status |-> "RUNNING"])
    /\ active' = active \cup {r}
    /\ UNCHANGED <<rows, stored, failedSaves, restarts>>

-----------------------------------------------------------------------------
(* The archaeologist answers and the record is saved.                      *)

\* Deviation: the update of a row does not ask for its status.
UpdatesAny(row) == TRUE

\* ON CONFLICT DO UPDATE ... WHERE status = 'FAILED'.
UpdatesRow(row) == row.status = "FAILED"

Upserted(record) ==
    IF Of(rows, record.run) = {}
    THEN Newest(<<record>> \o rows)
    ELSE [i \in DOMAIN rows |->
            IF rows[i].run = record.run /\ UpdatesRow(rows[i]) THEN record ELSE rows[i]]

StoredAs(record) == CHOOSE row \in Of(Upserted(record), record.run) : TRUE

\* The row kept its first report and the record brings another one.
IsRefused(record) == StoredAs(record) # record /\ StoredAs(record).status = record.status

Remember(table) == {table[i] : i \in {j \in DOMAIN table : table[j].status = "PASS"}}

SaveRecord(record) ==
    /\ ~IsRefused(record)
    /\ rows' = Upserted(record)
    /\ records' = Replace(records, StoredAs(record))
    /\ stored' = stored \cup Remember(rows')
    /\ UNCHANGED failedSaves

\* Deviation: the report is shown although it could not be saved.
ShownUnsaved(record) == records' = Replace(records, record)

\* The record shown when the save throws.
ShowFailure(record) == records' = Replace(records, [record EXCEPT !.status = "FAILED"])

SaveThrows(record) ==
    /\ \/ IsRefused(record) /\ UNCHANGED failedSaves
       \/ failedSaves < MaxFailedSaves /\ failedSaves' = failedSaves + 1
    /\ ShowFailure(record)
    /\ UNCHANGED <<rows, stored>>

Complete(r, attempt, status) ==
    LET record == [run |-> r, attempt |-> attempt, status |-> status]
    IN  /\ <<r, attempt>> \in working
        /\ SaveRecord(record) \/ SaveThrows(record)
        /\ working' = working \ {<<r, attempt>>}
        /\ active' = active \ {r}
        /\ UNCHANGED <<attempts, restarts>>

\* The process ends and starts again; the archaeologists end with it.
Restart ==
    /\ restarts < MaxRestarts
    /\ restarts' = restarts + 1
    /\ records' = rows
    /\ active' = {} /\ working' = {}
    /\ UNCHANGED <<rows, attempts, stored, failedSaves>>

Answer(r) == \E attempt \in Attempt, status \in {"PASS", "FAILED"} :
                Complete(r, attempt, status)

Next ==
    \/ \E r \in Runs : Begin(r)
    \/ \E r \in Runs : Answer(r)
    \/ Restart

Spec == Init /\ [][Next]_vars

-----------------------------------------------------------------------------

\* Types: the variables, records and rows within the retention and one per run.
TypeOK ==
    /\ \A list \in {records, rows} :
         /\ list \in Seq(Record) /\ Len(list) <= Retention
         /\ \A i, j \in DOMAIN list : list[i].run = list[j].run => i = j
    /\ active \subseteq Runs
    /\ attempts \in [Runs -> 0..MaxAttempts]
    /\ working \subseteq Runs \X Attempt
    /\ stored \subseteq Record
    /\ failedSaves \in 0..MaxFailedSaves
    /\ restarts \in 0..MaxRestarts

\* A run has one archaeologist at work at a time, also when the newer runs have
\* pushed its RUNNING record out of memory, and those at work fill the slots.
OneAttemptAtATime ==
    /\ \A x, y \in working : x[1] = y[1] => x = y
    /\ active = {x[1] : x \in working}
    /\ Cardinality(working) <= ConcurrencyLimit

\* A report that the desk shows as passed was committed.
ShownPassWasStored ==
    \A i \in DOMAIN records : records[i].status = "PASS" => records[i] \in stored

\* The report of a passed run stays the one first stored, until its row is
\* trimmed: a run that was forgotten and repeated does not replace it.
PassedRowIsFinal ==
    [][\A i \in DOMAIN rows : rows[i].status = "PASS" =>
         \A j \in DOMAIN rows' : rows'[j].run = rows[i].run => rows'[j] = rows[i]]_rows

\* test/market-archaeologist.test.ts: run idempotency is restored from SQLite.
\* A run whose report the table holds is not investigated again.
PassedIsNotRepeated ==
    [][\A r \in Runs : Begin(r) => \A row \in Of(rows, r) : row.status # "PASS"]_vars
=============================================================================
