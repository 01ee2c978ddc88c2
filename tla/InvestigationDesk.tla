-------------------------- MODULE InvestigationDesk --------------------------
(***************************************************************************)
(* The desk of operator-triggered investigations                           *)
(* (packages/control-plane/src/investigation-desk.ts) with its table       *)
(* (saveInvestigation and loadInvestigations of operational-store.ts).     *)
(* One investigation runs at a time.  Its record is created RUNNING in     *)
(* memory, and only the completed record is written to the table: the      *)
(* handler that records a report may throw, and the handler of failures    *)
(* that then runs may throw too.                                           *)
(*                                                                         *)
(* Both lists are newest first.  A scope is what recordMatchesTask and     *)
(* scopeHash compare: question, venues and catalog context.                *)
(***************************************************************************)
EXTENDS Naturals, SequencesExt, FiniteSets, Selection

CONSTANTS
    Tasks,              \* task ids
    Scopes,             \* scopes of a task
    Retention,          \* retentionLimit
    MaxInvestigations,  \* bound: investigations started
    MaxFailedSaves,     \* bound: saves the database refuses
    MaxRestarts,        \* bound: restarts of the process
    None                \* no investigation is active

Investigation == 1..MaxInvestigations

Record == [id : Investigation, task : Tasks, scope : Scopes,
           status : {"RUNNING", "PASS", "FAILED"}]

\* #active, and which handler of its promise is next.
Active == [id : Investigation, task : Tasks, scope : Scopes,
           next : {"RECORD_REPORT", "RECORD_FAILURE"}]

RetentionAssumption == Retention \in Nat \ {0}
NoneAssumption == None \notin Active
BoundAssumption == MaxInvestigations \in Nat

VARIABLES
    records,        \* #records
    rows,           \* investigation_records
    active,         \* #active
    started,        \* investigations started so far
    failedSaves,    \* saves refused so far
    restarts        \* restarts so far

vars == <<records, rows, active, started, failedSaves, restarts>>

Init ==
    /\ records = <<>> /\ rows = <<>>
    /\ active = None
    /\ started = 0
    /\ failedSaves = 0 /\ restarts = 0

\* Deviation: one record more than the retention is kept.
KeepsOneMore(list) ==
    SubSeq(list, 1, IF Len(list) <= Retention THEN Len(list) ELSE Retention + 1)

\* Deviation: the oldest records are kept.
KeepsOldest(list) ==
    SubSeq(list, IF Len(list) < Retention THEN 1 ELSE Len(list) - Retention + 1, Len(list))

Trim(list) == SubSeq(list, 1, IF Len(list) < Retention THEN Len(list) ELSE Retention)

Passed(list, t) == {i \in DOMAIN list : list[i].task = t /\ list[i].status = "PASS"}

-----------------------------------------------------------------------------
(* begin.  A task that passed is answered with its record, or refused when *)
(* the scope differs, and nothing starts beside an active investigation.   *)

Begin(t, s) ==
    /\ started < MaxInvestigations
    /\ Passed(records, t) = {}
    /\ active = None
    /\ started' = started + 1
    /\ records' = Trim(<<[id |-> started + 1, task |-> t, scope |-> s,
                          status |-> "RUNNING"]>> \o records)
    /\ active' = [id |-> started + 1, task |-> t, scope |-> s,
                  next |-> "RECORD_REPORT"]
    /\ UNCHANGED <<rows, failedSaves, restarts>>

-----------------------------------------------------------------------------
(* #finish, called by the handler of reports and by that of failures.      *)

\* Deviation: without the unique index on passed tasks.
AlwaysAdmitted(record) == TRUE

\* The unique index investigation_passed_task.
Admitted(record) == record.status = "PASS" => Passed(rows, record.task) = {}

Completed(status) ==
    [id |-> active.id, task |-> active.task, scope |-> active.scope, status |-> status]

\* Deviation: the record in memory is completed before the save.
CompletedFirst(status) ==
    /\ records' = [i \in DOMAIN records |->
                     IF records[i].id = active.id THEN Completed(status) ELSE records[i]]
    /\ rows' \in {rows, Trim(<<Completed(status)>> \o rows)}

Finish(status) ==
    /\ Admitted(Completed(status))
    /\ rows' = Trim(<<Completed(status)>> \o rows)
    /\ records' = [i \in DOMAIN records |->
                     IF records[i].id = active.id THEN Completed(status) ELSE records[i]]

\* saveInvestigation throws: the database refuses, or the index does.
SaveFails(status) ==
    /\ \/ ~Admitted(Completed(status)) /\ UNCHANGED failedSaves
       \/ failedSaves < MaxFailedSaves /\ failedSaves' = failedSaves + 1
    /\ UNCHANGED <<records, rows>>

Report ==
    /\ active # None
    /\ active.next = "RECORD_REPORT"
    /\ \/ Finish("PASS") /\ active' = None /\ UNCHANGED failedSaves
       \/ SaveFails("PASS") /\ active' = [active EXCEPT !.next = "RECORD_FAILURE"]
    /\ UNCHANGED <<started, restarts>>

\* The investigator fails, or the deadline of the child process passes.
InvestigatorFails ==
    /\ active # None
    /\ active.next = "RECORD_REPORT"
    /\ active' = [active EXCEPT !.next = "RECORD_FAILURE"]
    /\ UNCHANGED <<records, rows, started, failedSaves, restarts>>

\* Deviation: without finally, only a recorded failure frees the desk.
FreedBySaveOnly == \/ Finish("FAILED") /\ active' = None /\ UNCHANGED failedSaves
                   \/ SaveFails("FAILED") /\ active' = [active EXCEPT !.next = "REJECTED"]

\* finally frees the desk even when the failure could not be recorded, in which
\* case the record stays RUNNING.
FinishAndFree == /\ \/ Finish("FAILED") /\ UNCHANGED failedSaves
                    \/ SaveFails("FAILED")
                 /\ active' = None

RecordFailure ==
    /\ active # None
    /\ active.next = "RECORD_FAILURE"
    /\ FinishAndFree
    /\ UNCHANGED <<started, restarts>>

\* The process ends and starts again; the child ends with it.
Restart ==
    /\ restarts < MaxRestarts
    /\ restarts' = restarts + 1
    /\ records' = rows
    /\ active' = None
    /\ UNCHANGED <<rows, started, failedSaves>>

Next ==
    \/ \E t \in Tasks, s \in Scopes : Begin(t, s)
    \/ Report
    \/ InvestigatorFails
    \/ RecordFailure
    \/ Restart

Spec == Init /\ [][Next]_vars

\* The investigator has a deadline, and handlers of a promise do run.
FairSpec == Spec /\ WF_vars(Report \/ InvestigatorFails) /\ WF_vars(RecordFailure)

-----------------------------------------------------------------------------

\* Types: the variables, records and rows within the retention.
TypeOK ==
    /\ records \in Seq(Record) /\ Len(records) <= Retention
    /\ rows \in Seq(Record) /\ Len(rows) <= Retention
    /\ active \in Active \cup {None}
    /\ started \in 0..MaxInvestigations
    /\ failedSaves \in 0..MaxFailedSaves
    /\ restarts \in 0..MaxRestarts

\* A record that has completed.
Completion == [id : Investigation, task : Tasks, scope : Scopes, status : {"PASS", "FAILED"}]

\* The completed records of a list, in its order.
CompletedOf(list) == Only(list, Completion)

\* What the desk shows as completed is what a restart would bring back: the
\* newest rows of the table, in their order, whichever save failed.
MemoryIsDurable == IsPrefix(CompletedOf(records), rows)

\* No task is passed twice, in memory or in the table, though the memory may
\* have forgotten the first pass.
PassedOnce == \A t \in Tasks : /\ Cardinality(Passed(records, t)) <= 1
                               /\ Cardinality(Passed(rows, t)) <= 1

\* The record of the active investigation is in memory: #finish always finds it,
\* also after records without an investigation were left behind.
ActiveIsRecorded ==
    active # None => \E i \in DOMAIN records :
        records[i] = [id |-> active.id, task |-> active.task, scope |-> active.scope,
                      status |-> "RUNNING"]

\* An investigation ends and frees the desk, whatever fails on its way.
DeskBecomesFree == active # None ~> active = None

\* ARCHITECTURE.md: the last completed records are kept, so passed tasks are
\* idempotent.  A task that passed, by a row the table holds, is not investigated
\* again.
PassedIsNotRepeated ==
    [][\A t \in Tasks, s \in Scopes : Begin(t, s) => Passed(rows, t) = {}]_vars
=============================================================================
