--------------------------- MODULE AgentCampaign ---------------------------
(***************************************************************************)
(* One campaign lineage (campaignKey) and the dispatcher that runs it:     *)
(* agent-campaign-dispatcher.ts, with the parts of agent-runtime-adapter   *)
(* and agent-execution-substrate it calls.  Several runs execute at once,  *)
(* interleaved at their awaits; the budget of the campaign is enforced by  *)
(* counting recorded model invocations and process-local reservations.     *)
(*                                                                         *)
(* Tokens and wall clock only ever grow, so `spent' is a flag that turns   *)
(* true when the campaign's budget of one of them is used up.  `due' says  *)
(* that the interval of a scheduled campaign has passed since its latest   *)
(* run.  The four terminal states of a run are one, ENDED, and all tasks   *)
(* and profiles are ready to run.                                          *)
(***************************************************************************)
EXTENDS Integers, FiniteSets

CONSTANTS Task,            \* tasks that exist in the registry
          MaxRuns,         \* bound on the runs created
          MaxRevisions,    \* bound on the revisions of the campaign
          MaxConcurrent,   \* budget.maximumConcurrentRuns
          MaxInvocations,  \* budget.maximumModelInvocations
          RunInvocations,  \* runBudget.maximumModelInvocations of the profile
          OncePerTask,     \* taskRunPolicy = ONCE_PER_TASK_PER_LINEAGE
          SavesMayFail,    \* the store may refuse a batch
          MayRestart       \* the process may stop and start again

ASSUME CampaignAssumption ==
    /\ IsFiniteSet(Task)
    /\ MaxRuns \in Nat \ {0} /\ MaxRevisions \in Nat \ {0}
    /\ MaxConcurrent \in Nat \ {0} /\ MaxInvocations \in Nat \ {0}
    /\ RunInvocations \in Nat \ {0}
    /\ OncePerTask \in BOOLEAN /\ SavesMayFail \in BOOLEAN
    /\ MayRestart \in BOOLEAN

Run      == 1 .. MaxRuns
Revision == 1 .. MaxRevisions
Manual   == 0          \* the revision of a run no campaign authorized
NoRun    == [status |-> "NONE"]
RunRecord == [status : {"PREPARED", "ENDED"},
              rev : Revision \cup {Manual}, task : Task]

VARIABLES campaign,   \* the effective revision: number, status, members
          runs,       \* the registry: run -> what was saved of it
          created,    \* number of runs created so far
          exec,       \* what this process is doing for a run
          calls,      \* invocations a run has completed
          reserved,   \* #reservedInvocations, per revision
          recorded,   \* invocations saved for runs of the lineage
          spent,      \* tokens or wall clock are used up
          due

campaignVars == <<campaign, runs, created, exec, calls, reserved, recorded,
          spent, due>>
budget == <<recorded, spent>>

-----------------------------------------------------------------------------
(* campaignRuns: the runs of every revision of the lineage. *)
LineageRuns == {r \in Run : runs[r].status # "NONE" /\ runs[r].rev # Manual}
Prepared    == {r \in LineageRuns : runs[r].status = "PREPARED"}
Executing   == {r \in Run : exec[r] # "none"}

(* Deviation: only the runs of the effective revision count as attempts. *)
DispatchableInRevision ==
    IF OncePerTask
      THEN {t \in campaign.members :
              \A r \in LineageRuns : runs[r].rev = campaign.rev => runs[r].task # t}
      ELSE campaign.members

(* campaignDispatchableTaskIds *)
Dispatchable ==
    IF OncePerTask
      THEN {t \in campaign.members : \A r \in LineageRuns : runs[r].task # t}
      ELSE campaign.members

NonNeg(n)  == IF n > 0 THEN n ELSE 0
Least(m, n) == IF m < n THEN m ELSE n

(* Deviation: only what is in flight is taken from the budget. *)
RemainingInFlight(rev) == NonNeg(MaxInvocations - reserved[rev])

(* #preview: the budget counts what is recorded for the lineage and what   *)
(* this process reserved for the revision.                                 *)
Remaining(rev)  == NonNeg(MaxInvocations - recorded - reserved[rev])
BudgetOpen(rev) == Remaining(rev) > 0 /\ ~spent
(* Deviation: slots are counted from what this process executes. *)
OpenSlotsOfProcess ==
    NonNeg(MaxConcurrent - Cardinality(Executing \cap LineageRuns))
(* Deviation: a run that ended keeps its slot. *)
OpenSlotsForGood == NonNeg(MaxConcurrent - Cardinality(LineageRuns))
OpenSlots       == NonNeg(MaxConcurrent - Cardinality(Prepared))
Fanout == IF campaign.status = "ACTIVE" /\ BudgetOpen(campaign.rev)
            THEN Least(OpenSlots, Cardinality(Dispatchable)) ELSE 0

(* One batch is written by the store or refused as a whole. *)
Saved == IF SavesMayFail THEN BOOLEAN ELSE {TRUE}

Reserve(rev) == IF rev = Manual THEN reserved
                ELSE [reserved EXCEPT ![rev] = @ + 1]
(* Deviation: a release is not clamped at zero. *)
ReleaseUnclamped(rev) == IF rev = Manual THEN reserved
                         ELSE [reserved EXCEPT ![rev] = @ - 1]
Release(rev) == IF rev = Manual THEN reserved
                ELSE [reserved EXCEPT ![rev] = NonNeg(@ - 1)]

-----------------------------------------------------------------------------
CampaignInit ==
    /\ \E m \in SUBSET Task :
         campaign = [rev |-> 1, status |-> "PAUSED", members |-> m]
    /\ runs = [r \in Run |-> NoRun]
    /\ created = 0
    /\ exec = [r \in Run |-> "none"]
    /\ calls = [r \in Run |-> 0]
    /\ reserved = [v \in Revision |-> 0]
    /\ recorded = 0
    /\ spent = FALSE /\ due = FALSE

(* A new revision is saved; only the latest is effective. *)
Revise(status, members) ==
    /\ campaign.rev < MaxRevisions
    /\ campaign' = [rev |-> campaign.rev + 1, status |-> status,
                    members |-> members]
    /\ UNCHANGED <<runs, created, exec, calls, reserved, budget>>

Activate == /\ campaign.status = "PAUSED"
            /\ Revise("ACTIVE", campaign.members)
            /\ due' = (due /\ LineageRuns # {})

Pause == /\ campaign.status = "ACTIVE"
         /\ Revise("PAUSED", campaign.members)
         /\ UNCHANGED due

ReviseMembership(members) ==
    /\ members # campaign.members
    /\ Revise(campaign.status, members)
    /\ UNCHANGED due

(* Deviation: tasks that are executing are taken again. *)
BatchesOfAll == {ts \in SUBSET Dispatchable : Cardinality(ts) = Fanout}

(* The tasks one dispatch takes: as many as the fanout of the preview, and *)
(* none that a run of this process is executing.                           *)
Batches ==
    LET free == {t \in Dispatchable : \A r \in Executing : runs[r].task # t}
    IN  {ts \in SUBSET free :
           Cardinality(ts) = Least(Fanout, Cardinality(free))}

NewRun(rev, t) == [status |-> "PREPARED", rev |-> rev, task |-> t]

(* Runs are saved and started one after the other; a batch the store       *)
(* refuses ends the loop, the runs before it keep executing.               *)
StartRuns(rev, tasks) ==
    LET new == created + 1 .. created + Cardinality(tasks) IN
    /\ created + Cardinality(tasks) <= MaxRuns
    /\ created' = created + Cardinality(tasks)
    /\ \E of \in [new -> tasks] :
         /\ \A t \in tasks : \E r \in new : of[r] = t
         /\ runs' = [r \in Run |-> IF r \in new THEN NewRun(rev, of[r])
                                  ELSE runs[r]]
    /\ exec' = [r \in Run |-> IF r \in new THEN "opening" ELSE exec[r]]
    /\ UNCHANGED <<campaign, calls, reserved, budget>>

DispatchCampaign ==
    /\ \E ts \in Batches :
       \E started \in (IF SavesMayFail THEN SUBSET ts ELSE {ts}) :
          started # {} /\ StartRuns(campaign.rev, started)
    /\ due' = FALSE

(* tick: a scheduled campaign is dispatched when its interval has passed. *)
Tick == due /\ DispatchCampaign

(* dispatchManual: no campaign, no budget but the run's own, and no look   *)
(* at what is already executing.                                           *)
DispatchManual(t) == StartRuns(Manual, {t}) /\ UNCHANGED due

(* Credentials and the adapter's session; an error ends the run. *)
Open(r) ==
    /\ exec[r] = "opening"
    /\ \E next \in {"ready", "closing"} : exec' = [exec EXCEPT ![r] = next]
    /\ UNCHANGED <<campaign, runs, created, calls, reserved, budget, due>>

(* beforeModelInvocation: no await between the check of the budget and the *)
(* reservation.                                                            *)
BeginInvocation(r) ==
    /\ exec[r] = "ready"
    /\ calls[r] < RunInvocations
    /\ runs[r].rev # Manual => BudgetOpen(runs[r].rev)
    /\ exec' = [exec EXCEPT ![r] = "calling"]
    /\ reserved' = Reserve(runs[r].rev)
    /\ UNCHANGED <<campaign, runs, created, calls, budget, due>>

(* A budget of the campaign, or of the run (its calls, tokens, wall clock), *)
(* is used up before the next invocation.                                   *)
BudgetEndsRun(r) ==
    /\ exec[r] = "ready"
    /\ exec' = [exec EXCEPT ![r] = "closing"]
    /\ UNCHANGED <<campaign, runs, created, calls, reserved, budget, due>>

(* session.advance answered: onProgress releases the reservation and saves *)
(* the invocation; the run goes on or ends.  If the store refuses it, the  *)
(* run fails and carries the invocation to its last batch.                 *)
InvocationDone(r) ==
    LET lineage == runs[r].rev # Manual IN
    /\ exec[r] = "calling"
    /\ reserved' = Release(runs[r].rev)
    /\ calls' = [calls EXCEPT ![r] = @ + 1]
    /\ \E ok \in Saved :
         /\ recorded' = IF ok /\ lineage THEN recorded + 1 ELSE recorded
         /\ \E next \in IF ok THEN {"ready", "closing"} ELSE {"unsaved"} :
              exec' = [exec EXCEPT ![r] = next]
    /\ UNCHANGED <<campaign, runs, created, spent, due>>

(* Deviation: a session that throws leaves the run behind. *)
InvocationFailedLost(r) ==
    /\ exec[r] = "calling"
    /\ exec' = [exec EXCEPT ![r] = "none"]
    /\ UNCHANGED <<campaign, runs, created, calls, reserved, budget, due>>

(* session.advance threw: there is no invocation to record, the            *)
(* reservation stays.                                                      *)
InvocationFailed(r) ==
    /\ exec[r] = "calling"
    /\ exec' = [exec EXCEPT ![r] = "closing"]
    /\ UNCHANGED <<campaign, runs, created, calls, reserved, budget, due>>

(* Deviation: no finally block, a failed invocation keeps its reservation. *)
FinishKeepingReservation(r) ==
    /\ exec[r] \in {"closing", "unsaved"}
    /\ exec' = [exec EXCEPT ![r] = "none"]
    /\ runs' = [runs EXCEPT ![r].status = "ENDED"]
    /\ UNCHANGED <<campaign, created, calls, reserved, budget, due>>

(* #execute once the runtime returned: the finally block releases one      *)
(* reservation, then the ended run is saved with its invocations; if the   *)
(* store refuses it, the run stays PREPARED and no longer executes.        *)
Finish(r) ==
    /\ exec[r] \in {"closing", "unsaved"}
    /\ exec' = [exec EXCEPT ![r] = "none"]
    /\ reserved' = Release(runs[r].rev)
    /\ \E ok \in Saved :
         /\ runs' = IF ok THEN [runs EXCEPT ![r].status = "ENDED"] ELSE runs
         /\ recorded' = IF ok /\ exec[r] = "unsaved" /\ runs[r].rev # Manual
                          THEN recorded + 1 ELSE recorded
    /\ UNCHANGED <<campaign, created, calls, spent, due>>

(* The process stops and what it was doing is gone.  Before anything is    *)
(* dispatched again, recoverPreparedRuns ends the runs left PREPARED.      *)
CampaignRestart ==
    /\ MayRestart
    /\ exec' = [r \in Run |-> "none"]
    /\ reserved' = [v \in Revision |-> 0]
    /\ runs' = [r \in Run |-> IF runs[r].status = "PREPARED"
                               THEN [runs[r] EXCEPT !.status = "ENDED"]
                               ELSE runs[r]]
    /\ UNCHANGED <<campaign, created, calls, budget, due>>

(* Time passes: the interval of the schedule, or a budget that only a run  *)
(* that is PREPARED consumes, its wall clock or its tokens.                *)
IntervalPasses ==
    /\ ~due /\ due' = TRUE
    /\ UNCHANGED <<campaign, runs, created, exec, calls, reserved, budget>>
BudgetRunsOut ==
    /\ ~spent /\ Prepared # {}
    /\ spent' = TRUE
    /\ UNCHANGED <<campaign, runs, created, exec, calls, reserved, recorded, due>>

RunStep(r) == \/ Open(r) \/ BeginInvocation(r) \/ BudgetEndsRun(r)
              \/ InvocationDone(r) \/ InvocationFailed(r) \/ Finish(r)

CampaignNext ==
    \/ Activate \/ Pause
    \/ \E m \in SUBSET Task : ReviseMembership(m)
    \/ DispatchCampaign \/ Tick
    \/ \E t \in Task : DispatchManual(t)
    \/ \E r \in Run : RunStep(r)
    \/ CampaignRestart \/ IntervalPasses \/ BudgetRunsOut

CampaignSpec == CampaignInit /\ [][CampaignNext]_campaignVars

(* Awaits are answered (every advance carries a deadline), the interval    *)
(* passes and the server's timer calls tick.                               *)
CampaignFairness ==
    /\ \A r \in Run : WF_campaignVars(RunStep(r))
    /\ WF_campaignVars(IntervalPasses) /\ WF_campaignVars(Tick)
CampaignFairSpec == CampaignSpec /\ CampaignFairness

-----------------------------------------------------------------------------
CampaignTypeOK ==
    /\ campaign \in [rev : Revision, status : {"PAUSED", "ACTIVE"},
                     members : SUBSET Task]
    /\ runs \in [Run -> {NoRun} \cup RunRecord]
    /\ created \in 0 .. MaxRuns
    /\ exec \in [Run -> {"none", "opening", "ready", "calling", "closing",
                         "unsaved"}]
    /\ calls \in [Run -> Nat] /\ reserved \in [Revision -> Nat]
    /\ recorded \in Nat
    /\ spent \in BOOLEAN /\ due \in BOOLEAN

(* Whatever is revised, refused by the store or cut short by a restart, no *)
(* more runs of the lineage are PREPARED than maximumConcurrentRuns.       *)
ConcurrencyRespected == Cardinality(Prepared) <= MaxConcurrent

(* ONCE_PER_TASK_PER_LINEAGE: no revision and no restart lets the campaign *)
(* run a task again, even when its first run was interrupted.              *)
OnceRespected ==
    OncePerTask => \A r, s \in LineageRuns : runs[r].task = runs[s].task => r = s

(* Two runs of the lineage never execute the same task at the same time. *)
TasksAreNotShared ==
    \A r, s \in Executing \cap LineageRuns : runs[r].task = runs[s].task => r = s

(* Invocations in flight, or completed and on the way to their last batch. *)
Unrecorded == {r \in LineageRuns : exec[r] \in {"calling", "unsaved"}}

(* Reservations are released too early when runs overlap, but the campaign *)
(* never starts more invocations than its budget and the other runs that   *)
(* may be in flight; a campaign of one run at a time keeps to its budget.  *)
OverspendIsBounded ==
    recorded + Cardinality(Unrecorded) <= MaxInvocations + MaxConcurrent - 1

(* A reservation always belongs to a run that is calling or about to end:  *)
(* budget is never withheld for good by a run that is gone.                *)
ReservationsAreOwned ==
    \A v \in Revision :
       reserved[v] <= Cardinality({r \in Run : /\ runs[r].status # "NONE"
                                               /\ runs[r].rev = v
                                               /\ exec[r] \in {"calling", "closing", "unsaved"}})

(* What agent-campaign-dispatcher.test.ts:220 says of a campaign: it obeys *)
(* its request budget.                                                     *)
BudgetIsRespected == recorded + Cardinality(Unrecorded) <= MaxInvocations

(* Every run that was prepared ends. *)
RunsEnd == \A r \in Run : (runs[r].status = "PREPARED") ~> (runs[r].status = "ENDED")

(* A scheduled campaign that stays active gets every member attempted, or  *)
(* uses up a budget (or the instance's runs).                              *)
MembersAreAttempted ==
    <>[](campaign.status = "ACTIVE") =>
        <>[](\/ Dispatchable = {} \/ spent \/ recorded >= MaxInvocations
             \/ created + MaxConcurrent > MaxRuns)
=============================================================================
