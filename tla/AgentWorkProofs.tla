--------------------------- MODULE AgentWorkProofs ----------------------------
(***************************************************************************)
(* Theorems about the campaign dispatcher and the opportunity desk.        *)
(*                                                                         *)
(* Proofs about AgentCampaign for any tasks, budgets and numbers of runs   *)
(* and revisions, with refused batches and restarts.                       *)
(*                                                                         *)
(* Executes ties what the process does to what the store knows: only a run *)
(* saved as PREPARED executes.  The concurrency of the campaign therefore  *)
(* bounds how many invocations can be in flight, and with it by how much   *)
(* the budget may be overrun.                                              *)
(*                                                                         *)
(* Proofs about OpportunityDesk for any cases, policies, retention, window *)
(* and number of failed saves and restarts.                                *)
(*                                                                         *)
(* The methods of the lifecycle and the validator that replays its events  *)
(* are two encodings of one protocol: the first lemmas show that a method  *)
(* applied in the state it expects appends an event the validator accepts  *)
(* and moves to the state the validator computes.  The invariant then says *)
(* that memory, table and answers of a case are three prefixes of one      *)
(* growing history.                                                        *)
(***************************************************************************)
EXTENDS AgentCampaign, OpportunityDesk, FiniteSetTheorems, TLAPS

Executes ==
    /\ \A r \in Run : r > created => runs[r] = NoRun
    /\ \A r \in Run : exec[r] # "none" => runs[r] \in RunRecord /\ runs[r].status = "PREPARED"

(* One run per task and lineage, with what makes it inductive. *)
CampaignInv == CampaignTypeOK /\ Executes

-----------------------------------------------------------------------------
(* Facts about the operators *)

LEMMA ConstantTypes ==
    /\ MaxConcurrent \in Nat /\ MaxInvocations \in Nat /\ MaxRuns \in Nat
    /\ MaxConcurrent > 0 /\ MaxInvocations > 0
    /\ Run \subseteq Nat /\ Revision \subseteq Nat
    /\ Manual \in Nat /\ Manual \notin Revision /\ 1 \in Revision
    /\ IsFiniteSet(Task)
  BY CampaignAssumption DEF CampaignAssumption, Run, Revision, Manual

LEMMA RunSetsAreFinite ==
  ASSUME NEW S \in SUBSET Run
  PROVE  IsFiniteSet(S) /\ Cardinality(S) \in Nat
<1>1. IsFiniteSet(Run)
  BY ConstantTypes, FS_Interval DEF Run
<1> QED BY <1>1, FS_Subset, FS_CardinalityType

LEMMA UnionBound ==
  ASSUME NEW S, NEW T, IsFiniteSet(S), IsFiniteSet(T)
  PROVE  Cardinality(S \cup T) <= Cardinality(S) + Cardinality(T)
<1>1. IsFiniteSet(S \cap T)
  BY FS_Subset
<1>2. Cardinality(S \cap T) \in Nat /\ Cardinality(S) \in Nat /\ Cardinality(T) \in Nat
  BY <1>1, FS_CardinalityType
<1>3. Cardinality(S \cup T) = Cardinality(S) + Cardinality(T) - Cardinality(S \cap T)
  BY FS_Union
<1> QED BY <1>2, <1>3

LEMMA NonNegIsNat ==
  ASSUME NEW n \in Int
  PROVE  NonNeg(n) \in Nat /\ NonNeg(n) >= n /\ (NonNeg(n) > 0 => NonNeg(n) = n)
  BY DEF NonNeg

LEMMA LedgerOfReservations ==
  ASSUME CampaignTypeOK, NEW v \in Revision \cup {Manual}
  PROVE  Reserve(v) \in [Revision -> Nat] /\ Release(v) \in [Revision -> Nat]
<1>1. CASE v = Manual
  BY <1>1 DEF CampaignTypeOK, Reserve, Release
<1>2. CASE v \in Revision
  <2>1. v # Manual
    BY <1>2, ConstantTypes
  <2>2. reserved[v] + 1 \in Nat /\ NonNeg(reserved[v] - 1) \in Nat
    BY <1>2, NonNegIsNat DEF CampaignTypeOK
  <2> QED BY <1>2, <2>1, <2>2 DEF CampaignTypeOK, Reserve, Release
<1> QED BY <1>1, <1>2

LEMMA RunRecords ==
  ASSUME NEW x \in RunRecord
  PROVE  /\ [x EXCEPT !.status = "ENDED"] \in RunRecord
         /\ [x EXCEPT !.status = "ENDED"].status = "ENDED"
         /\ [x EXCEPT !.status = "ENDED"].rev = x.rev
         /\ [x EXCEPT !.status = "ENDED"].task = x.task
         /\ x.rev \in Revision \cup {Manual} /\ x.task \in Task
         /\ x # NoRun /\ x.status # "NONE"
<1>1. x.status \in {"PREPARED", "ENDED"} /\ NoRun.status = "NONE"
  BY DEF RunRecord, NoRun
<1> QED BY <1>1 DEF RunRecord, NoRun

(* The runs a dispatch starts are new, and the tasks are distinct. *)
LEMMA StartedRuns ==
  ASSUME CampaignInv, NEW v \in Revision \cup {Manual}, NEW ts \in SUBSET Task,
         StartRuns(v, ts)
  PROVE  \E new \in SUBSET Run :
           /\ Cardinality(new) = Cardinality(ts)
           /\ \A r \in new : /\ runs[r] = NoRun /\ exec[r] = "none"
                             /\ \E t \in ts : runs'[r] = NewRun(v, t)
                             /\ exec'[r] = "opening"
           /\ \A r \in Run \ new : runs'[r] = runs[r] /\ exec'[r] = exec[r]
           /\ \A r \in new : r > created
           /\ runs' \in [Run -> {NoRun} \cup RunRecord]
           /\ exec' \in [Run -> {"none", "opening", "ready", "calling",
                                 "closing", "unsaved"}]
           /\ created' \in 0 .. MaxRuns /\ created' >= created
           /\ \A r \in Run : r > created' => r \notin new
           /\ \A r, s \in new : runs'[r].task = runs'[s].task => r = s
<1> DEFINE n == Cardinality(ts)
           new == created + 1 .. created + n
<1>1. n \in Nat /\ created \in 0 .. MaxRuns /\ MaxRuns \in Nat
  BY ConstantTypes, FS_Subset, FS_CardinalityType DEF CampaignInv, CampaignTypeOK
<1>2. created + n <= MaxRuns /\ created' = created + n
  BY DEF StartRuns
<1>3. new \in SUBSET Run
  BY <1>1, <1>2 DEF Run
<1>4. Cardinality(new) = n
  BY <1>1, FS_Interval
<1>5. PICK of \in [new -> ts] :
        /\ \A t \in ts : \E r \in new : of[r] = t
        /\ runs' = [r \in Run |-> IF r \in new THEN NewRun(v, of[r]) ELSE runs[r]]
  BY DEF StartRuns
<1>6. exec' = [r \in Run |-> IF r \in new THEN "opening" ELSE exec[r]]
  BY DEF StartRuns
<1>7. \A r \in new : r > created
  BY <1>1
<1>8. \A r \in new : runs[r] = NoRun
  BY <1>3, <1>7 DEF CampaignInv, Executes
<1>9. \A r \in new : exec[r] = "none"
  BY <1>3, <1>8, RunRecords DEF CampaignInv, Executes
<1>10. \A t \in Task : NewRun(v, t) \in RunRecord
  BY DEF NewRun, RunRecord
<1>11. runs' \in [Run -> {NoRun} \cup RunRecord]
  BY <1>5, <1>10 DEF CampaignInv, CampaignTypeOK
<1>12. exec' \in [Run -> {"none", "opening", "ready", "calling", "closing", "unsaved"}]
  BY <1>6 DEF CampaignInv, CampaignTypeOK
<1>13. \A r \in Run : r > created' => r \notin new
  BY <1>1, <1>2
<1>14. \A r \in new : \E t \in ts : runs'[r] = NewRun(v, t)
  BY <1>3, <1>5
<1>15. \A r \in Run \ new : runs'[r] = runs[r] /\ exec'[r] = exec[r]
  BY <1>5, <1>6
<1>16. \A r \in new : exec'[r] = "opening"
  BY <1>3, <1>6
<1>17. created' \in 0 .. MaxRuns /\ created' >= created
  BY <1>1, <1>2
<1>18. \A r, s \in new : runs'[r].task = runs'[s].task => r = s
  <2>1. of \in Surjection(new, ts)
    BY <1>5 DEF Surjection
  <2>2. IsFiniteSet(new)
    BY <1>3, RunSetsAreFinite
  <2>3. of \in Injection(new, ts)
    BY <1>4, <2>1, <2>2, FS_SurjSameCardinalityImpliesInj
  <2>4. \A r \in new : runs'[r].task = of[r]
    BY <1>3, <1>5 DEF NewRun
  <2>5. \A r, s \in new : of[r] = of[s] => r = s
    BY <2>3 DEF Injection, IsInjective
  <2> QED BY <2>4, <2>5
<1> HIDE DEF new, n
<1> QED BY <1>18, <1>3, <1>4, <1>7, <1>8, <1>9, <1>11, <1>12, <1>13, <1>14, <1>15,
           <1>16, <1>17 DEF n
-----------------------------------------------------------------------------
(* What the process executes, the store knows as PREPARED *)

LEMMA InitCampaignInv == CampaignInit => CampaignInv
<1> SUFFICES ASSUME CampaignInit PROVE CampaignInv
  OBVIOUS
<1>1. campaign \in [rev : Revision, status : {"PAUSED", "ACTIVE"}, members : SUBSET Task]
  BY ConstantTypes DEF CampaignInit
<1>2. created \in 0 .. MaxRuns /\ calls \in [Run -> Nat] /\ reserved \in [Revision -> Nat]
  BY ConstantTypes DEF CampaignInit
<1> QED BY <1>1, <1>2 DEF CampaignInit, CampaignInv, CampaignTypeOK, Executes

(* A step that only moves one run on within this process. *)
LEMMA RunMoves ==
  ASSUME CampaignInv, NEW r \in Run,
         NEW e \in {"none", "opening", "ready", "calling", "closing", "unsaved"},
         exec[r] # "none", exec' = [exec EXCEPT ![r] = e],
         UNCHANGED <<runs, created>>
  PROVE  /\ Executes'
         /\ exec' \in [Run -> {"none", "opening", "ready", "calling",
                               "closing", "unsaved"}]
  BY DEF CampaignInv, CampaignTypeOK, Executes

LEMMA CampaignInvStep == CampaignInv /\ [CampaignNext]_campaignVars => CampaignInv'
<1> SUFFICES ASSUME CampaignInv, [CampaignNext]_campaignVars PROVE CampaignInv'
  OBVIOUS
<1> USE DEF budget
<1>1. ASSUME NEW status \in {"PAUSED", "ACTIVE"}, NEW members \in SUBSET Task,
             Revise(status, members), due' \in BOOLEAN
      PROVE  CampaignInv'
  <2>1. campaign.rev + 1 \in Revision
    BY <1>1, ConstantTypes, CampaignAssumption
       DEF CampaignInv, CampaignTypeOK, Revise, Revision, CampaignAssumption
  <2>2. campaign' \in [rev : Revision, status : {"PAUSED", "ACTIVE"}, members : SUBSET Task]
    BY <1>1, <2>1 DEF Revise
  <2> QED BY <1>1, <2>2 DEF CampaignInv, CampaignTypeOK, Revise, Executes
<1>2. CASE Activate
  BY <1>1, <1>2 DEF Activate, CampaignInv, CampaignTypeOK
<1>3. CASE Pause
  BY <1>1, <1>3 DEF Pause, CampaignInv, CampaignTypeOK
<1>4. ASSUME NEW m \in SUBSET Task, ReviseMembership(m) PROVE CampaignInv'
  BY <1>1, <1>4 DEF ReviseMembership, CampaignInv, CampaignTypeOK
<1>5. ASSUME NEW v \in Revision \cup {Manual}, NEW ts \in SUBSET Task,
             StartRuns(v, ts), due' \in BOOLEAN
      PROVE  CampaignInv'
  <2>1. PICK new \in SUBSET Run :
           /\ \A r \in new : /\ \E t \in ts : runs'[r] = NewRun(v, t)
                             /\ exec'[r] = "opening"
           /\ \A r \in Run \ new : runs'[r] = runs[r] /\ exec'[r] = exec[r]
           /\ runs' \in [Run -> {NoRun} \cup RunRecord]
           /\ exec' \in [Run -> {"none", "opening", "ready", "calling",
                                 "closing", "unsaved"}]
           /\ created' \in 0 .. MaxRuns /\ created' >= created
           /\ \A r \in Run : r > created' => r \notin new
    BY <1>5, StartedRuns, SMTT(60)
  <2>2. \A t \in ts : NewRun(v, t) \in RunRecord /\ NewRun(v, t).status = "PREPARED"
    BY <1>5 DEF NewRun, RunRecord
  <2>3. Executes'
    <3>1. ASSUME NEW r \in Run, r > created' PROVE runs'[r] = NoRun
      <4>1. r > created
        BY <2>1, <3>1, ConstantTypes DEF CampaignInv, CampaignTypeOK, Run
      <4> QED BY <2>1, <3>1, <4>1 DEF CampaignInv, Executes
    <3>2. ASSUME NEW r \in Run, exec'[r] # "none"
          PROVE  runs'[r] \in RunRecord /\ runs'[r].status = "PREPARED"
      BY <2>1, <2>2, <3>2 DEF CampaignInv, Executes
    <3> QED BY <3>1, <3>2 DEF Executes
  <2> QED BY <1>5, <2>1, <2>3 DEF CampaignInv, CampaignTypeOK, StartRuns
<1>6. CASE DispatchCampaign
  <2>1. PICK ts \in Batches : \E started \in SUBSET ts : StartRuns(campaign.rev, started)
    BY <1>6 DEF DispatchCampaign
  <2>2. PICK started \in SUBSET Task : StartRuns(campaign.rev, started)
    BY <2>1 DEF Batches, Dispatchable, CampaignInv, CampaignTypeOK
  <2>3. campaign.rev \in Revision /\ due' \in BOOLEAN
    BY <1>6 DEF DispatchCampaign, CampaignInv, CampaignTypeOK
  <2> QED BY <1>5, <2>2, <2>3
<1>7. CASE Tick
  BY <1>6, <1>7 DEF Tick
<1>8. ASSUME NEW t \in Task, DispatchManual(t) PROVE CampaignInv'
  BY <1>5, <1>8 DEF DispatchManual, CampaignInv, CampaignTypeOK
<1>9. ASSUME NEW r \in Run, exec[r] # "none"
      PROVE  runs[r] \in RunRecord /\ runs[r].rev \in Revision \cup {Manual}
  BY <1>9, RunRecords DEF CampaignInv, Executes
<1>10. ASSUME NEW r \in Run, Open(r) PROVE CampaignInv'
  BY <1>10, RunMoves DEF Open, CampaignInv, CampaignTypeOK
<1>11. ASSUME NEW r \in Run, BeginInvocation(r) PROVE CampaignInv'
  <2>1. reserved' \in [Revision -> Nat]
    BY <1>9, <1>11, LedgerOfReservations DEF BeginInvocation, CampaignInv
  <2> QED BY <1>11, <2>1, RunMoves DEF BeginInvocation, CampaignInv, CampaignTypeOK
<1>12. ASSUME NEW r \in Run, BudgetEndsRun(r) PROVE CampaignInv'
  BY <1>12, RunMoves DEF BudgetEndsRun, CampaignInv, CampaignTypeOK
<1>13. ASSUME NEW r \in Run, InvocationDone(r) PROVE CampaignInv'
  <2>1. reserved' \in [Revision -> Nat]
    BY <1>9, <1>13, LedgerOfReservations DEF InvocationDone, CampaignInv
  <2>2. calls' \in [Run -> Nat] /\ recorded' \in Nat
    BY <1>13 DEF InvocationDone, CampaignInv, CampaignTypeOK
  <2>3. PICK e \in {"ready", "closing", "unsaved"} : exec' = [exec EXCEPT ![r] = e]
    BY <1>13 DEF InvocationDone
  <2>4. exec[r] # "none" /\ UNCHANGED <<campaign, runs, created, spent, due>>
    BY <1>13 DEF InvocationDone
  <2> QED BY <2>1, <2>2, <2>3, <2>4, RunMoves DEF CampaignInv, CampaignTypeOK
<1>14. ASSUME NEW r \in Run, InvocationFailed(r) PROVE CampaignInv'
  BY <1>14, RunMoves DEF InvocationFailed, CampaignInv, CampaignTypeOK
<1>15. ASSUME NEW r \in Run, Finish(r) PROVE CampaignInv'
  <2>1. exec[r] # "none" /\ exec' = [exec EXCEPT ![r] = "none"]
    BY <1>15 DEF Finish
  <2>2. runs[r] \in RunRecord
    BY <1>9, <2>1
  <2>3. reserved' \in [Revision -> Nat]
    BY <1>9, <1>15, <2>1, LedgerOfReservations DEF Finish, CampaignInv
  <2>4. runs' \in {runs, [runs EXCEPT ![r] = [runs[r] EXCEPT !.status = "ENDED"]]}
    BY <1>15 DEF Finish
  <2>5. /\ runs' \in [Run -> {NoRun} \cup RunRecord]
        /\ \A s \in Run \ {r} : runs'[s] = runs[s]
        /\ runs[r] = NoRun => runs'[r] = NoRun
    BY <2>2, <2>4, RunRecords DEF CampaignInv, CampaignTypeOK
  <2>6. Executes'
    <3>1. created' = created
      BY <1>15 DEF Finish
    <3>2. \A s \in Run : s > created' => runs'[s] = NoRun
      BY <2>5, <3>1 DEF CampaignInv, Executes
    <3>3. \A s \in Run : exec'[s] # "none" => s # r /\ exec[s] # "none"
      BY <2>1 DEF CampaignInv, CampaignTypeOK
    <3> QED BY <2>5, <3>2, <3>3 DEF CampaignInv, Executes
  <2>7. recorded' \in Nat
    BY <1>15 DEF Finish, CampaignInv, CampaignTypeOK
  <2> QED BY <1>15, <2>1, <2>3, <2>5, <2>6, <2>7 DEF Finish, CampaignInv, CampaignTypeOK
<1>16. CASE CampaignRestart
  <2>1. ASSUME NEW s \in Run PROVE /\ runs'[s] \in {NoRun} \cup RunRecord
                                   /\ runs[s] = NoRun => runs'[s] = NoRun
    <3>1. CASE runs[s] = NoRun
      BY <1>16, <3>1 DEF CampaignRestart, NoRun
    <3>2. CASE runs[s] \in RunRecord
      BY <1>16, <3>2, RunRecords DEF CampaignRestart
    <3> QED BY <3>1, <3>2 DEF CampaignInv, CampaignTypeOK
  <2>2. runs' \in [Run -> {NoRun} \cup RunRecord]
    BY <1>16, <2>1 DEF CampaignRestart
  <2> QED BY <1>16, <2>1, <2>2 DEF CampaignRestart, CampaignInv, CampaignTypeOK, Executes
<1>17. CASE IntervalPasses \/ BudgetRunsOut \/ UNCHANGED campaignVars
  BY <1>17 DEF IntervalPasses, BudgetRunsOut, campaignVars, CampaignInv, CampaignTypeOK, Executes
<1> QED
  BY <1>2, <1>3, <1>4, <1>6, <1>7, <1>8, <1>10, <1>11, <1>12, <1>13, <1>14,
     <1>15, <1>16, <1>17 DEF CampaignNext, RunStep

(* CampaignTypeOK: every state of the registry and of the dispatcher's maps is     *)
(* well formed, whatever fails.                                            *)
THEOREM CampaignIsSound == CampaignSpec => []CampaignInv
  BY InitCampaignInv, CampaignInvStep, PTL DEF CampaignSpec

THEOREM CampaignTypes == CampaignSpec => []CampaignTypeOK
<1>1. CampaignInv => CampaignTypeOK
  BY DEF CampaignInv
<1> QED BY <1>1, CampaignIsSound, PTL

-----------------------------------------------------------------------------
(* Which runs of the lineage there are after a step *)

LEMMA LineageAfterStart ==
  ASSUME CampaignInv, NEW v \in Revision \cup {Manual}, NEW ts \in SUBSET Task,
         StartRuns(v, ts)
  PROVE  \E new \in SUBSET Run :
           /\ IsFiniteSet(new) /\ Cardinality(new) = Cardinality(ts)
           /\ v = Manual => LineageRuns' = LineageRuns /\ Prepared' = Prepared
           /\ v # Manual => /\ LineageRuns' = LineageRuns \cup new
                            /\ Prepared' = Prepared \cup new
                            /\ \A r \in new : runs'[r].task \in ts
                            /\ \A r, s \in new : runs'[r].task = runs'[s].task => r = s
           /\ Executing' = Executing \cup new
           /\ \A r \in new : runs[r] = NoRun /\ exec[r] = "none"
                             /\ exec'[r] = "opening"
           /\ \A r \in Run \ new : runs'[r] = runs[r] /\ exec'[r] = exec[r]
<1>1. PICK new \in SUBSET Run :
        /\ Cardinality(new) = Cardinality(ts)
        /\ \A r \in new : /\ runs[r] = NoRun /\ exec[r] = "none"
                          /\ \E t \in ts : runs'[r] = NewRun(v, t)
                          /\ exec'[r] = "opening"
        /\ \A r \in Run \ new : runs'[r] = runs[r] /\ exec'[r] = exec[r]
        /\ \A r, s \in new : runs'[r].task = runs'[s].task => r = s
  BY StartedRuns
<1>2. \A t \in ts : /\ NewRun(v, t).status = "PREPARED" /\ NewRun(v, t).rev = v
                    /\ NewRun(v, t).task = t
  BY DEF NewRun
<1>3. NoRun.status = "NONE"
  BY DEF NoRun
<1>4. Executing' = Executing \cup new
  BY <1>1 DEF Executing
<1>5. ASSUME v = Manual PROVE LineageRuns' = LineageRuns /\ Prepared' = Prepared
  <2>1. LineageRuns' = LineageRuns
    BY <1>1, <1>2, <1>3, <1>5 DEF LineageRuns
  <2> QED BY <1>1, <1>2, <1>3, <1>5, <2>1 DEF Prepared, LineageRuns
<1>6. ASSUME v # Manual
      PROVE  /\ LineageRuns' = LineageRuns \cup new /\ Prepared' = Prepared \cup new
             /\ \A r \in new : runs'[r].task \in ts
  <2>1. LineageRuns' = LineageRuns \cup new
    BY <1>1, <1>2, <1>3, <1>6 DEF LineageRuns
  <2>2. Prepared' = Prepared \cup new
    BY <1>1, <1>2, <1>3, <1>6, <2>1 DEF Prepared, LineageRuns
  <2> QED BY <1>1, <1>2, <2>1, <2>2
<1> QED BY <1>1, <1>4, <1>5, <1>6, RunSetsAreFinite

(* Every other step keeps the runs of the lineage and their tasks; a run    *)
(* may stop being PREPARED.                                                 *)
LEMMA LineageOtherwise ==
  ASSUME CampaignInv, [CampaignNext]_campaignVars,
         ~DispatchCampaign, \A t \in Task : ~DispatchManual(t)
  PROVE  /\ LineageRuns' = LineageRuns
         /\ \A r \in LineageRuns : runs'[r].task = runs[r].task
         /\ Prepared' \subseteq Prepared /\ Executing' \subseteq Executing
<1>1. CASE runs' = runs
  <2>1. Executing' \subseteq Executing
    BY DEF CampaignNext, Activate, Pause, ReviseMembership, Revise, Tick, RunStep, Open,
           BeginInvocation, BudgetEndsRun, InvocationDone, InvocationFailed, Finish,
           CampaignRestart, IntervalPasses, BudgetRunsOut, campaignVars, Executing, CampaignInv,
           CampaignTypeOK
  <2> QED BY <1>1, <2>1 DEF LineageRuns, Prepared
<1>2. CASE runs' # runs
  <2>1. CampaignRestart \/ \E r \in Run : Finish(r)
    BY <1>2 DEF CampaignNext, Activate, Pause, ReviseMembership, Revise, Tick, RunStep, Open,
           BeginInvocation, BudgetEndsRun, InvocationDone, InvocationFailed,
           IntervalPasses, BudgetRunsOut, campaignVars
  <2>2. \A r \in Run : /\ exec[r] # "none" => runs[r].status = "PREPARED"
                       /\ runs[r] = NoRun \/ runs[r] \in RunRecord
    BY DEF CampaignInv, Executes, CampaignTypeOK
  <2>3. \A r \in Run :
          \/ runs'[r] = runs[r]
          \/ /\ runs[r].status = "PREPARED"
             /\ runs'[r] = [runs[r] EXCEPT !.status = "ENDED"]
    BY <2>1, <2>2 DEF CampaignRestart, Finish, CampaignInv, CampaignTypeOK
  <2>4. Executing' \subseteq Executing
    BY <2>1 DEF CampaignRestart, Finish, Executing, CampaignInv, CampaignTypeOK
  <2>5. \A r \in Run : runs[r].status = "PREPARED" => runs[r] \in RunRecord
    BY <2>2 DEF NoRun
  <2>6. \A r \in Run :
          \/ runs'[r] = runs[r]
          \/ /\ runs[r].status = "PREPARED" /\ runs'[r].status = "ENDED"
             /\ runs'[r].rev = runs[r].rev /\ runs'[r].task = runs[r].task
    <3> TAKE r \in Run
    <3>1. CASE runs'[r] = runs[r]
      BY <3>1
    <3>2. CASE /\ runs[r].status = "PREPARED"
               /\ runs'[r] = [runs[r] EXCEPT !.status = "ENDED"]
      <4>1. runs[r] \in RunRecord
        BY <2>5, <3>2
      <4> QED BY <3>2, <4>1, RunRecords
    <3> QED BY <2>3, <3>1, <3>2
  <2>7. LineageRuns' = LineageRuns
    BY <2>6 DEF LineageRuns
  <2>8. \A r \in LineageRuns : runs'[r].task = runs[r].task
    BY <2>6 DEF LineageRuns
  <2>9. Prepared' \subseteq Prepared
    BY <2>6, <2>7 DEF Prepared, LineageRuns
  <2> QED BY <2>4, <2>7, <2>8, <2>9
<1> QED BY <1>1, <1>2

-----------------------------------------------------------------------------
(* Concurrency and the budget *)

LEMMA FanoutFitsSlots ==
  ASSUME CampaignInv, ConcurrencyRespected, NEW ts \in Batches
  PROVE  /\ Cardinality(ts) + Cardinality(Prepared) <= MaxConcurrent
         /\ ts \in SUBSET Task /\ IsFiniteSet(ts) /\ Cardinality(ts) \in Nat
<1>1. ts \in SUBSET Task /\ IsFiniteSet(ts) /\ Cardinality(ts) \in Nat
  BY ConstantTypes, FS_Subset, FS_CardinalityType
     DEF Batches, Dispatchable, CampaignInv, CampaignTypeOK
<1>2. Cardinality(Prepared) \in Nat
  BY RunSetsAreFinite DEF Prepared, LineageRuns
<1>3. OpenSlots = MaxConcurrent - Cardinality(Prepared) /\ OpenSlots \in Nat
  BY <1>2, ConstantTypes DEF OpenSlots, NonNeg, ConcurrencyRespected
<1>4. Fanout <= OpenSlots /\ Fanout \in Nat
  <2>1. Cardinality(Dispatchable) \in Nat
    BY ConstantTypes, FS_Subset, FS_CardinalityType DEF Dispatchable, CampaignInv, CampaignTypeOK
  <2> QED BY <1>3, <2>1 DEF Fanout, Least
<1>5. Cardinality(ts) <= Fanout
  <2> DEFINE free == {t \in Dispatchable : \A r \in Executing : runs[r].task # t}
  <2>1. Cardinality(free) \in Nat
    <3>1. free \in SUBSET Task
      BY DEF Dispatchable, CampaignInv, CampaignTypeOK
    <3> QED BY <3>1, ConstantTypes, FS_Subset, FS_CardinalityType
  <2>2. Cardinality(ts) = Least(Fanout, Cardinality(free))
    BY DEF Batches
  <2> QED BY <1>4, <2>1, <2>2 DEF Least
<1> QED BY <1>1, <1>2, <1>3, <1>4, <1>5, ConstantTypes

LEMMA ConcurrencyStep ==
  ASSUME CampaignInv, ConcurrencyRespected, [CampaignNext]_campaignVars
  PROVE  ConcurrencyRespected'
<1>1. CASE DispatchCampaign
  <2>1. PICK ts \in Batches : \E started \in SUBSET ts : StartRuns(campaign.rev, started)
    BY <1>1 DEF DispatchCampaign
  <2>2. PICK started \in SUBSET ts : StartRuns(campaign.rev, started)
    BY <2>1
  <2>3. /\ Cardinality(ts) + Cardinality(Prepared) <= MaxConcurrent
        /\ started \in SUBSET Task /\ Cardinality(started) <= Cardinality(ts)
        /\ Cardinality(started) \in Nat /\ Cardinality(ts) \in Nat
    BY FanoutFitsSlots, FS_Subset, FS_CardinalityType
  <2>4. campaign.rev \in Revision /\ campaign.rev # Manual
    BY ConstantTypes DEF CampaignInv, CampaignTypeOK
  <2>5. PICK new \in SUBSET Run :
          /\ IsFiniteSet(new) /\ Cardinality(new) = Cardinality(started)
          /\ Prepared' = Prepared \cup new
    BY <2>2, <2>3, <2>4, LineageAfterStart
  <2>6. Cardinality(Prepared') <= Cardinality(Prepared) + Cardinality(new)
    <3>1. IsFiniteSet(Prepared)
      BY RunSetsAreFinite DEF Prepared, LineageRuns
    <3> QED BY <2>5, <3>1, UnionBound
  <2>7. Cardinality(Prepared) \in Nat /\ Cardinality(Prepared') \in Nat
    BY <2>5, RunSetsAreFinite DEF Prepared, LineageRuns
  <2> QED BY <2>3, <2>5, <2>6, <2>7, ConstantTypes DEF ConcurrencyRespected
<1>2. ASSUME NEW t \in Task, DispatchManual(t) PROVE ConcurrencyRespected'
  <2>1. Prepared' = Prepared
    BY <1>2, LineageAfterStart DEF DispatchManual
  <2> QED BY <2>1 DEF ConcurrencyRespected
<1>3. CASE ~DispatchCampaign /\ \A t \in Task : ~DispatchManual(t)
  <2>1. Prepared' \subseteq Prepared
    BY <1>3, LineageOtherwise
  <2>2. /\ Cardinality(Prepared') <= Cardinality(Prepared)
        /\ Cardinality(Prepared) \in Nat /\ Cardinality(Prepared') \in Nat
    BY <2>1, RunSetsAreFinite, FS_Subset DEF Prepared, LineageRuns
  <2> QED BY <2>2, ConstantTypes DEF ConcurrencyRespected
<1> QED BY <1>1, <1>2, <1>3

(* ConcurrencyRespected: no interleaving of dispatches, revisions, refused *)
(* batches and restarts lets more runs of a lineage be PREPARED than the   *)
(* campaign's maximumConcurrentRuns.                                       *)
THEOREM ConcurrencyIsRespected == CampaignSpec => []ConcurrencyRespected
<1>1. CampaignInit => ConcurrencyRespected
  <2>1. CampaignInit => Prepared = {}
    BY DEF CampaignInit, Prepared, LineageRuns, NoRun
  <2> QED BY <2>1, FS_EmptySet, ConstantTypes DEF ConcurrencyRespected
<1>2. CampaignInv /\ ConcurrencyRespected /\ [CampaignNext]_campaignVars => ConcurrencyRespected'
  BY ConcurrencyStep
<1> QED BY <1>1, <1>2, CampaignIsSound, PTL DEF CampaignSpec

(* What is in flight is PREPARED, so there is never more of it than runs.   *)
LEMMA InFlightIsPrepared ==
  ASSUME CampaignInv, ConcurrencyRespected
  PROVE  /\ Unrecorded \subseteq Prepared /\ IsFiniteSet(Unrecorded)
         /\ Cardinality(Unrecorded) \in Nat /\ Cardinality(Unrecorded) <= MaxConcurrent
<1>1. Unrecorded \subseteq Prepared
  BY DEF Unrecorded, Prepared, LineageRuns, CampaignInv, Executes
<1>2. IsFiniteSet(Prepared) /\ Cardinality(Prepared) \in Nat
  BY RunSetsAreFinite DEF Prepared, LineageRuns
<1> QED BY <1>1, <1>2, FS_Subset, FS_CardinalityType, ConstantTypes DEF ConcurrencyRespected

LEMMA OverspendStep ==
  ASSUME CampaignInv, ConcurrencyRespected, OverspendIsBounded, [CampaignNext]_campaignVars,
         CampaignInv', ConcurrencyRespected'
  PROVE  OverspendIsBounded'
<1> DEFINE inFlight == Cardinality(Unrecorded)
<1>1. /\ IsFiniteSet(Unrecorded) /\ inFlight \in Nat /\ recorded \in Nat
  BY InFlightIsPrepared DEF CampaignInv, CampaignTypeOK
<1>2. IsFiniteSet(Unrecorded') /\ inFlight' \in Nat /\ inFlight' <= MaxConcurrent
  <2>1. Unrecorded' \subseteq Prepared' /\ Prepared' \subseteq Run
    BY DEF Unrecorded, Prepared, LineageRuns, CampaignInv, Executes
  <2>2. /\ IsFiniteSet(Prepared') /\ Cardinality(Prepared') \in Nat
        /\ IsFiniteSet(Unrecorded') /\ inFlight' \in Nat
    BY <2>1, RunSetsAreFinite
  <2>3. inFlight' <= Cardinality(Prepared')
    BY <2>1, <2>2, FS_Subset
  <2> QED BY <2>2, <2>3, ConstantTypes DEF ConcurrencyRespected
<1>3. ASSUME Unrecorded' \subseteq Unrecorded, recorded' = recorded PROVE OverspendIsBounded'
  BY <1>1, <1>2, <1>3, FS_Subset, ConstantTypes DEF OverspendIsBounded
<1>4. ASSUME NEW v \in Revision \cup {Manual}, NEW ts \in SUBSET Task, StartRuns(v, ts)
      PROVE  OverspendIsBounded'
  <2>1. PICK new \in SUBSET Run :
          /\ v = Manual => LineageRuns' = LineageRuns
          /\ v # Manual => LineageRuns' = LineageRuns \cup new
          /\ \A r \in new : exec'[r] = "opening"
          /\ \A r \in Run \ new : exec'[r] = exec[r]
    BY <1>4, LineageAfterStart
  <2>2. Unrecorded' \subseteq Unrecorded
    BY <2>1 DEF Unrecorded, LineageRuns
  <2> QED BY <1>3, <1>4, <2>2 DEF StartRuns, budget
<1>5. CASE DispatchCampaign
  <2>1. PICK ts \in Batches : \E started \in SUBSET ts : StartRuns(campaign.rev, started)
    BY <1>5 DEF DispatchCampaign
  <2>2. PICK started \in SUBSET ts : StartRuns(campaign.rev, started)
    BY <2>1
  <2>3. started \in SUBSET Task /\ campaign.rev \in Revision
    BY DEF Batches, Dispatchable, CampaignInv, CampaignTypeOK
  <2> QED BY <1>4, <2>2, <2>3
<1>6. ASSUME NEW t \in Task, DispatchManual(t) PROVE OverspendIsBounded'
  BY <1>4, <1>6 DEF DispatchManual
<1>7. ASSUME ~DispatchCampaign, \A t \in Task : ~DispatchManual(t)
      PROVE  LineageRuns' = LineageRuns
  BY <1>7, LineageOtherwise
<1>8. ASSUME NEW r \in Run, BeginInvocation(r), LineageRuns' = LineageRuns
      PROVE  OverspendIsBounded'
  <2>1. recorded' = recorded /\ exec' = [exec EXCEPT ![r] = "calling"] /\ exec[r] = "ready"
    BY <1>8 DEF BeginInvocation, budget
  <2>2. CASE r \in LineageRuns
    <3>1. Remaining(runs[r].rev) > 0 /\ runs[r].rev \in Revision
      <4>1. exec[r] # "none"
        BY <2>1
      <4>2. runs[r] \in RunRecord /\ runs[r].rev # Manual
        BY <2>2, <4>1 DEF LineageRuns, CampaignInv, Executes
      <4> QED BY <1>8, <4>2, RunRecords DEF BeginInvocation, BudgetOpen
    <3>2. recorded < MaxInvocations
      <4>1. reserved[runs[r].rev] \in Nat
        BY <3>1 DEF CampaignInv, CampaignTypeOK
      <4> QED BY <1>1, <3>1, <4>1, ConstantTypes DEF Remaining, NonNeg
    <3> QED BY <1>1, <1>2, <2>1, <3>2, ConstantTypes DEF OverspendIsBounded
  <2>3. CASE r \notin LineageRuns
    <3>1. Unrecorded' \subseteq Unrecorded
      BY <1>8, <2>1, <2>3 DEF Unrecorded, LineageRuns, CampaignInv, CampaignTypeOK
    <3> QED BY <1>3, <2>1, <3>1
  <2> QED BY <2>2, <2>3
<1>9. ASSUME NEW r \in Run, NEW e \in {"none", "ready", "closing"}, NEW ok \in BOOLEAN,
             exec[r] # "none", exec' = [exec EXCEPT ![r] = e], LineageRuns' = LineageRuns,
             recorded' = IF ok /\ runs[r].rev # Manual THEN recorded + 1 ELSE recorded,
             ok => exec[r] \in {"calling", "unsaved"}
      PROVE  OverspendIsBounded'
  <2>1. Unrecorded' \subseteq Unrecorded
    BY <1>9 DEF Unrecorded, LineageRuns, CampaignInv, CampaignTypeOK
  <2>2. CASE recorded' = recorded
    BY <1>3, <2>1, <2>2
  <2>3. CASE recorded' = recorded + 1
    <3>1. ok /\ runs[r].rev # Manual
      BY <1>1, <1>9, <2>3
    <3>2. runs[r].status # "NONE"
      BY <1>9 DEF CampaignInv, Executes
    <3>3. r \in Unrecorded
      BY <1>9, <3>1, <3>2 DEF Unrecorded, LineageRuns
    <3>4. r \notin Unrecorded'
      BY <1>9 DEF Unrecorded, LineageRuns, CampaignInv, CampaignTypeOK
    <3>5. Unrecorded' \subseteq Unrecorded \ {r}
      BY <2>1, <3>4
    <3>6. /\ IsFiniteSet(Unrecorded \ {r})
          /\ Cardinality(Unrecorded \ {r}) = inFlight - 1
      BY <1>1, <3>3, FS_RemoveElement
    <3>7. inFlight' <= inFlight - 1
      BY <3>5, <3>6, FS_Subset
    <3> QED BY <1>1, <1>2, <2>3, <3>7, ConstantTypes DEF OverspendIsBounded
  <2> QED BY <1>9, <2>2, <2>3
<1>10. ASSUME NEW r \in Run, InvocationDone(r), LineageRuns' = LineageRuns
       PROVE  OverspendIsBounded'
  <2>1. PICK ok \in BOOLEAN :
          /\ recorded' = IF ok /\ runs[r].rev # Manual THEN recorded + 1 ELSE recorded
          /\ \E next \in IF ok THEN {"ready", "closing"} ELSE {"unsaved"} :
               exec' = [exec EXCEPT ![r] = next]
    BY <1>10 DEF InvocationDone, Saved
  <2>2. exec[r] = "calling"
    BY <1>10 DEF InvocationDone
  <2>3. CASE ok
    <3>1. PICK next \in {"ready", "closing"} : exec' = [exec EXCEPT ![r] = next]
      BY <2>1, <2>3
    <3> QED BY <1>9, <1>10, <2>1, <2>2, <2>3, <3>1
  <2>4. CASE ~ok
    <3>1. recorded' = recorded /\ exec' = [exec EXCEPT ![r] = "unsaved"]
      BY <2>1, <2>4
    <3>2. Unrecorded' \subseteq Unrecorded
      BY <1>10, <2>2, <3>1 DEF Unrecorded, LineageRuns, CampaignInv, CampaignTypeOK
    <3> QED BY <1>3, <3>1, <3>2
  <2> QED BY <2>3, <2>4
<1>11. ASSUME NEW r \in Run, Finish(r), LineageRuns' = LineageRuns
       PROVE  OverspendIsBounded'
  <2>1. exec[r] # "none" /\ exec' = [exec EXCEPT ![r] = "none"]
    BY <1>11 DEF Finish
  <2>2. PICK ok \in BOOLEAN :
          recorded' = IF ok /\ exec[r] = "unsaved" /\ runs[r].rev # Manual
                        THEN recorded + 1 ELSE recorded
    BY <1>11 DEF Finish, Saved
  <2> DEFINE landed == ok /\ exec[r] = "unsaved"
  <2>3. /\ landed \in BOOLEAN /\ (landed => exec[r] \in {"calling", "unsaved"})
        /\ recorded' = IF landed /\ runs[r].rev # Manual THEN recorded + 1 ELSE recorded
    BY <2>2
  <2> HIDE DEF landed
  <2> QED BY <1>9, <1>11, <2>1, <2>3
<1>12. ASSUME NEW r \in Run, Open(r) \/ BudgetEndsRun(r) \/ InvocationFailed(r),
              LineageRuns' = LineageRuns
       PROVE  OverspendIsBounded'
  <2>1. Unrecorded' \subseteq Unrecorded
    BY <1>12 DEF Open, BudgetEndsRun, InvocationFailed, Unrecorded, LineageRuns,
                 CampaignInv, CampaignTypeOK
  <2> QED BY <1>3, <1>12, <2>1 DEF Open, BudgetEndsRun, InvocationFailed, budget
<1>13. ASSUME Activate \/ Pause \/ (\E m \in SUBSET Task : ReviseMembership(m))
                \/ CampaignRestart \/ IntervalPasses \/ BudgetRunsOut \/ UNCHANGED campaignVars,
              LineageRuns' = LineageRuns
       PROVE  OverspendIsBounded'
  <2>1. Unrecorded' \subseteq Unrecorded /\ recorded' = recorded
    BY <1>13 DEF Activate, Pause, ReviseMembership, Revise, CampaignRestart, IntervalPasses,
                 BudgetRunsOut, campaignVars, budget, Unrecorded, LineageRuns
  <2> QED BY <1>3, <2>1
<1>14. CASE DispatchCampaign \/ Tick \/ \E t \in Task : DispatchManual(t)
  BY <1>5, <1>6, <1>14 DEF Tick
<1>15. CASE ~DispatchCampaign /\ \A t \in Task : ~DispatchManual(t)
  BY <1>7, <1>8, <1>10, <1>11, <1>12, <1>13, <1>14, <1>15 DEF CampaignNext, RunStep, Tick
<1> QED BY <1>14, <1>15

(* OverspendIsBounded: the campaign never has more invocations recorded    *)
(* and in flight than its budget and the other runs it may execute at the  *)
(* same time, although a reservation is released twice.                    *)
THEOREM OverspendIsAtMostConcurrency == CampaignSpec => []OverspendIsBounded
<1>1. CampaignInit => OverspendIsBounded
  <2>1. CampaignInit => Unrecorded = {} /\ recorded = 0
    BY DEF CampaignInit, Unrecorded, LineageRuns
  <2> QED BY <2>1, FS_EmptySet, ConstantTypes DEF OverspendIsBounded
<1>2. /\ CampaignInv /\ ConcurrencyRespected /\ OverspendIsBounded /\ [CampaignNext]_campaignVars
      /\ CampaignInv' /\ ConcurrencyRespected'
      => OverspendIsBounded'
  BY OverspendStep
<1> QED BY <1>1, <1>2, CampaignIsSound, ConcurrencyIsRespected, PTL DEF CampaignSpec

-----------------------------------------------------------------------------
(* One run per task *)

LEMMA NewRunsAreFree ==
  ASSUME CampaignInv, DispatchCampaign
  PROVE  \E new \in SUBSET Run :
           /\ LineageRuns' = LineageRuns \cup new /\ Executing' = Executing \cup new
           /\ \A r \in new : /\ runs'[r].task \in Dispatchable
                             /\ \A s \in Executing : runs[s].task # runs'[r].task
           /\ \A r, s \in new : runs'[r].task = runs'[s].task => r = s
           /\ \A r \in Run \ new : runs'[r] = runs[r]
<1>1. PICK ts \in Batches : \E started \in SUBSET ts : StartRuns(campaign.rev, started)
  BY DEF DispatchCampaign
<1>2. PICK started \in SUBSET ts : StartRuns(campaign.rev, started)
  BY <1>1
<1>3. /\ ts \subseteq Dispatchable /\ started \in SUBSET Task
      /\ \A t \in ts : \A s \in Executing : runs[s].task # t
  BY DEF Batches, Dispatchable, CampaignInv, CampaignTypeOK
<1>4. campaign.rev \in Revision /\ campaign.rev # Manual
  BY ConstantTypes DEF CampaignInv, CampaignTypeOK
<1>5. PICK new \in SUBSET Run :
        /\ LineageRuns' = LineageRuns \cup new /\ Executing' = Executing \cup new
        /\ \A r \in new : runs'[r].task \in started
        /\ \A r, s \in new : runs'[r].task = runs'[s].task => r = s
        /\ \A r \in Run \ new : runs'[r] = runs[r]
  BY <1>2, <1>3, <1>4, LineageAfterStart
<1> QED BY <1>2, <1>3, <1>5

LEMMA ManualKeepsLineage ==
  ASSUME CampaignInv, NEW t \in Task, DispatchManual(t)
  PROVE  /\ LineageRuns' = LineageRuns
         /\ \A r \in LineageRuns : runs'[r] = runs[r]
         /\ Executing' \cap LineageRuns = Executing \cap LineageRuns
<1>1. PICK new \in SUBSET Run :
        /\ LineageRuns' = LineageRuns /\ Executing' = Executing \cup new
        /\ \A r \in new : runs[r] = NoRun
        /\ \A r \in Run \ new : runs'[r] = runs[r]
  BY LineageAfterStart DEF DispatchManual
<1>2. \A r \in LineageRuns : r \notin new
  BY <1>1 DEF LineageRuns, NoRun
<1> QED BY <1>1, <1>2 DEF LineageRuns

(* OnceRespected: under ONCE_PER_TASK_PER_LINEAGE no revision, overlap,    *)
(* refused batch or restart gives a task a second run of the lineage.      *)
THEOREM OnceIsRespected == CampaignSpec => []OnceRespected
<1>1. CampaignInit => OnceRespected
  BY DEF CampaignInit, OnceRespected, LineageRuns, NoRun
<1>2. ASSUME CampaignInv, OnceRespected, [CampaignNext]_campaignVars, OncePerTask,
             NEW r \in LineageRuns', NEW s \in LineageRuns', runs'[r].task = runs'[s].task
      PROVE  r = s
  <2>1. CASE DispatchCampaign
    <3>1. PICK new \in SUBSET Run :
            /\ LineageRuns' = LineageRuns \cup new
            /\ \A x \in new : runs'[x].task \in Dispatchable
            /\ \A x, y \in new : runs'[x].task = runs'[y].task => x = y
            /\ \A x \in Run \ new : runs'[x] = runs[x]
      BY <1>2, <2>1, NewRunsAreFree
    <3>2. \A t \in Dispatchable : \A x \in LineageRuns : runs[x].task # t
      BY <1>2 DEF Dispatchable
    <3> QED BY <1>2, <3>1, <3>2 DEF OnceRespected, LineageRuns
  <2>2. ASSUME NEW t \in Task, DispatchManual(t) PROVE r = s
    BY <1>2, <2>2, ManualKeepsLineage DEF OnceRespected
  <2>3. CASE ~DispatchCampaign /\ \A t \in Task : ~DispatchManual(t)
    BY <1>2, <2>3, LineageOtherwise DEF OnceRespected
  <2> QED BY <2>1, <2>2, <2>3
<1>3. CampaignInv /\ OnceRespected /\ [CampaignNext]_campaignVars => OnceRespected'
  BY <1>2 DEF OnceRespected
<1> QED BY <1>1, <1>3, CampaignIsSound, PTL DEF CampaignSpec

(* TasksAreNotShared: two runs the campaign dispatched never execute the   *)
(* same task at once in one process.                                       *)
THEOREM TasksStayApart == CampaignSpec => []TasksAreNotShared
<1>1. CampaignInit => TasksAreNotShared
  BY DEF CampaignInit, TasksAreNotShared, Executing
<1>2. ASSUME CampaignInv, TasksAreNotShared, [CampaignNext]_campaignVars,
             NEW r \in (Executing \cap LineageRuns)', NEW s \in (Executing \cap LineageRuns)',
             runs'[r].task = runs'[s].task
      PROVE  r = s
  <2>1. CASE DispatchCampaign
    <3>1. PICK new \in SUBSET Run :
            /\ LineageRuns' = LineageRuns \cup new /\ Executing' = Executing \cup new
            /\ \A x \in new : \A y \in Executing : runs[y].task # runs'[x].task
            /\ \A x, y \in new : runs'[x].task = runs'[y].task => x = y
            /\ \A x \in Run \ new : runs'[x] = runs[x]
      BY <1>2, <2>1, NewRunsAreFree
    <3> QED BY <1>2, <3>1 DEF TasksAreNotShared, LineageRuns
  <2>2. ASSUME NEW t \in Task, DispatchManual(t) PROVE r = s
    BY <1>2, <2>2, ManualKeepsLineage DEF TasksAreNotShared
  <2>3. CASE ~DispatchCampaign /\ \A t \in Task : ~DispatchManual(t)
    BY <1>2, <2>3, LineageOtherwise DEF TasksAreNotShared
  <2> QED BY <2>1, <2>2, <2>3
<1>3. CampaignInv /\ TasksAreNotShared /\ [CampaignNext]_campaignVars => TasksAreNotShared'
  BY <1>2 DEF TasksAreNotShared
<1> QED BY <1>1, <1>3, CampaignIsSound, PTL DEF CampaignSpec

-----------------------------------------------------------------------------

Newest(m) == m.events[Len(m.events)]

(* A machine the validator accepts. *)
Good(m) == m \in Machine /\ Replays(m)

-----------------------------------------------------------------------------
(* The lifecycle *)

LEMMA Appended ==
  ASSUME NEW m, Good(m), NEW kind \in EventKind
  PROVE  LET events == Append(m.events, kind)
         IN  /\ events \in Seq(EventKind)
             /\ Len(events) = Len(m.events) + 1
             /\ events[Len(events)] = kind
             /\ \A i \in 1..Len(m.events) : events[i] = m.events[i]
             /\ m.events[1] = "DISCOVERED" /\ Len(m.events) >= 1
             /\ Len(m.events) \in Nat
  BY DEF Good, Machine, Replays

LEMMA AdvanceReplays ==
  ASSUME NEW m, Good(m), NEW kind \in EventKind, kind # "CERTIFICATE_BOUND",
         Newest(m) \in MayPrecede(kind, m.policy),
         NEW state \in LifecycleState, state = StateAfter(kind, m.policy)
  PROVE  LET n == Advance(m, state, kind)
         IN  /\ Good(n) /\ Newest(n) = kind /\ n.policy = m.policy /\ n.state = state
             /\ n.certified = m.certified
             /\ Continues(n.events, m.events) /\ Happened(n, kind)
<1> DEFINE n == Advance(m, state, kind)
<1>1. /\ n.events = Append(m.events, kind) /\ n.state = state
      /\ n.policy = m.policy /\ n.certified = m.certified /\ n \in Machine
  BY Appended DEF Advance, Good, Machine
<1>2. Continues(n.events, m.events)
  BY <1>1, Appended DEF Continues
<1>3. Newest(n) = kind /\ Happened(n, kind)
  BY <1>1, Appended DEF Newest, Happened
<1>4. \A i \in 2..Len(n.events) : n.events[i - 1] \in MayPrecede(n.events[i], n.policy)
  <2> SUFFICES ASSUME NEW i \in 2..Len(n.events)
               PROVE  n.events[i - 1] \in MayPrecede(n.events[i], m.policy)
    BY <1>1
  <2>1. CASE i = Len(n.events)
    <3>1. i - 1 = Len(m.events) /\ n.events[i - 1] = Newest(m) /\ n.events[i] = kind
      BY <1>1, <2>1, Appended DEF Newest
    <3> QED BY <3>1
  <2>2. CASE i # Len(n.events)
    <3>1. i \in 2..Len(m.events) /\ i - 1 \in 1..Len(m.events) /\ i \in 1..Len(m.events)
      BY <1>1, <2>2, Appended
    <3>2. n.events[i - 1] = m.events[i - 1] /\ n.events[i] = m.events[i]
      BY <1>1, <3>1, Appended
    <3> QED BY <3>1, <3>2 DEF Good, Replays
  <2> QED BY <2>1, <2>2
<1>5. n.certified = Happened(n, "CERTIFICATE_BOUND")
  <2>1. DOMAIN n.events = 1..(Len(m.events) + 1) /\ DOMAIN m.events = 1..Len(m.events)
    BY <1>1, Appended DEF Good, Machine
  <2>2. Happened(n, "CERTIFICATE_BOUND") <=> Happened(m, "CERTIFICATE_BOUND")
    BY <1>1, <2>1, Appended DEF Happened
  <2> QED BY <1>1, <2>2 DEF Good, Replays, Happened
<1>6. Replays(n)
  BY <1>1, <1>3, <1>4, <1>5, Appended DEF Replays, Newest
<1> QED BY <1>1, <1>2, <1>3, <1>6 DEF Good

LEMMA ContinuesIsTransitive ==
  ASSUME NEW s \in Seq(EventKind), NEW t \in Seq(EventKind), NEW u \in Seq(EventKind),
         Continues(s, t), Continues(t, u)
  PROVE  Continues(s, u)
  BY DEF Continues

LEMMA HappenedStays ==
  ASSUME NEW n, NEW m, n \in Machine, m \in Machine, Continues(n.events, m.events),
         NEW kind, Happened(m, kind)
  PROVE  Happened(n, kind)
<1>1. PICK i \in DOMAIN m.events : m.events[i] = kind
  BY DEF Happened
<1>2. i \in 1..Len(m.events) /\ i \in DOMAIN n.events
  BY <1>1 DEF Continues, Machine
<1> QED BY <1>1, <1>2 DEF Continues, Happened

(* The state a machine is in names the event it saw last. *)
LEMMA LastOfState ==
  ASSUME NEW m, Good(m)
  PROVE  /\ m.state = "AWAITING_SEMANTIC_REVIEW" => Newest(m) = "DISCOVERED"
         /\ m.state = "AWAITING_EXCHANGE_SIMULATION" => Newest(m) = "SEMANTIC_REVIEW_ACCEPTED"
         /\ m.state = "AWAITING_HUMAN_APPROVAL" => Newest(m) = "HUMAN_APPROVAL_REQUESTED"
<1>1. Newest(m) \in EventKind
  BY DEF Good, Machine, Replays, Newest
<1>2. m.state = StateAfter(Newest(m), m.policy)
  BY DEF Good, Replays, Newest
<1> QED BY <1>1, <1>2 DEF StateAfter, EventKind


(* n is m some accepted steps later. *)
Grows(n, m) == Good(n) /\ n.policy = m.policy /\ Continues(n.events, m.events)

LEMMA GrowsIsTransitive ==
  ASSUME NEW k, NEW n, NEW m, Good(m), Grows(n, m), Grows(k, n)
  PROVE  Grows(k, m)
  BY ContinuesIsTransitive DEF Grows, Good, Machine

LEMMA DiscoveredIsGood ==
  ASSUME NEW policy \in LifecyclePolicy
  PROVE  Good(Discovered(policy)) /\ Good(PreflightRejected(Discovered(policy)))
<1> DEFINE d == Discovered(policy)
<1>1. d \in Machine
  BY DEF Discovered, Machine, LifecycleState, EventKind
<1>2. Replays(d)
  BY DEF Discovered, Replays, StateAfter, Happened
<1>3. Good(d) /\ Newest(d) = "DISCOVERED"
  BY <1>1, <1>2 DEF Good, Newest, Discovered
<1>4. "DISCOVERED" \in MayPrecede("PREFLIGHT_REJECTED", d.policy)
      /\ StateAfter("PREFLIGHT_REJECTED", d.policy) = "REJECTED_PREFLIGHT"
      /\ "PREFLIGHT_REJECTED" \in EventKind /\ "REJECTED_PREFLIGHT" \in LifecycleState
  BY DEF MayPrecede, StateAfter, EventKind, LifecycleState
<1>5. Good(Advance(d, "REJECTED_PREFLIGHT", "PREFLIGHT_REJECTED"))
  BY <1>3, <1>4, AdvanceReplays
<1> QED BY <1>3, <1>5 DEF PreflightRejected

LEMMA ReviewIsGood ==
  ASSUME NEW m, Good(m), m.state = "AWAITING_SEMANTIC_REVIEW",
         NEW decision \in {"ACCEPT", "REJECT"}
  PROVE  LET n == SemanticReview(m, decision)
         IN  /\ Grows(n, m)
             /\ \/ Happened(n, "SEMANTIC_REVIEW_ACCEPTED")
                \/ Happened(n, "SEMANTIC_REVIEW_REJECTED")
<1>1. Newest(m) = "DISCOVERED"
  BY LastOfState
<1>2. CASE decision = "ACCEPT"
  <2>1. /\ "DISCOVERED" \in MayPrecede("SEMANTIC_REVIEW_ACCEPTED", m.policy)
        /\ StateAfter("SEMANTIC_REVIEW_ACCEPTED", m.policy) = "AWAITING_EXCHANGE_SIMULATION"
        /\ "SEMANTIC_REVIEW_ACCEPTED" \in EventKind
        /\ "AWAITING_EXCHANGE_SIMULATION" \in LifecycleState
    BY DEF MayPrecede, StateAfter, EventKind, LifecycleState
  <2> QED BY <1>1, <1>2, <2>1, AdvanceReplays DEF SemanticReview, Grows
<1>3. CASE decision = "REJECT"
  <2>1. /\ "DISCOVERED" \in MayPrecede("SEMANTIC_REVIEW_REJECTED", m.policy)
        /\ StateAfter("SEMANTIC_REVIEW_REJECTED", m.policy) = "REJECTED_SEMANTICS"
        /\ "SEMANTIC_REVIEW_REJECTED" \in EventKind
        /\ "REJECTED_SEMANTICS" \in LifecycleState
    BY DEF MayPrecede, StateAfter, EventKind, LifecycleState
  <2> QED BY <1>1, <1>3, <2>1, AdvanceReplays DEF SemanticReview, Grows
<1> QED BY <1>2, <1>3

LEMMA SimulationIsGood ==
  ASSUME NEW m, Good(m), m.state = "AWAITING_EXCHANGE_SIMULATION",
         NEW status \in SimulationStatus
  PROVE  LET n == OpportunitySimulation(m, status)
         IN  /\ Grows(n, m)
             /\ \/ Happened(n, "SIMULATION_ACCEPTED")
                \/ Happened(n, "SIMULATION_REJECTED")
                \/ Happened(n, "MODEL_CALIBRATION_REQUIRED")
             /\ status = "POSITIVE_FLOOR" =>
                  Newest(n) = "SIMULATION_ACCEPTED" /\ n.state = "AWAITING_EXACT_CERTIFICATE"
<1>1. Newest(m) = "SEMANTIC_REVIEW_ACCEPTED"
  BY LastOfState
<1>2. CASE status = "POSITIVE_FLOOR"
  <2>1. /\ "SEMANTIC_REVIEW_ACCEPTED" \in MayPrecede("SIMULATION_ACCEPTED", m.policy)
        /\ StateAfter("SIMULATION_ACCEPTED", m.policy) = "AWAITING_EXACT_CERTIFICATE"
        /\ "SIMULATION_ACCEPTED" \in EventKind
        /\ "AWAITING_EXACT_CERTIFICATE" \in LifecycleState
    BY DEF MayPrecede, StateAfter, EventKind, LifecycleState
  <2> QED BY <1>1, <1>2, <2>1, AdvanceReplays DEF OpportunitySimulation, Grows
<1>3. CASE status = "NO_POSITIVE_FLOOR"
  <2>1. /\ "SEMANTIC_REVIEW_ACCEPTED" \in MayPrecede("SIMULATION_REJECTED", m.policy)
        /\ StateAfter("SIMULATION_REJECTED", m.policy) = "REJECTED_SIMULATION"
        /\ "SIMULATION_REJECTED" \in EventKind
        /\ "REJECTED_SIMULATION" \in LifecycleState
    BY DEF MayPrecede, StateAfter, EventKind, LifecycleState
  <2> QED BY <1>1, <1>3, <2>1, AdvanceReplays DEF OpportunitySimulation, Grows
<1>4. CASE status = "CALIBRATION_REQUIRED"
  <2>1. /\ "SEMANTIC_REVIEW_ACCEPTED" \in MayPrecede("MODEL_CALIBRATION_REQUIRED", m.policy)
        /\ StateAfter("MODEL_CALIBRATION_REQUIRED", m.policy) = "AWAITING_MODEL_CALIBRATION"
        /\ "MODEL_CALIBRATION_REQUIRED" \in EventKind
        /\ "AWAITING_MODEL_CALIBRATION" \in LifecycleState
    BY DEF MayPrecede, StateAfter, EventKind, LifecycleState
  <2> QED BY <1>1, <1>4, <2>1, AdvanceReplays DEF OpportunitySimulation, Grows
<1> QED BY <1>2, <1>3, <1>4 DEF SimulationStatus

LEMMA RejectionIsGood ==
  ASSUME NEW m, Good(m), Newest(m) = "SIMULATION_ACCEPTED"
  PROVE  LET n == ExactVerificationRejected(m)
         IN  Grows(n, m) /\ Happened(n, "EXACT_VERIFICATION_REJECTED")
<1>1. /\ "SIMULATION_ACCEPTED" \in MayPrecede("EXACT_VERIFICATION_REJECTED", m.policy)
      /\ StateAfter("EXACT_VERIFICATION_REJECTED", m.policy) = "REJECTED_EXACT_VERIFICATION"
      /\ "EXACT_VERIFICATION_REJECTED" \in EventKind
      /\ "REJECTED_EXACT_VERIFICATION" \in LifecycleState
  BY DEF MayPrecede, StateAfter, EventKind, LifecycleState
<1> QED BY <1>1, AdvanceReplays DEF ExactVerificationRejected, Grows

(* The machine between CERTIFICATE_BOUND and the event of its route. *)
Bound(m) ==
    [Advance(m, StateAfter("CERTIFICATE_BOUND", m.policy), "CERTIFICATE_BOUND")
       EXCEPT !.certified = TRUE]

LEMMA BoundIsGood ==
  ASSUME NEW m, Good(m), Newest(m) = "SIMULATION_ACCEPTED"
  PROVE  LET n == Bound(m)
         IN  /\ Grows(n, m) /\ Newest(n) = "CERTIFICATE_BOUND"
             /\ Happened(n, "CERTIFICATE_BOUND") /\ n.certified
<1> DEFINE n == Bound(m)
<1> DEFINE state == StateAfter("CERTIFICATE_BOUND", m.policy)
<1>1. state \in LifecycleState /\ "CERTIFICATE_BOUND" \in EventKind
      /\ "SIMULATION_ACCEPTED" \in MayPrecede("CERTIFICATE_BOUND", m.policy)
  BY DEF StateAfter, LifecycleState, EventKind, MayPrecede
<1>2. /\ n.events = Append(m.events, "CERTIFICATE_BOUND") /\ n.state = state
      /\ n.policy = m.policy /\ n.certified = TRUE /\ n \in Machine
  BY <1>1, Appended DEF Bound, Advance, Good, Machine
<1>3. Continues(n.events, m.events)
  BY <1>1, <1>2, Appended DEF Continues
<1>4. Newest(n) = "CERTIFICATE_BOUND" /\ Happened(n, "CERTIFICATE_BOUND")
  BY <1>1, <1>2, Appended DEF Newest, Happened
<1>5. \A i \in 2..Len(n.events) : n.events[i - 1] \in MayPrecede(n.events[i], n.policy)
  <2> SUFFICES ASSUME NEW i \in 2..Len(n.events)
               PROVE  n.events[i - 1] \in MayPrecede(n.events[i], m.policy)
    BY <1>2
  <2>1. CASE i = Len(n.events)
    <3>1. /\ i - 1 = Len(m.events) /\ n.events[i - 1] = Newest(m)
          /\ n.events[i] = "CERTIFICATE_BOUND"
      BY <1>1, <1>2, <2>1, Appended DEF Newest
    <3> QED BY <1>1, <3>1
  <2>2. CASE i # Len(n.events)
    <3>1. i \in 2..Len(m.events) /\ i - 1 \in 1..Len(m.events) /\ i \in 1..Len(m.events)
      BY <1>1, <1>2, <2>2, Appended
    <3>2. n.events[i - 1] = m.events[i - 1] /\ n.events[i] = m.events[i]
      BY <1>1, <1>2, <3>1, Appended
    <3> QED BY <3>1, <3>2 DEF Good, Replays
  <2> QED BY <2>1, <2>2
<1>6. n.events # <<>> /\ n.events[1] = "DISCOVERED"
  BY <1>1, <1>2, Appended
<1>7. n.certified = Happened(n, "CERTIFICATE_BOUND")
  BY <1>2, <1>4 DEF Happened
<1>8. n.state = StateAfter(n.events[Len(n.events)], n.policy)
  BY <1>2, <1>4 DEF Newest
<1>9. Replays(n)
  BY <1>5, <1>6, <1>7, <1>8 DEF Replays
<1> QED BY <1>2, <1>3, <1>4, <1>9 DEF Grows, Good

LEMMA CertificateIsGood ==
  ASSUME NEW m, Good(m), Newest(m) = "SIMULATION_ACCEPTED",
         m.state = "AWAITING_EXACT_CERTIFICATE"
  PROVE  LET n == CertificateBound(m)
         IN  /\ Grows(n, m) /\ Happened(n, "CERTIFICATE_BOUND") /\ n.certified
             /\ m.policy.route = "AUTO_SHADOW" => Newest(n) = "AUTO_SHADOW_QUEUED"
<1> DEFINE b == Bound(m)
<1> DEFINE bound == [Advance(m, m.state, "CERTIFICATE_BOUND") EXCEPT !.certified = TRUE]
<1> USE DEF Grows
<1>1. Grows(b, m) /\ Newest(b) = "CERTIFICATE_BOUND" /\ Happened(b, "CERTIFICATE_BOUND")
      /\ b.certified /\ b.policy = m.policy
  BY BoundIsGood
<1>2. m \in Machine /\ m.policy \in LifecyclePolicy
  BY DEF Good, Machine
<1>3. CASE m.policy.route = "NOTIFY_ONLY" /\ m.policy.inApp
  <2>1. /\ "CERTIFICATE_BOUND" \in MayPrecede("IN_APP_NOTIFICATION_QUEUED", b.policy)
        /\ StateAfter("IN_APP_NOTIFICATION_QUEUED", b.policy) = "NOTIFIED_ONLY"
        /\ "IN_APP_NOTIFICATION_QUEUED" \in EventKind /\ "NOTIFIED_ONLY" \in LifecycleState
    BY <1>1, <1>3 DEF MayPrecede, StateAfter, EventKind, LifecycleState
  <2> DEFINE n == Advance(b, "NOTIFIED_ONLY", "IN_APP_NOTIFICATION_QUEUED")
  <2>2. Good(n) /\ n.policy = m.policy /\ Continues(n.events, b.events) /\ n.certified
    BY <1>1, <2>1, AdvanceReplays
  <2>3. CertificateBound(m) = n
    BY <1>2, <1>3 DEF CertificateBound, Bound, Advance, Machine
  <2>4. Grows(n, m)
    BY <1>1, <2>2, GrowsIsTransitive
  <2>5. Happened(n, "CERTIFICATE_BOUND")
    BY <1>1, <2>2, HappenedStays DEF Good
  <2> QED BY <1>3, <2>2, <2>3, <2>4, <2>5
<1>4. CASE m.policy.route = "NOTIFY_ONLY" /\ ~m.policy.inApp
  <2>1. StateAfter("CERTIFICATE_BOUND", m.policy) = "NOTIFIED_ONLY"
    BY <1>4 DEF StateAfter
  <2>2. CertificateBound(m) = b
    BY <1>2, <1>4, <2>1 DEF CertificateBound, Bound, Advance, Machine
  <2> QED BY <1>1, <1>4, <2>2
<1>5. CASE m.policy.route = "REQUIRE_HUMAN_APPROVAL"
  <2>1. /\ "CERTIFICATE_BOUND" \in MayPrecede("HUMAN_APPROVAL_REQUESTED", b.policy)
        /\ StateAfter("HUMAN_APPROVAL_REQUESTED", b.policy) = "AWAITING_HUMAN_APPROVAL"
        /\ "HUMAN_APPROVAL_REQUESTED" \in EventKind
        /\ "AWAITING_HUMAN_APPROVAL" \in LifecycleState
    BY <1>1, <1>5 DEF MayPrecede, StateAfter, EventKind, LifecycleState
  <2> DEFINE n == Advance(b, "AWAITING_HUMAN_APPROVAL", "HUMAN_APPROVAL_REQUESTED")
  <2>2. Good(n) /\ n.policy = m.policy /\ Continues(n.events, b.events) /\ n.certified
    BY <1>1, <2>1, AdvanceReplays
  <2>3. CertificateBound(m) = n
    BY <1>2, <1>5 DEF CertificateBound, Bound, Advance, Machine
  <2>4. Grows(n, m)
    BY <1>1, <2>2, GrowsIsTransitive
  <2>5. Happened(n, "CERTIFICATE_BOUND")
    BY <1>1, <2>2, HappenedStays DEF Good
  <2> QED BY <1>5, <2>2, <2>3, <2>4, <2>5
<1>6. CASE m.policy.route = "AUTO_SHADOW"
  <2>1. /\ "CERTIFICATE_BOUND" \in MayPrecede("AUTO_SHADOW_QUEUED", b.policy)
        /\ StateAfter("AUTO_SHADOW_QUEUED", b.policy) = "SHADOW_READY"
        /\ "AUTO_SHADOW_QUEUED" \in EventKind /\ "SHADOW_READY" \in LifecycleState
    BY <1>1, <1>6 DEF MayPrecede, StateAfter, EventKind, LifecycleState
  <2> DEFINE n == Advance(b, "SHADOW_READY", "AUTO_SHADOW_QUEUED")
  <2>2. /\ Good(n) /\ n.policy = m.policy /\ Continues(n.events, b.events) /\ n.certified
        /\ Newest(n) = "AUTO_SHADOW_QUEUED"
    BY <1>1, <2>1, AdvanceReplays
  <2>3. CertificateBound(m) = n
    BY <1>2, <1>6 DEF CertificateBound, Bound, Advance, Machine
  <2>4. Grows(n, m)
    BY <1>1, <2>2, GrowsIsTransitive
  <2>5. Happened(n, "CERTIFICATE_BOUND")
    BY <1>1, <2>2, HappenedStays DEF Good
  <2> QED BY <2>2, <2>3, <2>4, <2>5
<1> QED BY <1>2, <1>3, <1>4, <1>5, <1>6 DEF LifecyclePolicy

LEMMA ShadowIsGood ==
  ASSUME NEW m, Good(m), Newest(m) \in {"HUMAN_APPROVED_SHADOW", "AUTO_SHADOW_QUEUED"}
  PROVE  LET n == CompleteShadow(BeginShadow(m))
         IN  Grows(n, m) /\ Happened(n, "SHADOW_COMPLETED") /\ n.state = "SHADOW_COMPLETE"
<1> DEFINE r == Advance(m, "SHADOW_RUNNING", "SHADOW_STARTED")
<1> DEFINE n == Advance(r, "SHADOW_COMPLETE", "SHADOW_COMPLETED")
<1>1. /\ MayPrecede("SHADOW_STARTED", m.policy) = {"HUMAN_APPROVED_SHADOW", "AUTO_SHADOW_QUEUED"}
      /\ StateAfter("SHADOW_STARTED", m.policy) = "SHADOW_RUNNING"
      /\ "SHADOW_STARTED" \in EventKind /\ "SHADOW_RUNNING" \in LifecycleState
  BY DEF MayPrecede, StateAfter, EventKind, LifecycleState
<1>2. Grows(r, m) /\ Newest(r) = "SHADOW_STARTED"
  BY <1>1, AdvanceReplays DEF Grows
<1>3. /\ "SHADOW_STARTED" \in MayPrecede("SHADOW_COMPLETED", r.policy)
      /\ StateAfter("SHADOW_COMPLETED", r.policy) = "SHADOW_COMPLETE"
      /\ "SHADOW_COMPLETED" \in EventKind /\ "SHADOW_COMPLETE" \in LifecycleState
  BY DEF MayPrecede, StateAfter, EventKind, LifecycleState
<1>4. Grows(n, r) /\ Happened(n, "SHADOW_COMPLETED") /\ n.state = "SHADOW_COMPLETE"
  BY <1>2, <1>3, AdvanceReplays DEF Grows
<1>5. Grows(n, m)
  BY <1>2, <1>4, GrowsIsTransitive
<1> QED BY <1>4, <1>5 DEF CompleteShadow, BeginShadow

LEMMA DecisionIsGood ==
  ASSUME NEW m, Good(m), m.state = "AWAITING_HUMAN_APPROVAL",
         NEW decision \in {"APPROVE_SHADOW", "REJECT"}
  PROVE  LET n == HumanDecision(m, decision)
         IN  /\ Grows(n, m)
             /\ decision = "APPROVE_SHADOW" => Newest(n) = "HUMAN_APPROVED_SHADOW"
<1>1. Newest(m) = "HUMAN_APPROVAL_REQUESTED"
  BY LastOfState
<1>2. /\ "HUMAN_APPROVAL_REQUESTED" \in MayPrecede("HUMAN_APPROVED_SHADOW", m.policy)
      /\ "HUMAN_APPROVAL_REQUESTED" \in MayPrecede("HUMAN_REJECTED", m.policy)
      /\ StateAfter("HUMAN_APPROVED_SHADOW", m.policy) = "SHADOW_READY"
      /\ StateAfter("HUMAN_REJECTED", m.policy) = "REJECTED_BY_OPERATOR"
      /\ {"HUMAN_APPROVED_SHADOW", "HUMAN_REJECTED"} \subseteq EventKind
      /\ {"SHADOW_READY", "REJECTED_BY_OPERATOR"} \subseteq LifecycleState
  BY DEF MayPrecede, StateAfter, EventKind, LifecycleState
<1>3. CASE decision = "APPROVE_SHADOW"
  BY <1>1, <1>2, <1>3, AdvanceReplays DEF HumanDecision, Grows
<1>4. CASE decision = "REJECT"
  BY <1>1, <1>2, <1>4, AdvanceReplays DEF HumanDecision, Grows
<1> QED BY <1>3, <1>4

(* A completed shadow was started on a route that allows it. *)
LEMMA CompletedWasRouted ==
  ASSUME NEW m, Good(m), Happened(m, "SHADOW_COMPLETED")
  PROVE  /\ m.certified
         /\ m.policy.route = "AUTO_SHADOW" \/ Happened(m, "HUMAN_APPROVED_SHADOW")
<1> DEFINE e == m.events
<1>1. /\ e \in Seq(EventKind) /\ e[1] = "DISCOVERED"
      /\ \A i \in 2..Len(e) : e[i - 1] \in MayPrecede(e[i], m.policy)
      /\ m.certified = Happened(m, "CERTIFICATE_BOUND")
  BY DEF Good, Machine, Replays
<1>2. PICK i \in 1..Len(e) : e[i] = "SHADOW_COMPLETED"
  BY <1>1 DEF Happened
<1>3. i - 1 \in 1..Len(e) /\ e[i - 1] = "SHADOW_STARTED"
  <2>1. i # 1
    BY <1>1, <1>2
  <2>2. e[i - 1] \in MayPrecede("SHADOW_COMPLETED", m.policy)
    BY <1>1, <1>2, <2>1
  <2>3. e[i - 1] = "SHADOW_STARTED"
    BY <2>2 DEF MayPrecede
  <2> QED BY <1>1, <1>2, <2>1, <2>3
<1>4. i - 2 \in 1..Len(e) /\ e[i - 2] \in {"HUMAN_APPROVED_SHADOW", "AUTO_SHADOW_QUEUED"}
  <2>1. i - 1 # 1
    BY <1>1, <1>3
  <2>2. e[i - 2] \in MayPrecede("SHADOW_STARTED", m.policy)
    BY <1>1, <1>2, <1>3, <2>1
  <2>3. e[i - 2] \in {"HUMAN_APPROVED_SHADOW", "AUTO_SHADOW_QUEUED"}
    BY <2>2 DEF MayPrecede
  <2> QED BY <1>1, <1>2, <1>3, <2>1, <2>3
<1>5. CASE e[i - 2] = "HUMAN_APPROVED_SHADOW"
  <2>1. i - 3 \in 1..Len(e) /\ e[i - 3] = "HUMAN_APPROVAL_REQUESTED"
    <3>1. i - 2 # 1
      BY <1>1, <1>5
    <3>2. e[i - 3] \in MayPrecede("HUMAN_APPROVED_SHADOW", m.policy)
      BY <1>1, <1>2, <1>4, <1>5, <3>1
    <3>3. e[i - 3] = "HUMAN_APPROVAL_REQUESTED"
      BY <3>2 DEF MayPrecede
    <3> QED BY <1>1, <1>4, <3>1, <3>3
  <2>2. i - 4 \in 1..Len(e) /\ e[i - 4] = "CERTIFICATE_BOUND"
    <3>1. i - 3 # 1
      BY <1>1, <2>1
    <3>2. e[i - 4] \in MayPrecede("HUMAN_APPROVAL_REQUESTED", m.policy)
      BY <1>1, <1>2, <2>1, <3>1
    <3>3. e[i - 4] = "CERTIFICATE_BOUND"
      BY <3>2 DEF MayPrecede
    <3> QED BY <1>1, <2>1, <3>1, <3>3
  <2> QED BY <1>1, <1>4, <1>5, <2>2 DEF Happened
<1>6. CASE e[i - 2] = "AUTO_SHADOW_QUEUED"
  <2>1. i - 2 # 1
    BY <1>1, <1>6
  <2>2. e[i - 3] \in MayPrecede("AUTO_SHADOW_QUEUED", m.policy)
    BY <1>1, <1>2, <1>4, <1>6, <2>1
  <2>3. e[i - 3] = "CERTIFICATE_BOUND" /\ m.policy.route = "AUTO_SHADOW"
    BY <2>2 DEF MayPrecede
  <2> QED BY <1>1, <1>4, <2>1, <2>3 DEF Happened
<1> QED BY <1>4, <1>5, <1>6

-----------------------------------------------------------------------------
(* The entries *)

(* An entry the desk can hold: everything it keeps is bound by its events, and
   it has at most one shadow run, made when the lifecycle completed. *)
SoundEntry(e) ==
    /\ e \in Entry /\ Good(e.machine) /\ JournalBinds(e)
    /\ e.runs > 0 => e.runs = 1 /\ e.machine.state = "SHADOW_COMPLETE"

(* Memory, table and answers of one case are prefixes of one history. *)
OneHistory(o) ==
    /\ entries[o] = NoEntry => deskRows[o] = NoEntry /\ answered[o] = <<>>
    /\ entries[o] # NoEntry => /\ SoundEntry(entries[o])
                               /\ Continues(entries[o].machine.events, answered[o])
    /\ deskRows[o] # NoEntry => /\ SoundEntry(deskRows[o])
                            /\ deskRows[o].observations <= ObservationLimit
                            /\ ExtendsRow(entries[o], deskRows[o])
                            /\ Continues(deskRows[o].machine.events, answered[o])

Histories ==
    /\ entries \in [Opportunity -> Entry \cup {NoEntry}]
    /\ deskRows \in [Opportunity -> Entry \cup {NoEntry}]
    /\ order \in Seq(Opportunity)
    /\ answered \in [Opportunity -> Seq(EventKind)]
    /\ failedSaves \in Nat
    /\ \A o \in Opportunity : OneHistory(o)

Surroundings ==
    /\ offered \in Seq(Case)
    /\ asked \subseteq Case \X Purpose
    /\ expired \in SUBSET Opportunity
    /\ defaultPolicy \in DefaultPolicies
    /\ restarts \in Nat

DeskInv == Histories /\ Surroundings

LEMMA SoundIsEntry ==
  ASSUME NEW e, SoundEntry(e)
  PROVE  e \in Entry /\ e # NoEntry /\ e.machine.events \in Seq(EventKind)
  BY NoEntryAssumption DEF SoundEntry, Good, Machine

LEMMA RowsExtend ==
  ASSUME NEW e, NEW d, NEW r, SoundEntry(e), SoundEntry(d), SoundEntry(r),
         ExtendsRow(e, d), ExtendsRow(d, r)
  PROVE  ExtendsRow(e, r)
<1>1. Continues(e.machine.events, r.machine.events)
  BY SoundIsEntry, ContinuesIsTransitive DEF ExtendsRow
<1> QED BY <1>1 DEF ExtendsRow, SoundEntry, Entry

LEMMA ExtendsItself ==
  ASSUME NEW e, SoundEntry(e)
  PROVE  ExtendsRow(e, e)
  BY SoundIsEntry DEF ExtendsRow, Continues, SoundEntry, Entry

LEMMA StoredKeeps ==
  ASSUME Histories, NEW o \in Opportunity, NEW e, e \in Entry, Stored(o, e)
  PROVE  /\ deskRows' \in [Opportunity -> Entry \cup {NoEntry}]
         /\ order' \in Seq(Opportunity)
         /\ deskRows'[o] = e
         /\ \A x \in Opportunity \ {o} : deskRows'[x] = deskRows[x] \/ deskRows'[x] = NoEntry
<1>1. order' \in Seq(Opportunity)
  <2> DEFINE appended == IF deskRows[o] = NoEntry THEN Append(order, o) ELSE order
  <2>1. appended \in Seq(Opportunity)
    BY DEF Histories
  <2>2. Len(appended) > DeskRetention => Tail(appended) \in Seq(Opportunity)
    <3>1. Len(appended) > DeskRetention => appended # <<>>
      BY <2>1, RetentionAssumption
    <3> QED BY <2>1, <3>1
  <2> QED BY <2>1, <2>2 DEF Stored
<1> QED BY <1>1 DEF Stored, Histories

LEMMA EmptyHistory ==
  ASSUME NEW s \in Seq(EventKind)
  PROVE  Continues(s, <<>>)
  BY DEF Continues

(* A save, or its failure, keeps the histories when the entry grew. *)
LEMMA PersistKeeps ==
  ASSUME Histories, NEW o \in Opportunity, NEW e, SoundEntry(e),
         entries[o] # NoEntry => ExtendsRow(e, entries[o]),
         PersistEntry(o, e)
  PROVE  Histories'
<1> USE SoundIsEntry
<1>1. /\ entries' \in [Opportunity -> Entry \cup {NoEntry}]
      /\ entries'[o] = e /\ \A x \in Opportunity \ {o} : entries'[x] = entries[x]
  BY DEF PersistEntry, Histories
<1>2. deskRows[o] # NoEntry => ExtendsRow(e, deskRows[o])
  BY RowsExtend DEF Histories, OneHistory
<1>3. Continues(e.machine.events, answered[o])
  <2>1. CASE entries[o] = NoEntry
    BY <2>1, EmptyHistory DEF Histories, OneHistory
  <2>2. CASE entries[o] # NoEntry
    BY <2>2, ContinuesIsTransitive DEF Histories, OneHistory, ExtendsRow
  <2> QED BY <2>1, <2>2
<1>4. CASE SaveSucceeds(o, e)
  <2>1. /\ Stored(o, e) /\ e.observations <= ObservationLimit
        /\ answered' = [answered EXCEPT ![o] = e.machine.events]
        /\ failedSaves' = failedSaves
    BY <1>4 DEF SaveSucceeds, SaveAccepts
  <2>2. /\ deskRows' \in [Opportunity -> Entry \cup {NoEntry}]
        /\ order' \in Seq(Opportunity) /\ deskRows'[o] = e
        /\ \A x \in Opportunity \ {o} : deskRows'[x] = deskRows[x] \/ deskRows'[x] = NoEntry
    BY <2>1, StoredKeeps
  <2>3. /\ answered' \in [Opportunity -> Seq(EventKind)]
        /\ answered'[o] = e.machine.events
        /\ \A x \in Opportunity \ {o} : answered'[x] = answered[x]
    BY <2>1 DEF Histories
  <2>4. OneHistory(o)'
    BY <1>1, <2>1, <2>2, <2>3, ExtendsItself DEF OneHistory, ExtendsRow
  <2>5. ASSUME NEW x \in Opportunity \ {o} PROVE OneHistory(x)'
    BY <1>1, <2>2, <2>3 DEF OneHistory, Histories
  <2> QED BY <1>1, <2>1, <2>2, <2>3, <2>4, <2>5 DEF Histories
<1>5. CASE UNCHANGED <<deskRows, answered, order>> /\ failedSaves' \in Nat
  <2>1. OneHistory(o)'
    BY <1>1, <1>2, <1>3, <1>5 DEF OneHistory, Histories
  <2>2. ASSUME NEW x \in Opportunity \ {o} PROVE OneHistory(x)'
    BY <1>1, <1>5 DEF OneHistory, Histories
  <2> QED BY <1>1, <1>5, <2>1, <2>2 DEF Histories
<1> QED BY <1>4, <1>5 DEF PersistEntry, SaveFails, Histories

LEMMA FreshIsSound ==
  ASSUME NEW m, Good(m), NEW n, n = Fresh(m)
  PROVE  SoundEntry(n)
  BY DEF SoundEntry, Fresh, Entry, JournalBinds, Good

(* What the journal's artifacts rest on stays when the machine advances. *)
LEMMA BindingsStay ==
  ASSUME NEW d, SoundEntry(d), NEW m, Grows(m, d.machine), NEW kind,
         Happened(d.machine, kind)
  PROVE  Happened(m, kind)
  BY HappenedStays DEF Grows, SoundEntry, Good

LEMMA SemanticDecisionKeeps ==
  ASSUME NEW d, SoundEntry(d), d.machine.state = "AWAITING_SEMANTIC_REVIEW",
         NEW decision \in {"ACCEPT", "REJECT"},
         NEW e, e = [d EXCEPT !.machine = SemanticReview(@, decision), !.decisions = @ + 1]
  PROVE  SoundEntry(e) /\ ExtendsRow(e, d)
<1> DEFINE m == SemanticReview(d.machine, decision)
<1>1. Grows(m, d.machine) /\ (\/ Happened(m, "SEMANTIC_REVIEW_ACCEPTED")
                             \/ Happened(m, "SEMANTIC_REVIEW_REJECTED"))
  BY ReviewIsGood DEF SoundEntry
<1>2. /\ e.machine = m /\ e.decisions = d.decisions + 1 /\ e.bundles = d.bundles
      /\ e.verifications = d.verifications /\ e.runs = d.runs
      /\ e.observations = d.observations /\ e \in Entry /\ d.runs = 0
  <2>1. d \in Entry /\ m \in Machine
    BY <1>1 DEF SoundEntry, Grows, Good
  <2>2. d.runs = 0
    BY DEF SoundEntry, Entry
  <2>3. e = [d EXCEPT !.machine = m, !.decisions = @ + 1]
    OBVIOUS
  <2> HIDE DEF m
  <2>9. d.decisions + 1 \in Nat
    BY <2>1 DEF Entry
  <2> QED BY <2>1, <2>2, <2>3, <2>9 DEF Entry
<1>3. JournalBinds(e)
  BY <1>1, <1>2, BindingsStay DEF JournalBinds, SoundEntry, Grows, Good, Entry
<1>4. SoundEntry(e)
  BY <1>1, <1>2, <1>3 DEF SoundEntry, Grows
<1> QED BY <1>1, <1>2, <1>4 DEF ExtendsRow, Grows, SoundEntry, Entry

LEMMA SimulationKeeps ==
  ASSUME NEW d, SoundEntry(d), d.machine.state = "AWAITING_EXCHANGE_SIMULATION",
         NEW status \in SimulationStatus, NEW e, e = Simulated(d, status)
  PROVE  /\ SoundEntry(e) /\ ExtendsRow(e, d) /\ e.bundles > 0 /\ e.runs = 0
         /\ e.machine.policy = d.machine.policy /\ e.observations = d.observations
         /\ status = "POSITIVE_FLOOR" =>
              /\ Newest(e.machine) = "SIMULATION_ACCEPTED"
              /\ e.machine.state = "AWAITING_EXACT_CERTIFICATE"
<1> DEFINE m == OpportunitySimulation(d.machine, status)
<1>1. /\ Grows(m, d.machine)
      /\ \/ Happened(m, "SIMULATION_ACCEPTED")
         \/ Happened(m, "SIMULATION_REJECTED")
         \/ Happened(m, "MODEL_CALIBRATION_REQUIRED")
      /\ status = "POSITIVE_FLOOR" =>
           Newest(m) = "SIMULATION_ACCEPTED" /\ m.state = "AWAITING_EXACT_CERTIFICATE"
  BY SimulationIsGood DEF SoundEntry
<1>2. /\ e.machine = m /\ e.decisions = d.decisions /\ e.bundles = d.bundles + 1
      /\ e.verifications = d.verifications /\ e.runs = d.runs
      /\ e.observations = d.observations /\ e \in Entry /\ d.runs = 0
  <2>1. d \in Entry /\ m \in Machine
    BY <1>1 DEF SoundEntry, Grows, Good
  <2>2. d.runs = 0
    BY DEF SoundEntry, Entry
  <2>3. e = [d EXCEPT !.machine = m, !.bundles = @ + 1]
    BY DEF Simulated
  <2> HIDE DEF m
  <2>9. d.bundles + 1 \in Nat
    BY <2>1 DEF Entry
  <2> QED BY <2>1, <2>2, <2>3, <2>9 DEF Entry
<1>3. JournalBinds(e)
  BY <1>1, <1>2, BindingsStay DEF JournalBinds, SoundEntry, Grows, Good, Entry
<1>4. SoundEntry(e)
  BY <1>1, <1>2, <1>3 DEF SoundEntry, Grows
<1> QED BY <1>1, <1>2, <1>4 DEF ExtendsRow, Grows, SoundEntry, Entry

LEMMA VerificationKeeps ==
  ASSUME NEW d, SoundEntry(d), d.machine.state = "AWAITING_EXACT_CERTIFICATE",
         Newest(d.machine) = "SIMULATION_ACCEPTED", d.bundles > 0, d.runs = 0,
         NEW certified \in BOOLEAN, NEW e, e = Verified(d, certified)
  PROVE  SoundEntry(e) /\ ExtendsRow(e, d)
<1>0. d.runs = 0 /\ d \in Entry /\ Good(d.machine) /\ JournalBinds(d)
  BY DEF SoundEntry
<1>1. CASE ~certified
  <2> DEFINE m == ExactVerificationRejected(d.machine)
  <2>1. Grows(m, d.machine) /\ Happened(m, "EXACT_VERIFICATION_REJECTED")
    BY <1>0, RejectionIsGood
  <2>2. e = [d EXCEPT !.machine = m, !.verifications = @ + 1]
    BY <1>1 DEF Verified
  <2>3. /\ e.machine = m /\ e.decisions = d.decisions /\ e.bundles = d.bundles
        /\ e.verifications = d.verifications + 1 /\ e.runs = d.runs
        /\ e.observations = d.observations /\ e \in Entry
    <3>1. m \in Machine
      BY <2>1 DEF Grows, Good
    <3> HIDE DEF m
    <3>9. d.verifications + 1 \in Nat
      BY <1>0 DEF Entry
    <3> QED BY <1>0, <2>2, <3>1, <3>9 DEF Entry
  <2>4. JournalBinds(e)
    BY <1>0, <2>1, <2>3, BindingsStay DEF JournalBinds, Grows, Good, Entry
  <2>5. SoundEntry(e)
    BY <1>0, <2>1, <2>3, <2>4 DEF SoundEntry, Grows
  <2> QED BY <1>0, <2>1, <2>3, <2>5 DEF ExtendsRow, Grows, Entry
<1>2. CASE certified /\ d.machine.policy.route # "AUTO_SHADOW"
  <2> DEFINE m == CertificateBound(d.machine)
  <2>1. Grows(m, d.machine) /\ Happened(m, "CERTIFICATE_BOUND")
    BY <1>0, CertificateIsGood
  <2>2. e = [d EXCEPT !.machine = m, !.verifications = @ + 1]
    BY <1>2 DEF Verified
  <2>3. /\ e.machine = m /\ e.decisions = d.decisions /\ e.bundles = d.bundles
        /\ e.verifications = d.verifications + 1 /\ e.runs = d.runs
        /\ e.observations = d.observations /\ e \in Entry
    <3>1. m \in Machine
      BY <2>1 DEF Grows, Good
    <3> HIDE DEF m
    <3>9. d.verifications + 1 \in Nat
      BY <1>0 DEF Entry
    <3> QED BY <1>0, <2>2, <3>1, <3>9 DEF Entry
  <2>4. JournalBinds(e)
    BY <1>0, <2>1, <2>3, BindingsStay DEF JournalBinds, Grows, Good, Entry
  <2>5. SoundEntry(e)
    BY <1>0, <2>1, <2>3, <2>4 DEF SoundEntry, Grows
  <2> QED BY <1>0, <2>1, <2>3, <2>5 DEF ExtendsRow, Grows, Entry
<1>3. CASE certified /\ d.machine.policy.route = "AUTO_SHADOW"
  <2> DEFINE b == CertificateBound(d.machine)
  <2> DEFINE m == CompleteShadow(BeginShadow(b))
  <2>1. /\ Grows(b, d.machine) /\ Happened(b, "CERTIFICATE_BOUND")
        /\ Newest(b) = "AUTO_SHADOW_QUEUED" /\ Good(b)
    BY <1>0, <1>3, CertificateIsGood DEF Grows
  <2>2. Grows(m, b) /\ Happened(m, "SHADOW_COMPLETED") /\ m.state = "SHADOW_COMPLETE"
    BY <2>1, ShadowIsGood
  <2>3. Grows(m, d.machine)
    BY <1>0, <2>1, <2>2, GrowsIsTransitive
  <2>4. Happened(m, "CERTIFICATE_BOUND")
    BY <2>1, <2>2, HappenedStays DEF Grows, Good
  <2>5. e = [d EXCEPT !.machine = m, !.verifications = @ + 1, !.runs = @ + 1]
    <3>1. DOMAIN d = {"machine", "decisions", "bundles", "verifications", "runs",
                      "observations"}
      BY <1>0 DEF Entry
    <3> QED BY <1>0, <1>3, <3>1 DEF Verified, Entry
  <2>6. /\ e.machine = m /\ e.decisions = d.decisions /\ e.bundles = d.bundles
        /\ e.verifications = d.verifications + 1 /\ e.runs = 1
        /\ e.observations = d.observations /\ e \in Entry
    <3>1. m \in Machine
      BY <2>3 DEF Grows, Good
    <3> HIDE DEF m
    <3>9. d.verifications + 1 \in Nat /\ d.runs + 1 \in Nat /\ d.runs + 1 = 1
      BY <1>0 DEF Entry
    <3> QED BY <1>0, <2>5, <3>1, <3>9 DEF Entry
  <2>7. JournalBinds(e)
    BY <1>0, <2>2, <2>3, <2>4, <2>6, BindingsStay DEF JournalBinds, Grows, Good, Entry
  <2>8. SoundEntry(e)
    BY <1>0, <2>2, <2>3, <2>6, <2>7 DEF SoundEntry, Grows
  <2> QED BY <1>0, <2>3, <2>6, <2>8 DEF ExtendsRow, Grows, Entry
<1> QED BY <1>1, <1>2, <1>3

LEMMA ApprovalKeeps ==
  ASSUME NEW d, SoundEntry(d), d.machine.state = "AWAITING_HUMAN_APPROVAL",
         d.verifications > 0, d.runs = 0,
         NEW e, e = [d EXCEPT
           !.machine = CompleteShadow(BeginShadow(HumanDecision(@, "APPROVE_SHADOW"))),
           !.runs = @ + 1]
  PROVE  SoundEntry(e) /\ ExtendsRow(e, d)
<1> DEFINE h == HumanDecision(d.machine, "APPROVE_SHADOW")
<1> DEFINE m == CompleteShadow(BeginShadow(h))
<1>0. d \in Entry /\ Good(d.machine) /\ JournalBinds(d)
  BY DEF SoundEntry
<1>1. Grows(h, d.machine) /\ Newest(h) = "HUMAN_APPROVED_SHADOW" /\ Good(h)
  BY <1>0, DecisionIsGood DEF Grows
<1>2. Grows(m, h) /\ Happened(m, "SHADOW_COMPLETED") /\ m.state = "SHADOW_COMPLETE"
  BY <1>1, ShadowIsGood
<1>3. Grows(m, d.machine)
  BY <1>0, <1>1, <1>2, GrowsIsTransitive
<1>4. /\ e.machine = m /\ e.decisions = d.decisions /\ e.bundles = d.bundles
      /\ e.verifications = d.verifications /\ e.runs = 1
      /\ e.observations = d.observations /\ e \in Entry
  <2>1. m \in Machine
    BY <1>3 DEF Grows, Good
  <2>2. e = [d EXCEPT !.machine = m, !.runs = @ + 1]
    OBVIOUS
  <2> HIDE DEF m
  <2>9. d.runs + 1 \in Nat /\ d.runs + 1 = 1
    BY <1>0 DEF Entry
  <2> QED BY <1>0, <2>1, <2>2, <2>9 DEF Entry
<1>5. JournalBinds(e)
  BY <1>0, <1>2, <1>3, <1>4, BindingsStay DEF JournalBinds, Grows, Good, Entry
<1>6. SoundEntry(e)
  BY <1>2, <1>3, <1>4, <1>5 DEF SoundEntry, Grows
<1> QED BY <1>0, <1>3, <1>4, <1>6 DEF ExtendsRow, Grows, Entry

LEMMA RejectionKeeps ==
  ASSUME NEW d, SoundEntry(d), d.machine.state = "AWAITING_HUMAN_APPROVAL",
         NEW e, e = [d EXCEPT !.machine = HumanDecision(@, "REJECT")]
  PROVE  SoundEntry(e) /\ ExtendsRow(e, d)
<1> DEFINE m == HumanDecision(d.machine, "REJECT")
<1>0. d \in Entry /\ Good(d.machine) /\ JournalBinds(d) /\ d.runs = 0
  BY DEF SoundEntry, Entry
<1>1. Grows(m, d.machine)
  BY <1>0, DecisionIsGood
<1>2. /\ e.machine = m /\ e.decisions = d.decisions /\ e.bundles = d.bundles
      /\ e.verifications = d.verifications /\ e.runs = d.runs
      /\ e.observations = d.observations /\ e \in Entry
  BY <1>0, <1>1 DEF Entry, Good, Grows
<1>3. JournalBinds(e)
  BY <1>0, <1>1, <1>2, BindingsStay DEF JournalBinds, Grows, Good, Entry
<1> QED BY <1>0, <1>1, <1>2, <1>3 DEF ExtendsRow, Grows, Entry, SoundEntry

LEMMA ObservationKeeps ==
  ASSUME NEW d, SoundEntry(d), d.runs > 0, NEW e, e = [d EXCEPT !.observations = @ + 1]
  PROVE  SoundEntry(e) /\ ExtendsRow(e, d)
<1>1. /\ e.machine = d.machine /\ e.decisions = d.decisions /\ e.bundles = d.bundles
      /\ e.verifications = d.verifications /\ e.runs = d.runs /\ e \in Entry
  BY DEF SoundEntry, Entry
<1>2. SoundEntry(e)
  BY <1>1 DEF SoundEntry, JournalBinds, Entry
<1>3. ExtendsRow(d, d)
  BY ExtendsItself
<1> QED BY <1>1, <1>2, <1>3 DEF ExtendsRow

-----------------------------------------------------------------------------
(* The steps *)

LEMMA InitIsOneHistory == DeskInit => DeskInv
  BY DEF DeskInit, DeskInv, Histories, Surroundings, OneHistory

LEMMA EnteredIsSound ==
  ASSUME Histories, NEW c \in Opportunity, entries[c] # NoEntry
  PROVE  SoundEntry(entries[c])
  BY DEF Histories, OneHistory

LEMMA VerificationStepKeeps ==
  ASSUME DeskInv, NEW c \in Opportunity, NEW certified \in BOOLEAN,
         MaterializeAndVerify(c, certified)
  PROVE  Histories'
<1> DEFINE simulated == Simulated(entries[c], "POSITIVE_FLOOR")
<1> DEFINE verified == Verified(simulated, certified)
<1>1. /\ SoundEntry(entries[c]) /\ entries[c] # NoEntry
      /\ entries[c].machine.state = "AWAITING_EXCHANGE_SIMULATION"
  BY EnteredIsSound DEF MaterializeAndVerify, CanSimulate, InState, DeskInv
<1>2. /\ SoundEntry(simulated) /\ ExtendsRow(simulated, entries[c])
      /\ simulated.bundles > 0 /\ simulated.runs = 0
      /\ Newest(simulated.machine) = "SIMULATION_ACCEPTED"
      /\ simulated.machine.state = "AWAITING_EXACT_CERTIFICATE"
  BY <1>1, SimulationKeeps DEF SimulationStatus
<1>3. SoundEntry(verified) /\ ExtendsRow(verified, simulated)
  <2> HIDE DEF simulated
  <2> QED BY <1>2, VerificationKeeps
<1>4. ExtendsRow(verified, entries[c])
  <2> HIDE DEF simulated, verified
  <2> QED BY <1>1, <1>2, <1>3, RowsExtend
<1>5. /\ entries' = [entries EXCEPT ![c] = verified]
      /\ \/ SaveSucceeds(c, verified)
         \/ failedSaves' \in Nat /\ Stored(c, simulated) /\ UNCHANGED answered
      /\ simulated.observations <= ObservationLimit
  BY DEF MaterializeAndVerify, SaveAccepts, DeskInv, Histories
<1> HIDE DEF simulated, verified
<1>6. CASE SaveSucceeds(c, verified)
  <2>1. PersistEntry(c, verified)
    BY <1>5, <1>6 DEF PersistEntry
  <2> QED BY <1>3, <1>4, <2>1, PersistKeeps DEF DeskInv
<1>7. CASE failedSaves' \in Nat /\ Stored(c, simulated) /\ UNCHANGED answered
  <2>1. /\ deskRows' \in [Opportunity -> Entry \cup {NoEntry}]
        /\ order' \in Seq(Opportunity) /\ deskRows'[c] = simulated
        /\ \A x \in Opportunity \ {c} : deskRows'[x] = deskRows[x] \/ deskRows'[x] = NoEntry
    BY <1>2, <1>7, StoredKeeps, SoundIsEntry DEF DeskInv
  <2>2. /\ entries' \in [Opportunity -> Entry \cup {NoEntry}] /\ entries'[c] = verified
        /\ \A x \in Opportunity \ {c} : entries'[x] = entries[x]
    BY <1>3, <1>5, SoundIsEntry DEF DeskInv, Histories
  <2>3. Continues(entries[c].machine.events, answered[c]) /\ answered[c] \in Seq(EventKind)
    BY <1>1 DEF DeskInv, Histories, OneHistory
  <2>4. /\ Continues(simulated.machine.events, answered[c])
        /\ Continues(verified.machine.events, answered[c])
    BY <1>1, <1>2, <1>3, <1>4, <2>3, SoundIsEntry, ContinuesIsTransitive DEF ExtendsRow
  <2>5. OneHistory(c)'
    BY <1>2, <1>3, <1>5, <1>7, <2>1, <2>2, <2>4, SoundIsEntry DEF OneHistory
  <2>6. ASSUME NEW x \in Opportunity \ {c} PROVE OneHistory(x)'
    BY <1>7, <2>1, <2>2 DEF OneHistory, DeskInv, Histories
  <2> QED BY <1>7, <2>1, <2>2, <2>5, <2>6 DEF DeskInv, Histories
<1> QED BY <1>5, <1>6, <1>7

LEMMA StepKeepsHistories ==
  ASSUME DeskInv, [DeskNext]_deskVars
  PROVE  Histories'
<1> USE DEF DeskInv
<1>1. ASSUME UNCHANGED <<entries, deskRows, order, answered, failedSaves>> PROVE Histories'
  BY <1>1 DEF Histories, OneHistory
<1>2. ASSUME NEW c \in Opportunity, Discover(c) \/ RetireLead(c) PROVE Histories'
  <2>1. defaultPolicy \in LifecyclePolicy
    BY PolicyAssumption DEF Surroundings
  <2>2. /\ SoundEntry(Fresh(Discovered(defaultPolicy)))
        /\ SoundEntry(Fresh(PreflightRejected(Discovered(defaultPolicy))))
    BY <2>1, DiscoveredIsGood, FreshIsSound
  <2> QED BY <1>2, <2>2, PersistKeeps DEF Discover, RetireLead
<1>3. ASSUME NEW c \in Opportunity, NEW decision \in {"ACCEPT", "REJECT"},
             DecideSemantics(c, decision)
      PROVE  Histories'
  <2> DEFINE e == [entries[c] EXCEPT !.machine = SemanticReview(@, decision),
                                     !.decisions = @ + 1]
  <2>1. /\ entries[c] # NoEntry /\ entries[c].machine.state = "AWAITING_SEMANTIC_REVIEW"
        /\ PersistEntry(c, e)
    BY <1>3 DEF DecideSemantics, InState
  <2>2. SoundEntry(e) /\ ExtendsRow(e, entries[c])
    BY <2>1, EnteredIsSound, SemanticDecisionKeeps
  <2> HIDE DEF e
  <2> QED BY <2>1, <2>2, PersistKeeps
<1>4. ASSUME NEW c \in Opportunity, NEW status \in SimulationStatus,
             SimulateByHand(c, status) \/ MaterializeSimulationOnly(c, status)
      PROVE  Histories'
  <2> DEFINE e == Simulated(entries[c], status)
  <2>1. /\ entries[c] # NoEntry /\ PersistEntry(c, e)
        /\ entries[c].machine.state = "AWAITING_EXCHANGE_SIMULATION"
    BY <1>4 DEF SimulateByHand, MaterializeSimulationOnly, CanSimulate, InState
  <2>2. SoundEntry(e) /\ ExtendsRow(e, entries[c])
    BY <2>1, EnteredIsSound, SimulationKeeps
  <2> HIDE DEF e
  <2> QED BY <2>1, <2>2, PersistKeeps
<1>5. ASSUME NEW c \in Opportunity, NEW certified \in BOOLEAN,
             MaterializeAndVerify(c, certified)
      PROVE  Histories'
  BY <1>5, VerificationStepKeeps
<1>6. ASSUME NEW c \in Opportunity, ApproveShadow(c) PROVE Histories'
  <2> DEFINE e == [entries[c] EXCEPT
        !.machine = CompleteShadow(BeginShadow(HumanDecision(@, "APPROVE_SHADOW"))),
        !.runs = @ + 1]
  <2>1. /\ entries[c] # NoEntry /\ PersistEntry(c, e)
        /\ entries[c].machine.state = "AWAITING_HUMAN_APPROVAL"
        /\ entries[c].verifications > 0 /\ entries[c].runs = 0
    BY <1>6 DEF ApproveShadow, InState
  <2>2. SoundEntry(e) /\ ExtendsRow(e, entries[c])
    BY <2>1, EnteredIsSound, ApprovalKeeps
  <2> HIDE DEF e
  <2> QED BY <2>1, <2>2, PersistKeeps
<1>7. ASSUME NEW c \in Opportunity, RejectShadow(c) PROVE Histories'
  <2> DEFINE e == [entries[c] EXCEPT !.machine = HumanDecision(@, "REJECT")]
  <2>1. /\ entries[c] # NoEntry /\ PersistEntry(c, e)
        /\ entries[c].machine.state = "AWAITING_HUMAN_APPROVAL"
    BY <1>7 DEF RejectShadow, InState
  <2>2. SoundEntry(e) /\ ExtendsRow(e, entries[c])
    BY <2>1, EnteredIsSound, RejectionKeeps
  <2> HIDE DEF e
  <2> QED BY <2>1, <2>2, PersistKeeps
<1>8. ASSUME NEW c \in Opportunity, ObserveMarket(c) PROVE Histories'
  <2> DEFINE e == [entries[c] EXCEPT !.observations = @ + 1]
  <2>1. entries[c] # NoEntry /\ PersistEntry(c, e) /\ entries[c].runs > 0
    BY <1>8 DEF ObserveMarket, InState
  <2>2. SoundEntry(e) /\ ExtendsRow(e, entries[c])
    BY <2>1, EnteredIsSound, ObservationKeeps
  <2> HIDE DEF e
  <2> QED BY <2>1, <2>2, PersistKeeps
<1>9. ASSUME DeskRestart PROVE Histories'
  <2>1. /\ entries' = [o \in Opportunity |-> deskRows[o]] /\ deskRows' = deskRows /\ order' = order
        /\ answered' = [o \in Opportunity |->
                          IF deskRows[o] = NoEntry THEN <<>> ELSE answered[o]]
        /\ failedSaves' = failedSaves
    BY <1>9 DEF DeskRestart, Restored
  <2>2. ASSUME NEW o \in Opportunity PROVE OneHistory(o)'
    BY <2>1, ExtendsItself DEF Histories, OneHistory
  <2>3. answered' \in [Opportunity -> Seq(EventKind)]
    BY <2>1 DEF Histories
  <2> QED BY <2>1, <2>2, <2>3 DEF Histories
<1>10. ASSUME NEW c \in Opportunity,
              \/ Propose(c) \/ CertificateExpires(c)
              \/ \E purpose \in Purpose :
                   RequestEvidence(c, purpose) \/ EvidenceUseless(c, purpose)
       PROVE  Histories'
  BY <1>1, <1>10 DEF Propose, CertificateExpires, RequestEvidence, EvidenceUseless
<1>11. CASE UNCHANGED deskVars
  BY <1>1, <1>11 DEF deskVars
<1> QED BY <1>2, <1>3, <1>4, <1>5, <1>6, <1>7, <1>8, <1>9, <1>10, <1>11 DEF DeskNext

LEMMA StepKeepsSurroundings ==
  ASSUME DeskInv, [DeskNext]_deskVars
  PROVE  Surroundings'
<1> USE DEF DeskInv, Surroundings
<1>1. ASSUME NEW c \in Opportunity, Propose(c) PROVE Surroundings'
  <2>1. Append(offered, c) \in Seq(Case)
    BY <1>1 DEF Propose
  <2>2. offered # <<>> => Append(Tail(offered), c) \in Seq(Case)
    BY <1>1 DEF Propose
  <2> QED BY <1>1, <2>1, <2>2, WindowAssumption DEF Propose
<1>2. ASSUME NEW c \in Opportunity, Discover(c) \/ RetireLead(c) PROVE Surroundings'
  BY <1>2 DEF Discover, RetireLead
<1>3. ASSUME NEW c \in Opportunity, NEW decision \in {"ACCEPT", "REJECT"},
             DecideSemantics(c, decision)
      PROVE  Surroundings'
  BY <1>3 DEF DecideSemantics
<1>4. ASSUME NEW c \in Opportunity, NEW status \in SimulationStatus,
             SimulateByHand(c, status) \/ MaterializeSimulationOnly(c, status)
      PROVE  Surroundings'
  BY <1>4 DEF SimulateByHand, MaterializeSimulationOnly
<1>5. ASSUME NEW c \in Opportunity, NEW certified \in BOOLEAN,
             MaterializeAndVerify(c, certified)
      PROVE  Surroundings'
  BY <1>5 DEF MaterializeAndVerify
<1>6. ASSUME NEW c \in Opportunity, ApproveShadow(c) \/ RejectShadow(c) PROVE Surroundings'
  BY <1>6 DEF ApproveShadow, RejectShadow
<1>7. ASSUME NEW c \in Opportunity, ObserveMarket(c) PROVE Surroundings'
  BY <1>7 DEF ObserveMarket
<1>8. ASSUME NEW c \in Opportunity, NEW purpose \in Purpose,
             RequestEvidence(c, purpose) \/ EvidenceUseless(c, purpose)
      PROVE  Surroundings'
  BY <1>8 DEF RequestEvidence, EvidenceUseless
<1>9. ASSUME NEW c \in Opportunity, CertificateExpires(c) PROVE Surroundings'
  BY <1>9 DEF CertificateExpires
<1>10. ASSUME DeskRestart PROVE Surroundings'
  BY <1>10 DEF DeskRestart
<1>11. CASE UNCHANGED deskVars
  BY <1>11 DEF deskVars
<1> QED
  BY <1>1, <1>2, <1>3, <1>4, <1>5, <1>6, <1>7, <1>8, <1>9, <1>10, <1>11 DEF DeskNext

-----------------------------------------------------------------------------
(* The theorems *)

(* Memory, table and answers of every case are one history at every step. *)
THEOREM DeskIsSound == DeskSpec => []DeskInv
<1>1. DeskInv /\ [DeskNext]_deskVars => DeskInv'
  BY StepKeepsHistories, StepKeepsSurroundings DEF DeskInv
<1> QED BY <1>1, InitIsOneHistory, PTL DEF DeskSpec

(* The variables of the desk keep their types. *)
THEOREM DeskTypes == DeskSpec => []DeskTypeOK
<1>1. DeskInv => DeskTypeOK
  BY DEF DeskInv, Histories, Surroundings, DeskTypeOK
<1> QED BY <1>1, DeskIsSound, PTL

(* Whatever saves fail and whenever the process restarts, the desk holds
   journals its own validator and the store's append-only check accept. *)
THEOREM EntriesStayStorable == DeskSpec => []EntriesCanBeSaved
<1>1. ASSUME DeskInv, NEW o \in Opportunity, entries[o] # NoEntry,
             ~(entries[o].observations > ObservationLimit)
      PROVE  SaveAccepts(o, entries[o])
  <2>1. SoundEntry(entries[o])
    BY <1>1, EnteredIsSound DEF DeskInv
  <2>2. JournalBinds(entries[o]) /\ entries[o].observations \in Nat
    BY <2>1 DEF SoundEntry, Entry
  <2>3. entries[o].observations <= ObservationLimit
    BY <1>1, <2>2, LimitAssumption
  <2>4. deskRows[o] # NoEntry => ExtendsRow(entries[o], deskRows[o])
    BY <1>1 DEF DeskInv, Histories, OneHistory
  <2> QED BY <2>2, <2>3, <2>4 DEF SaveAccepts
<1>2. DeskInv => EntriesCanBeSaved
  BY <1>1 DEF EntriesCanBeSaved
<1> QED BY <1>2, DeskIsSound, PTL

(* No failed save and no restart takes an acknowledged step of a case out of
   its row. *)
THEOREM AnswersStayStored == DeskSpec => []AnswersAreStored
<1>1. DeskInv => AnswersAreStored
  BY DEF DeskInv, Histories, OneHistory, AnswersAreStored
<1> QED BY <1>1, DeskIsSound, PTL

(* Every shadow run has its bound certificate and its route, whatever policy
   the desk is restarted with. *)
THEOREM ShadowsStayAuthorized == DeskSpec => []ShadowsAreAuthorized
<1>1. ASSUME DeskInv, NEW o \in Opportunity, entries[o] # NoEntry, entries[o].runs > 0
      PROVE  LET m == entries[o].machine
             IN  /\ m.certified /\ entries[o].runs = 1
                 /\ m.policy.route = "AUTO_SHADOW" \/ Happened(m, "HUMAN_APPROVED_SHADOW")
  <2>1. SoundEntry(entries[o])
    BY <1>1, EnteredIsSound DEF DeskInv
  <2>2. /\ Good(entries[o].machine) /\ entries[o].runs = 1
        /\ Happened(entries[o].machine, "SHADOW_COMPLETED")
    BY <1>1, <2>1 DEF SoundEntry, JournalBinds
  <2> QED BY <2>2, CompletedWasRouted
<1>2. DeskInv => ShadowsAreAuthorized
  BY <1>1 DEF ShadowsAreAuthorized
<1> QED BY <1>2, DeskIsSound, PTL
=============================================================================
