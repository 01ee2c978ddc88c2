--------------------------- MODULE ShadowExecution ---------------------------
(***************************************************************************)
(* The shadow execution engine of packages/execution/src/shadow-engine.ts  *)
(* with its order machines (order-machine.ts), its risk gate               *)
(* (packages/risk/src/governor.ts) and the capital ledger it shares.       *)
(*                                                                         *)
(* A plan is a set of intents.  Reserving a plan earmarks the maximum      *)
(* debit of each intent under the reservation id "<plan>:<intent>"; the    *)
(* intents of all plans are the ledger's reservation ids here.  The        *)
(* caller then reports what the venue said of each order, in any order it  *)
(* likes.  Every engine method runs to completion, so each is one action;  *)
(* a method that throws changes nothing, except reservePlan.               *)
(***************************************************************************)
EXTENDS CapitalLedger

CONSTANTS
  Plan,                \* execution plan ids
  PlanOf,              \* intent -> its plan
  VenueOf,             \* intent -> venue
  Quantity, MaxDebit,  \* intent -> positive amounts
  Dependency,          \* records [before, after, condition]
  CertificateCapital,  \* plan -> venue of its certificate -> capitalRequiredByVenue
  MaxCapital,          \* venue -> RiskPolicy.maxCapitalByVenue
  MaxUnresolved        \* RiskPolicy.maxUnresolvedCapital

Intent == ReservationId
Condition == {"ACKNOWLEDGED", "PARTIAL_OR_FILLED", "FILLED"}

\* Intents of a plan are reserved in the order of their numbers.
IntentsOf(p) == {i \in Intent : PlanOf[i] = p}

IntentsAt(p, v) == {i \in IntentsOf(p) : VenueOf[i] = v}

\* What a plan passed validateExecutionPlan for (plan.ts).
ASSUME PlanAssumption ==
  /\ PlanOf \in [Intent -> Plan]
  /\ VenueOf \in [Intent -> Venue]
  /\ Quantity \in [Intent -> Nat \ {0}]
  /\ MaxDebit \in [Intent -> Nat \ {0}]
  /\ Dependency \subseteq [before : Intent, after : Intent, condition : Condition]
  /\ \A d \in Dependency : PlanOf[d.before] = PlanOf[d.after] /\ d.before # d.after
  /\ IsFiniteSet(Plan)
  /\ \A p \in Plan : \E S \in SUBSET Venue : CertificateCapital[p] \in [S -> Nat]
  /\ MaxCapital \in [Venue -> Nat]
  /\ MaxUnresolved \in Nat

VARIABLES
  planLifecycle,          \* plan -> lifecycle, "ABSENT" before it is reserved
  order, filled,      \* intent -> order lifecycle, filled quantity
  deployedByVenue,    \* plan -> venue -> debits of its fills
  lockedCapital       \* plan -> capitalLockedForResolution

engineVars == <<planLifecycle, order, filled, deployedByVenue, lockedCapital>>
shadowVars == <<capital, realizedPnl, reservation, planLifecycle, order, filled,
          deployedByVenue, lockedCapital>>

OrderLifecycle == {"INTENT", "SUBMITTING", "ACKNOWLEDGED", "PARTIAL", "FILLED",
                   "CANCELED", "REJECTED", "UNKNOWN"}

PlanLifecycle == {"ABSENT", "RESERVED", "SUBMITTING", "ACKNOWLEDGED",
                  "PARTIALLY_HEDGED", "LOCKED", "UNWINDING", "SETTLED",
                  "FAILED", "UNKNOWN"}

ShadowTypeOK ==
  /\ LedgerTypeOK
  /\ planLifecycle \in [Plan -> PlanLifecycle]
  /\ order \in [Intent -> OrderLifecycle]
  /\ filled \in [Intent -> Nat]
  /\ deployedByVenue \in [Plan -> [Venue -> Nat]]
  /\ lockedCapital \in [Plan -> BOOLEAN]

ShadowInit ==
  /\ LedgerInit
  /\ planLifecycle = [p \in Plan |-> "ABSENT"]
  /\ order = [i \in Intent |-> "INTENT"]
  /\ filled = [i \in Intent |-> 0]
  /\ deployedByVenue = [p \in Plan |-> [v \in Venue |-> 0]]
  /\ lockedCapital = [p \in Plan |-> FALSE]

-----------------------------------------------------------------------------
(* Helpers *)

\* What reserving plan p takes from venue v.
PlanDebit(p, v) == SumFunctionOnSet(MaxDebit, IntentsAt(p, v))

\* What reserving intent i's plan has taken from its venue after intent i.
DebitUpTo(i) ==
  SumFunctionOnSet(MaxDebit, {k \in IntentsAt(PlanOf[i], VenueOf[i]) : k <= i})

AtRisk(v) ==
  capital[v]["reserved"] + capital[v]["deployed"] + capital[v]["unresolved"]

\* Deviation: capital already deployed does not count against the limit.
RiskIgnoresDeployed(p) ==
  \A v \in DOMAIN CertificateCapital[p] :
    capital[v]["reserved"] + capital[v]["unresolved"] + CertificateCapital[p][v]
      <= MaxCapital[v]

\* evaluateOpening, the diagnostics that depend on capital.  The others are
\* the caller's inputs (clock, books, latency) and just prevent the step.
RiskAllows(p) ==
  /\ SumFunctionOnSet([v \in Venue |-> capital[v]["unresolved"]], Venue) <= MaxUnresolved
  /\ \A v \in DOMAIN CertificateCapital[p] :
       AtRisk(v) + CertificateCapital[p][v] <= MaxCapital[v]

\* What plan p takes from venue v beyond what its certificate requires there.
Shortfall(p, v) == PlanDebit(p, v) - CertificateCapital[p][v]

\* Deviation: the ledger forgets released ids.
ReservableAgain(i) ==
  /\ reservation[i].status \in {"ABSENT", "RELEASED"}
  /\ DebitUpTo(i) <= capital[VenueOf[i]]["available"]

\* The reserve call of intent i succeeds after those of the plan's intents
\* before it.
Reservable(i) ==
  /\ reservation[i].status = "ABSENT"
  /\ DebitUpTo(i) <= capital[VenueOf[i]]["available"]

Satisfies(state, condition) ==
  \/ condition = "FILLED" /\ state = "FILLED"
  \/ condition = "PARTIAL_OR_FILLED" /\ state \in {"PARTIAL", "FILLED"}
  \/ condition = "ACKNOWLEDGED" /\ state \in {"ACKNOWLEDGED", "PARTIAL", "FILLED"}

\* #refreshLifecycle: the lifecycle of plan p when its orders are o.
Refreshed(p, o) ==
  LET some(S) == \E i \in IntentsOf(p) : o[i] \in S IN
  IF some({"UNKNOWN"}) THEN "UNKNOWN"
  ELSE IF \A i \in IntentsOf(p) : o[i] = "FILLED" THEN "LOCKED"
  ELSE IF some({"PARTIAL", "FILLED"}) THEN "PARTIALLY_HEDGED"
  ELSE IF some({"ACKNOWLEDGED"}) THEN "ACKNOWLEDGED"
  ELSE IF some({"REJECTED"}) THEN "FAILED"
  ELSE "SUBMITTING"

SetOrder(i, state) == order' = [order EXCEPT ![i] = state]

SetLifecycle(p, state) == planLifecycle' = [planLifecycle EXCEPT ![p] = state]

Registered(p) == planLifecycle[p] # "ABSENT"

\* What was taken from venue v by plans whose certificates do not name it, so
\* that evaluateOpening never looked at its limit.
Unchecked(v) ==
  SumFunctionOnSet([p \in Plan |-> PlanDebit(p, v)],
                   {p \in Plan : Registered(p) /\ v \notin DOMAIN CertificateCapital[p]})

\* Deviation: the whole maximum debit is returned, not what is left of it.
ReleaseMaxDebit(i) ==
  /\ capital' = Transfer(capital, VenueOf[i], "reserved", "available", MaxDebit[i])
  /\ reservation' = [reservation EXCEPT ![i] = ReleaseReservation(@)]
  /\ UNCHANGED realizedPnl

\* release(i) on the ledger.
ReleaseIntent(i) ==
  /\ capital' = Transfer(capital, VenueOf[i], "reserved", "available",
                         reservation[i].remaining)
  /\ reservation' = [reservation EXCEPT ![i] =
                       IF @.status = "RELEASED" THEN @ ELSE ReleaseReservation(@)]
  /\ UNCHANGED realizedPnl

\* consume(i, debit) on the ledger, then release(i) if the order is done.
DebitIntent(i, debit, done) ==
  LET consumed == ConsumeReservation(reservation[i], debit) IN
  /\ CanConsume(reservation[i], debit)
  /\ capital' = Transfer(
       Transfer(capital, VenueOf[i], "reserved", "deployed", debit),
       VenueOf[i], "reserved", "available", IF done THEN consumed.remaining ELSE 0)
  /\ reservation' = [reservation EXCEPT ![i] =
                       IF done THEN ReleaseReservation(consumed) ELSE consumed]
  /\ deployedByVenue' =
       [deployedByVenue EXCEPT ![PlanOf[i]][VenueOf[i]] = @ + debit]
  /\ UNCHANGED realizedPnl

-----------------------------------------------------------------------------
(* Engine methods *)

ReservePlan(p) ==
  /\ IntentsOf(p) # {}
  /\ ~Registered(p)
  /\ RiskAllows(p)
  /\ \A i \in IntentsOf(p) : Reservable(i)
  /\ capital' = [v \in Venue |->
       [capital[v] EXCEPT !["available"] = @ - PlanDebit(p, v),
                          !["reserved"]  = @ + PlanDebit(p, v)]]
  /\ reservation' = [i \in Intent |->
       IF PlanOf[i] = p THEN OpenReservation(VenueOf[i], MaxDebit[i])
                        ELSE reservation[i]]
  /\ SetLifecycle(p, "RESERVED")
  /\ UNCHANGED <<realizedPnl, order, filled, deployedByVenue, lockedCapital>>

\* A reserve call throws after others succeeded: those are released again, and
\* their records stay in the ledger under the plan's reservation ids.
ReservePlanRollsBack(p) ==
  /\ ~Registered(p)
  /\ RiskAllows(p)
  /\ \E failing \in IntentsOf(p) :
       LET reserved == {i \in IntentsOf(p) : i < failing} IN
       /\ ~Reservable(failing)
       /\ \A i \in reserved : Reservable(i)
       /\ reservation' = [i \in Intent |->
            IF i \in reserved
              THEN ReleaseReservation(OpenReservation(VenueOf[i], MaxDebit[i]))
              ELSE reservation[i]]
  /\ UNCHANGED <<capital, realizedPnl, engineVars>>

Submit(i) ==
  /\ Registered(PlanOf[i])
  /\ \A d \in Dependency : d.after = i => Satisfies(order[d.before], d.condition)
  /\ order[i] \in {"INTENT", "SUBMITTING"}
  /\ SetOrder(i, "SUBMITTING")
  /\ SetLifecycle(PlanOf[i], "SUBMITTING")
  /\ UNCHANGED <<ledgerVars, filled, deployedByVenue, lockedCapital>>

Acknowledge(i) ==
  /\ order[i] = "SUBMITTING"
  /\ SetOrder(i, "ACKNOWLEDGED")
  /\ SetLifecycle(PlanOf[i], "ACKNOWLEDGED")
  /\ UNCHANGED <<ledgerVars, filled, deployedByVenue, lockedCapital>>

\* Deviation: the plan gets an order's lifecycle.
RejectPlan(i) ==
  /\ order[i] = "SUBMITTING"
  /\ SetOrder(i, "REJECTED")
  /\ ReleaseIntent(i)
  /\ SetLifecycle(PlanOf[i], "REJECTED")
  /\ UNCHANGED <<filled, deployedByVenue, lockedCapital>>

Reject(i) ==
  /\ order[i] = "SUBMITTING"
  /\ SetOrder(i, "REJECTED")
  /\ ReleaseIntent(i)
  /\ SetLifecycle(PlanOf[i], "FAILED")
  /\ UNCHANGED <<filled, deployedByVenue, lockedCapital>>

Fill(i, quantity, debit) ==
  LET total == filled[i] + quantity IN
  /\ order[i] \in {"ACKNOWLEDGED", "PARTIAL"}
  /\ quantity > 0 /\ total <= Quantity[i]
  /\ DebitIntent(i, debit, total = Quantity[i])
  /\ filled' = [filled EXCEPT ![i] = total]
  /\ SetOrder(i, IF total = Quantity[i] THEN "FILLED" ELSE "PARTIAL")
  /\ SetLifecycle(PlanOf[i], Refreshed(PlanOf[i], order'))
  /\ UNCHANGED lockedCapital

\* Deviation: the unfilled reservation is not released.
CancelKeepsReservation(i) ==
  /\ order[i] \in {"ACKNOWLEDGED", "PARTIAL"}
  /\ SetOrder(i, "CANCELED")
  /\ SetLifecycle(PlanOf[i], "FAILED")
  /\ UNCHANGED <<ledgerVars, filled, deployedByVenue, lockedCapital>>

Cancel(i) ==
  /\ order[i] \in {"ACKNOWLEDGED", "PARTIAL"}
  /\ SetOrder(i, "CANCELED")
  /\ ReleaseIntent(i)
  /\ SetLifecycle(PlanOf[i], "FAILED")
  /\ UNCHANGED <<filled, deployedByVenue, lockedCapital>>

MarkUnknown(i) ==
  /\ order[i] \in {"SUBMITTING", "ACKNOWLEDGED", "PARTIAL"}
  /\ SetOrder(i, "UNKNOWN")
  /\ SetLifecycle(PlanOf[i], "UNKNOWN")
  /\ UNCHANGED <<ledgerVars, filled, deployedByVenue, lockedCapital>>

\* Deviations: fills may be taken back; FILLED is believed at any quantity.
ReconcileBackwards(i, state, cumulative) ==
  /\ order[i] = "UNKNOWN" /\ cumulative <= Quantity[i]
  /\ state = "FILLED" => cumulative = Quantity[i]

ReconcileFilledEarly(i, state, cumulative) ==
  /\ order[i] = "UNKNOWN"
  /\ filled[i] <= cumulative /\ cumulative <= Quantity[i]
  /\ state = "PARTIAL" => cumulative > 0 /\ cumulative < Quantity[i]
  /\ state = "ACKNOWLEDGED" => cumulative = filled[i]

CanReconcile(i, state, cumulative) ==
  /\ order[i] = "UNKNOWN"
  /\ filled[i] <= cumulative /\ cumulative <= Quantity[i]
  /\ state = "FILLED" => cumulative = Quantity[i]
  /\ state = "PARTIAL" => cumulative > 0 /\ cumulative < Quantity[i]
  /\ state = "ACKNOWLEDGED" => cumulative = filled[i]

\* The venue's exact answer about an UNKNOWN order.
ReconcileUnknown(i, state, cumulative, debit) ==
  LET done == state \in {"FILLED", "CANCELED", "REJECTED"} IN
  /\ CanReconcile(i, state, cumulative)
  /\ \/ cumulative > filled[i] /\ DebitIntent(i, debit, done)
     \/ /\ cumulative <= filled[i] /\ debit = 0
        /\ IF done THEN ReleaseIntent(i) ELSE UNCHANGED ledgerVars
        /\ UNCHANGED deployedByVenue
  /\ filled' = [filled EXCEPT ![i] = cumulative]
  /\ SetOrder(i, state)
  /\ SetLifecycle(PlanOf[i], Refreshed(PlanOf[i], order'))
  /\ UNCHANGED lockedCapital

\* Deviation: any plan with fills can be unwound.
UnwindAnything(p) ==
  /\ \E v \in Venue : deployedByVenue[p][v] > 0
  /\ SetLifecycle(p, "UNWINDING")
  /\ UNCHANGED <<ledgerVars, order, filled, deployedByVenue, lockedCapital>>

BeginUnwind(p) ==
  /\ planLifecycle[p] \in {"PARTIALLY_HEDGED", "UNKNOWN", "LOCKED"}
  /\ SetLifecycle(p, "UNWINDING")
  /\ UNCHANGED <<ledgerVars, order, filled, deployedByVenue, lockedCapital>>

\* Deviation: nothing remembers that the capital was locked before.
LockCapitalTwice(p) ==
  /\ planLifecycle[p] = "LOCKED"
  /\ \A v \in Venue : capital[v]["deployed"] >= deployedByVenue[p][v]
  /\ capital' = [v \in Venue |->
       [capital[v] EXCEPT !["deployed"]   = @ - deployedByVenue[p][v],
                          !["unresolved"] = @ + deployedByVenue[p][v]]]
  /\ lockedCapital' = [lockedCapital EXCEPT ![p] = TRUE]
  /\ UNCHANGED <<realizedPnl, reservation, planLifecycle, order, filled, deployedByVenue>>

LockCapitalForResolution(p) ==
  /\ planLifecycle[p] = "LOCKED" /\ ~lockedCapital[p]
  /\ \A v \in Venue : capital[v]["deployed"] >= deployedByVenue[p][v]
  /\ capital' = [v \in Venue |->
       [capital[v] EXCEPT !["deployed"]   = @ - deployedByVenue[p][v],
                          !["unresolved"] = @ + deployedByVenue[p][v]]]
  /\ lockedCapital' = [lockedCapital EXCEPT ![p] = TRUE]
  /\ UNCHANGED <<realizedPnl, reservation, planLifecycle, order, filled, deployedByVenue>>

\* Deviation: the plan stays LOCKED.
SettleWithoutClosing(p, receivable) ==
  LET due(v) == IF deployedByVenue[p][v] > 0 THEN receivable[v] ELSE 0 IN
  /\ planLifecycle[p] = "LOCKED" /\ lockedCapital[p]
  /\ \A v \in Venue : capital[v]["unresolved"] >= deployedByVenue[p][v]
  /\ capital' = [v \in Venue |->
       [capital[v] EXCEPT !["unresolved"] = @ - deployedByVenue[p][v],
                          !["receivable"] = @ + due(v)]]
  /\ realizedPnl' = [v \in Venue |-> realizedPnl[v] + due(v) - deployedByVenue[p][v]]
  /\ UNCHANGED <<reservation, engineVars>>

\* receivable says what each venue of the plan will pay.
SettlePlan(p, receivable) ==
  LET due(v) == IF deployedByVenue[p][v] > 0 THEN receivable[v] ELSE 0 IN
  /\ planLifecycle[p] = "LOCKED" /\ lockedCapital[p]
  /\ \A v \in Venue : capital[v]["unresolved"] >= deployedByVenue[p][v]
  /\ capital' = [v \in Venue |->
       [capital[v] EXCEPT !["unresolved"] = @ - deployedByVenue[p][v],
                          !["receivable"] = @ + due(v)]]
  /\ realizedPnl' = [v \in Venue |-> realizedPnl[v] + due(v) - deployedByVenue[p][v]]
  /\ SetLifecycle(p, "SETTLED")
  /\ UNCHANGED <<reservation, order, filled, deployedByVenue, lockedCapital>>

\* The ledger's owner recovers what a settlement left receivable.
Recover(v, amount) == RecoverReceivable(v, amount) /\ UNCHANGED engineVars

ShadowNext ==
  \/ \E p \in Plan :
       \/ ReservePlan(p) \/ ReservePlanRollsBack(p)
       \/ BeginUnwind(p) \/ LockCapitalForResolution(p)
       \/ \E receivable \in [Venue -> Amount] : SettlePlan(p, receivable)
  \/ \E i \in Intent :
       \/ Submit(i) \/ Acknowledge(i) \/ Reject(i) \/ Cancel(i) \/ MarkUnknown(i)
       \/ \E q \in 1..Quantity[i], d \in Amount : Fill(i, q, d)
       \/ \E s \in OrderLifecycle \ {"INTENT", "SUBMITTING", "UNKNOWN"},
             q \in 0..Quantity[i], d \in Amount : ReconcileUnknown(i, s, q, d)
  \/ \E v \in Venue, a \in Amount : Recover(v, a)

ShadowSpec == ShadowInit /\ [][ShadowNext]_shadowVars

-----------------------------------------------------------------------------
(* Properties *)

Final == {"FILLED", "CANCELED", "REJECTED"}

\* A plan is LOCKED or SETTLED only when each of its orders is filled in full
\* and none of its intents still holds reserved capital, whatever mix of fills
\* and reconciliations, in whatever order, led there.
LockedPlanIsHedged ==
  \A p \in Plan : planLifecycle[p] \in {"LOCKED", "SETTLED"} =>
    \A i \in IntentsOf(p) :
      /\ order[i] = "FILLED" /\ filled[i] = Quantity[i]
      /\ reservation[i].remaining = 0

\* An order that can still be filled keeps what is left of its maximum debit
\* reserved, an order that cannot holds nothing, and an intent of a plan that
\* was never registered holds nothing, even after a rolled back reservation.
ReservationFollowsOrder ==
  \A i \in Intent :
    LET r == reservation[i] IN
    IF ~Registered(PlanOf[i]) THEN r.remaining = 0 /\ r.consumed = 0
    ELSE IF order[i] \in Final THEN r.remaining = 0
    ELSE r.remaining + r.consumed = MaxDebit[i] /\ r.status # "RELEASED"

\* Capital is deployed by fills only: an order has consumed debit exactly if it
\* has filled quantity, also across UNKNOWN and its reconciliation.
DebitMatchesFill ==
  \A i \in Intent : filled[i] > 0 <=> reservation[i].consumed > 0

DeployedAt(v) == [p \in Plan |-> deployedByVenue[p][v]]
Consumed == [i \in Intent |-> reservation[i].consumed]
Unlocked == {p \in Plan : ~lockedCapital[p]}
Unsettled == {p \in Plan : lockedCapital[p] /\ planLifecycle[p] # "SETTLED"}

\* Plans share their venues' buckets.  What a venue has deployed or unresolved
\* is what its plans deployed there, so that locking and settling one plan
\* takes its own capital and never finds the venue short ("diverged").
DeployedIsAttributed ==
  \A v \in Venue :
    /\ capital[v]["deployed"] = SumFunctionOnSet(DeployedAt(v), Unlocked)
    /\ capital[v]["unresolved"] = SumFunctionOnSet(DeployedAt(v), Unsettled)
    /\ \A p \in Plan :
         deployedByVenue[p][v] = SumFunctionOnSet(Consumed, IntentsAt(p, v))

\* The checks of lockCapitalForResolution and settle ("deployed capital
\* diverged") never fail for a plan that may be locked or settled.
NeverDiverges ==
  \A p \in Plan, v \in Venue : planLifecycle[p] = "LOCKED" =>
    IF lockedCapital[p] THEN capital[v]["unresolved"] >= deployedByVenue[p][v]
                        ELSE capital[v]["deployed"] >= deployedByVenue[p][v]

WithinLimit(v) ==
  \/ AtRisk(v) <= MaxCapital[v] + Unchecked(v)
  \/ \E p \in Plan :
       /\ Registered(p) /\ v \in DOMAIN CertificateCapital[p]
       /\ AtRisk(v) <= MaxCapital[v] + Unchecked(v) + Shortfall(p, v)

\* The venue limit of the risk policy bounds the capital at risk at all times,
\* although it is checked only when a plan opens, and against what the
\* certificate says it requires while the plan's own debits are reserved.
\* Nothing compares the two, so beyond the limit go the debits at a venue that a
\* plan's certificate does not name; and what one certificate falls short by,
\* but not two: the plan after it is measured against what is really at risk.
ExposureWithinLimit == \A v \in Venue : WithinLimit(v)

\* Terminal PnL is recognized only through settlement: it changes at a venue
\* only when a locked plan settles, and by what that plan receives less what
\* that plan deployed there.
PnlOnlyThroughSettlement ==
  [][\A v \in Venue :
       realizedPnl'[v] # realizedPnl[v] =>
         \E p \in Plan :
           /\ planLifecycle[p] = "LOCKED" /\ planLifecycle'[p] = "SETTLED"
           /\ realizedPnl'[v] - realizedPnl[v] =
                capital'[v]["receivable"] - capital[v]["receivable"]
                  - deployedByVenue[p][v]]_shadowVars

\* A settled plan is over: nothing about it or its reservations changes again.
SettledPlanIsFinal ==
  [][\A p \in Plan : planLifecycle[p] = "SETTLED" =>
       /\ planLifecycle'[p] = "SETTLED" /\ deployedByVenue'[p] = deployedByVenue[p]
       /\ \A i \in IntentsOf(p) :
            order'[i] = order[i] /\ reservation'[i] = reservation[i]]_shadowVars

\* What a rolled back reservation leaves behind: the plan id is used up.  Its
\* first intents already have reservation records, which are never removed, so
\* reserving the same plan again can never succeed.
RolledBackPlanStaysAbsent ==
  [][\A i \in Intent :
       ~Registered(PlanOf[i]) /\ reservation[i].status = "RELEASED"
         => ~Registered(PlanOf[i])']_shadowVars

\* docs/ARCHITECTURE.md: "UNKNOWN state forbids resubmission and requires
\* reconciliation", "unreconciled order state all fail closed".  Read of a plan:
\* it reports UNKNOWN, or is being unwound, while one of its orders is UNKNOWN.
UnreconciledPlanIsUnknown ==
  \A i \in Intent :
    order[i] = "UNKNOWN" => planLifecycle[PlanOf[i]] \in {"UNKNOWN", "UNWINDING"}
=============================================================================
