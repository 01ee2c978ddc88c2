--------------------------- MODULE OpportunityDesk ---------------------------
(***************************************************************************)
(* The desk that owns every opportunity lifecycle                          *)
(* (packages/control-plane/src/opportunity-lifecycle-desk.ts), its table   *)
(* of journals (saveOpportunityLifecycleJournal of operational-store.ts)   *)
(* and the HTTP handlers that drive it (server.ts).  Every handler changes *)
(* the entry in memory first and saves the journal afterwards: a save that *)
(* fails is answered 409 and leaves the change in memory, to be stored by  *)
(* the next save of the case or lost by a restart.                         *)
(***************************************************************************)
EXTENDS OpportunityLifecycle, SequencesExt

CONSTANTS
    Case,               \* proposals of the market archaeologist
    Lead,               \* deterministic search leads, retired by the preflight
    DefaultPolicies,    \* the policies the desk may be constructed with
    DeskRetention,          \* retentionLimit: journals kept in the table
    Window,             \* proposals the archaeologist's records hold at a time
    ObservationLimit,   \* shadow observations the journal contract admits
    MaxFailedSaves,     \* bound: saves the database refuses
    MaxRestarts,        \* bound: restarts of the process
    NoEntry             \* the case is not known to the desk, or has no row

Opportunity == Case \cup Lead
Purpose == {"SIMULATE", "OBSERVE"}

Entry == [machine : Machine, decisions : Nat, bundles : Nat,
          verifications : Nat, runs : Nat, observations : Nat]

ASSUME RetentionAssumption == DeskRetention \in Nat \ {0}
ASSUME WindowAssumption == Window \in Nat \ {0}
ASSUME PolicyAssumption == DefaultPolicies \subseteq LifecyclePolicy
ASSUME LimitAssumption == ObservationLimit \in Nat
ASSUME NoEntryAssumption == NoEntry \notin Entry

VARIABLES
    entries,        \* #entries: what the desk holds of each opportunity
    deskRows,           \* opportunity_lifecycle_journals
    order,          \* the stored opportunities by rowid, the oldest first
    offered,        \* proposals in the archaeologist's records, the oldest first
    asked,          \* requests that wait for public evidence: <<case, purpose>>
    expired,        \* cases whose certificate has passed expiresAtEpochMs
    defaultPolicy,  \* policy given to new cases
    answered,       \* events of each case its last successful answer stood for
    failedSaves,    \* saves refused so far
    restarts        \* restarts so far

deskVars == <<entries, deskRows, order, offered, asked, expired, defaultPolicy, answered,
          failedSaves, restarts>>

Fresh(machine) ==
    [machine |-> machine, decisions |-> 0, bundles |-> 0, verifications |-> 0,
     runs |-> 0, observations |-> 0]

DeskInit ==
    /\ entries = [o \in Opportunity |-> NoEntry]
    /\ deskRows = [o \in Opportunity |-> NoEntry]
    /\ order = <<>>
    /\ offered = <<>>
    /\ asked = {}
    /\ expired = {}
    /\ defaultPolicy \in DefaultPolicies
    /\ answered = [o \in Opportunity |-> <<>>]
    /\ failedSaves = 0
    /\ restarts = 0

-----------------------------------------------------------------------------
(* Saving.                                                                 *)

\* assertOpportunityLifecycleJournal: every artifact the journal keeps is bound
\* by an event of its lifecycle.
JournalBinds(e) ==
    /\ Replays(e.machine)
    /\ e.decisions > 0 => \/ Happened(e.machine, "SEMANTIC_REVIEW_ACCEPTED")
                          \/ Happened(e.machine, "SEMANTIC_REVIEW_REJECTED")
    /\ e.bundles > 0 => \/ Happened(e.machine, "SIMULATION_ACCEPTED")
                        \/ Happened(e.machine, "SIMULATION_REJECTED")
                        \/ Happened(e.machine, "MODEL_CALIBRATION_REQUIRED")
    /\ e.verifications > 0 => /\ e.bundles > 0
                              /\ \/ Happened(e.machine, "CERTIFICATE_BOUND")
                                 \/ Happened(e.machine, "EXACT_VERIFICATION_REJECTED")
    /\ e.runs > 0 => /\ e.verifications > 0 /\ e.bundles > 0
                     /\ Happened(e.machine, "SHADOW_COMPLETED")
    /\ e.observations > 0 => e.runs > 0

Continues(later, earlier) ==
    /\ Len(earlier) <= Len(later)
    /\ \A i \in 1..Len(earlier) : later[i] = earlier[i]

\* The store refuses a journal that rewrites the prior one.
ExtendsRow(e, row) ==
    /\ Continues(e.machine.events, row.machine.events)
    /\ row.decisions <= e.decisions /\ row.bundles <= e.bundles
    /\ row.verifications <= e.verifications /\ row.runs <= e.runs

SaveAccepts(o, e) ==
    /\ JournalBinds(e) /\ e.observations <= ObservationLimit
    /\ deskRows[o] # NoEntry => ExtendsRow(e, deskRows[o])

\* The upsert keeps the rowid of a stored case; a new row is the newest, and
\* the rows beyond the retention limit are deleted from the oldest.
Stored(o, e) ==
    LET appended == IF deskRows[o] = NoEntry THEN Append(order, o) ELSE order
        evicts == Len(appended) > DeskRetention
    IN  /\ order' = IF evicts THEN Tail(appended) ELSE appended
        /\ deskRows' = [x \in Opportunity |->
                      IF x = o THEN e
                      ELSE IF evicts /\ x = Head(appended) THEN NoEntry
                      ELSE deskRows[x]]

SaveSucceeds(o, e) ==
    /\ SaveAccepts(o, e)
    /\ Stored(o, e)
    /\ answered' = [answered EXCEPT ![o] = e.machine.events]
    /\ UNCHANGED failedSaves

SaveFails ==
    /\ failedSaves < MaxFailedSaves
    /\ failedSaves' = failedSaves + 1
    /\ UNCHANGED <<deskRows, order>>

\* Deviation: a failed save is answered like a stored one.
PersistSilently(o, e) ==
    /\ entries' = [entries EXCEPT ![o] = e]
    /\ \/ SaveSucceeds(o, e)
       \/ SaveFails /\ answered' = [answered EXCEPT ![o] = e.machine.events]

\* #persist after the entry has been changed: stored and answered, or refused
\* by the checks, or refused by the database.
PersistEntry(o, e) ==
    /\ entries' = [entries EXCEPT ![o] = e]
    /\ \/ SaveSucceeds(o, e)
       \/ ~SaveAccepts(o, e) /\ UNCHANGED <<deskRows, order, answered, failedSaves>>
       \/ SaveFails /\ UNCHANGED answered

-----------------------------------------------------------------------------
(* Discovery.                                                              *)

\* A run of the market archaeologist passes with a new proposal, and the oldest
\* record leaves its window.
Propose(c) ==
    /\ c \in Case /\ ~Contains(offered, c)
    /\ offered' = IF Len(offered) < Window
                  THEN Append(offered, c) ELSE Append(Tail(offered), c)
    /\ UNCHANGED <<entries, deskRows, order, asked, expired, defaultPolicy, answered,
                   failedSaves, restarts>>

\* syncMarketArchaeologist
Discover(c) ==
    /\ c \in Case /\ Contains(offered, c)
    /\ entries[c] = NoEntry
    /\ PersistEntry(c, Fresh(Discovered(defaultPolicy)))
    /\ UNCHANGED <<offered, asked, expired, defaultPolicy, restarts>>

\* syncRealCandidate
RetireLead(c) ==
    /\ c \in Lead
    /\ entries[c] = NoEntry
    /\ PersistEntry(c, Fresh(PreflightRejected(Discovered(defaultPolicy))))
    /\ UNCHANGED <<offered, asked, expired, defaultPolicy, restarts>>

-----------------------------------------------------------------------------
(* The operator's requests.                                                *)

InState(c, state) == entries[c] # NoEntry /\ entries[c].machine.state = state

\* recordResearchSemanticDecision
DecideSemantics(c, decision) ==
    /\ InState(c, "AWAITING_SEMANTIC_REVIEW")
    /\ entries[c].decisions = 0
    /\ PersistEntry(c, [entries[c] EXCEPT !.machine = SemanticReview(@, decision),
                                     !.decisions = @ + 1])
    /\ UNCHANGED <<offered, asked, expired, defaultPolicy, restarts>>

\* A relation qualifies while its proposal is in the archaeologist's records
\* and the operator accepted it.
Qualified(c) ==
    /\ Contains(offered, c)
    /\ entries[c] # NoEntry
    /\ Happened(entries[c].machine, "SEMANTIC_REVIEW_ACCEPTED")

\* The materializations and shadow-observations handlers fetch public evidence
\* before they touch the desk again.
RequestEvidence(c, purpose) ==
    /\ c \in Case /\ <<c, purpose>> \notin asked
    /\ Qualified(c)
    /\ purpose = "OBSERVE" => InState(c, "SHADOW_COMPLETE")
    /\ asked' = asked \cup {<<c, purpose>>}
    /\ UNCHANGED <<entries, deskRows, order, offered, expired, defaultPolicy, answered,
                   failedSaves, restarts>>

CanSimulate(c) ==
    /\ InState(c, "AWAITING_EXCHANGE_SIMULATION")
    /\ entries[c].bundles = 0

Simulated(e, status) ==
    [e EXCEPT !.machine = OpportunitySimulation(@, status), !.bundles = @ + 1]

\* POST /simulations: a simulation the operator supplies, recorded at once.
SimulateByHand(c, status) ==
    /\ c \in Case /\ Qualified(c) /\ CanSimulate(c)
    /\ PersistEntry(c, Simulated(entries[c], status))
    /\ UNCHANGED <<offered, asked, expired, defaultPolicy, restarts>>

\* recordExactVerification of a record that is certified or rejected
Verified(e, certified) ==
    LET bound == [e EXCEPT !.machine = CertificateBound(@), !.verifications = @ + 1]
    IN  IF ~certified
        THEN [e EXCEPT !.machine = ExactVerificationRejected(@), !.verifications = @ + 1]
        ELSE IF e.machine.policy.route = "AUTO_SHADOW"
        THEN [bound EXCEPT !.machine = CompleteShadow(BeginShadow(@)), !.runs = @ + 1]
        ELSE bound

\* The evidence does not build a plan, or the case has moved on meanwhile.
EvidenceUseless(c, purpose) ==
    /\ <<c, purpose>> \in asked
    /\ asked' = asked \ {<<c, purpose>>}
    /\ UNCHANGED <<entries, deskRows, order, offered, expired, defaultPolicy, answered,
                   failedSaves, restarts>>

\* POST /materializations answered: the simulation is stored and has no positive
\* floor, or it could not be stored, or the exact verifier threw.
MaterializeSimulationOnly(c, status) ==
    /\ <<c, "SIMULATE">> \in asked /\ CanSimulate(c)
    /\ asked' = asked \ {<<c, "SIMULATE">>}
    /\ PersistEntry(c, Simulated(entries[c], status))
    /\ UNCHANGED <<offered, expired, defaultPolicy, restarts>>

\* POST /materializations answered after both saves, with nothing between them.
\* The second may fail; the first is then stored and the answer is 409.
MaterializeAndVerify(c, certified) ==
    LET simulated == Simulated(entries[c], "POSITIVE_FLOOR")
        verified == Verified(simulated, certified)
    IN  /\ <<c, "SIMULATE">> \in asked /\ CanSimulate(c)
        /\ asked' = asked \ {<<c, "SIMULATE">>}
        /\ SaveAccepts(c, simulated)
        /\ expired' = expired \ {c}
        /\ entries' = [entries EXCEPT ![c] = verified]
        /\ \/ SaveSucceeds(c, verified)
           \/ /\ \/ ~SaveAccepts(c, verified) /\ UNCHANGED failedSaves
                 \/ /\ failedSaves < MaxFailedSaves
                    /\ failedSaves' = failedSaves + 1
              /\ Stored(c, simulated)
              /\ UNCHANGED answered
        /\ UNCHANGED <<offered, defaultPolicy, restarts>>

\* recordShadowDecision("APPROVE_SHADOW"): the shadow run is built before the
\* machine moves, and throws once the certificate has expired.
ApproveShadow(c) ==
    /\ InState(c, "AWAITING_HUMAN_APPROVAL")
    /\ entries[c].verifications > 0 /\ entries[c].runs = 0
    /\ c \notin expired
    /\ PersistEntry(c, [entries[c] EXCEPT
                     !.machine = CompleteShadow(BeginShadow(HumanDecision(@, "APPROVE_SHADOW"))),
                     !.runs = @ + 1])
    /\ UNCHANGED <<offered, asked, expired, defaultPolicy, restarts>>

\* recordShadowDecision("REJECT")
RejectShadow(c) ==
    /\ InState(c, "AWAITING_HUMAN_APPROVAL")
    /\ PersistEntry(c, [entries[c] EXCEPT !.machine = HumanDecision(@, "REJECT")])
    /\ UNCHANGED <<offered, asked, expired, defaultPolicy, restarts>>

\* recordShadowMarketObservation of an observation not made before.  The bound
\* of the journal is tested by the save alone.
ObserveMarket(c) ==
    /\ <<c, "OBSERVE">> \in asked
    /\ InState(c, "SHADOW_COMPLETE")
    /\ entries[c].runs > 0
    /\ entries[c].observations <= ObservationLimit
    /\ asked' = asked \ {<<c, "OBSERVE">>}
    /\ PersistEntry(c, [entries[c] EXCEPT !.observations = @ + 1])
    /\ UNCHANGED <<offered, expired, defaultPolicy, restarts>>

-----------------------------------------------------------------------------
(* The environment.                                                        *)

CertificateExpires(c) ==
    /\ entries[c] # NoEntry /\ entries[c].machine.certified
    /\ c \notin expired
    /\ expired' = expired \cup {c}
    /\ UNCHANGED <<entries, deskRows, order, offered, asked, defaultPolicy, answered,
                   failedSaves, restarts>>

\* Deviation: the restored machine is given the policy the desk now has.
RestoredUnderNewPolicy(o, policy) ==
    IF deskRows[o] = NoEntry THEN NoEntry
    ELSE [deskRows[o] EXCEPT !.machine.policy = policy]

\* The constructor and OpportunityLifecycleMachine.restore: the policy is the
\* one the journal was written under.
Restored(o, policy) == deskRows[o]

DeskRestart ==
    /\ restarts < MaxRestarts
    /\ restarts' = restarts + 1
    /\ defaultPolicy' \in DefaultPolicies
    /\ entries' = [o \in Opportunity |-> Restored(o, defaultPolicy')]
    /\ answered' = [o \in Opportunity |-> IF deskRows[o] = NoEntry THEN <<>> ELSE answered[o]]
    /\ asked' = {}
    /\ UNCHANGED <<deskRows, order, offered, expired, failedSaves>>

-----------------------------------------------------------------------------
DeskNext ==
    \/ \E c \in Opportunity :
         \/ Propose(c) \/ Discover(c) \/ RetireLead(c)
         \/ \E decision \in {"ACCEPT", "REJECT"} : DecideSemantics(c, decision)
         \/ \E purpose \in Purpose :
              RequestEvidence(c, purpose) \/ EvidenceUseless(c, purpose)
         \/ \E status \in SimulationStatus :
              SimulateByHand(c, status) \/ MaterializeSimulationOnly(c, status)
         \/ \E certified \in BOOLEAN : MaterializeAndVerify(c, certified)
         \/ ApproveShadow(c) \/ RejectShadow(c) \/ ObserveMarket(c)
         \/ CertificateExpires(c)
    \/ DeskRestart

DeskSpec == DeskInit /\ [][DeskNext]_deskVars

\* Every request that can succeed is made sooner or later, evidence arrives, and
\* the projection keeps synchronizing the offered proposals.
DeskFairness ==
    \A c \in Case :
      /\ WF_deskVars(Discover(c))
      /\ WF_deskVars(DecideSemantics(c, "ACCEPT"))
      /\ WF_deskVars(RequestEvidence(c, "SIMULATE"))
      /\ SF_deskVars(\E certified \in BOOLEAN : MaterializeAndVerify(c, certified))
      /\ WF_deskVars(ApproveShadow(c) \/ RejectShadow(c))

DeskFairSpec == DeskSpec /\ DeskFairness

-----------------------------------------------------------------------------
(* Properties.                                                             *)

DeskTypeOK ==
    /\ entries \in [Opportunity -> Entry \cup {NoEntry}]
    /\ deskRows \in [Opportunity -> Entry \cup {NoEntry}]
    /\ order \in Seq(Opportunity)
    /\ offered \in Seq(Case)
    /\ asked \subseteq Case \X Purpose
    /\ expired \in SUBSET Opportunity
    /\ defaultPolicy \in DefaultPolicies
    /\ answered \in [Opportunity -> Seq(EventKind)]
    /\ failedSaves \in Nat
    /\ restarts \in Nat

\* What the desk holds of a case is a journal the validator accepts and a
\* continuation of the stored one, unless its observations are full: a save the
\* database refused is made good by the next one, and a restart never meets a
\* row it cannot replay.
EntriesCanBeSaved ==
    \A o \in Opportunity :
      entries[o] # NoEntry =>
        \/ SaveAccepts(o, entries[o])
        \/ entries[o].observations > ObservationLimit

\* What a successful answer reported is in the row for as long as the row is
\* kept: no restart takes back an acknowledged decision of a retained case.
AnswersAreStored ==
    \A o \in Opportunity :
      deskRows[o] # NoEntry => Continues(deskRows[o].machine.events, answered[o])

\* A shadow run belongs to a case whose certificate is bound and whose route was
\* automatic when the case was discovered, or which an operator approved; a
\* restart under another policy does not turn one route into the other.
ShadowsAreAuthorized ==
    \A o \in Opportunity :
      entries[o] # NoEntry /\ entries[o].runs > 0 =>
        LET m == entries[o].machine
        IN  /\ m.certified /\ entries[o].runs = 1
            /\ m.policy.route = "AUTO_SHADOW" \/ Happened(m, "HUMAN_APPROVED_SHADOW")

\* A case whose next action is the exact verifier is verified in the end.
AnnouncedVerificationHappens ==
    \A c \in Case :
      InState(c, "AWAITING_EXACT_CERTIFICATE")
        ~> ~InState(c, "AWAITING_EXACT_CERTIFICATE")

=============================================================================
