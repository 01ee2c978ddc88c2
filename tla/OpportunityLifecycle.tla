------------------------ MODULE OpportunityLifecycle ------------------------
(***************************************************************************)
(* The event-sourced life of one trading opportunity                       *)
(* (packages/execution/src/opportunity-lifecycle.ts).  The class keeps a   *)
(* state and appends an event at every step; the validator replays the     *)
(* events of a stored projection and accepts it only if the replay ends in *)
(* the state the projection claims.  The two encodings of the protocol are *)
(* kept apart here as they are in the code: the operators below the first  *)
(* heading are the methods, those below the second the validator.          *)
(* Artifact hashes are abstracted away: every event carries the artifact   *)
(* of the step that appended it.                                           *)
(***************************************************************************)
EXTENDS Naturals, Sequences

LifecyclePolicy ==
    [route : {"NOTIFY_ONLY", "REQUIRE_HUMAN_APPROVAL", "AUTO_SHADOW"},
     inApp : BOOLEAN]

LifecycleState ==
    {"AWAITING_SEMANTIC_REVIEW", "REJECTED_PREFLIGHT", "REJECTED_SEMANTICS",
     "AWAITING_EXCHANGE_SIMULATION", "AWAITING_MODEL_CALIBRATION",
     "REJECTED_SIMULATION", "AWAITING_EXACT_CERTIFICATE",
     "REJECTED_EXACT_VERIFICATION", "NOTIFIED_ONLY", "AWAITING_HUMAN_APPROVAL",
     "REJECTED_BY_OPERATOR", "SHADOW_READY", "SHADOW_RUNNING", "SHADOW_COMPLETE"}

EventKind ==
    {"DISCOVERED", "PREFLIGHT_REJECTED", "SEMANTIC_REVIEW_ACCEPTED",
     "SEMANTIC_REVIEW_REJECTED", "SIMULATION_ACCEPTED", "SIMULATION_REJECTED",
     "MODEL_CALIBRATION_REQUIRED", "CERTIFICATE_BOUND",
     "EXACT_VERIFICATION_REJECTED", "IN_APP_NOTIFICATION_QUEUED",
     "HUMAN_APPROVAL_REQUESTED", "HUMAN_APPROVED_SHADOW", "HUMAN_REJECTED",
     "AUTO_SHADOW_QUEUED", "SHADOW_STARTED", "SHADOW_COMPLETED"}

Machine ==
    [policy : LifecyclePolicy, state : LifecycleState, certified : BOOLEAN,
     events : Seq(EventKind)]

-----------------------------------------------------------------------------
(* The methods.  Each is applied only in the state its #expect names.      *)

Advance(m, state, kind) ==
    [m EXCEPT !.state = state, !.events = Append(@, kind)]

Discovered(policy) ==
    [policy |-> policy, state |-> "AWAITING_SEMANTIC_REVIEW",
     certified |-> FALSE, events |-> <<"DISCOVERED">>]

PreflightRejected(m) == Advance(m, "REJECTED_PREFLIGHT", "PREFLIGHT_REJECTED")

SemanticReview(m, decision) ==
    IF decision = "ACCEPT"
    THEN Advance(m, "AWAITING_EXCHANGE_SIMULATION", "SEMANTIC_REVIEW_ACCEPTED")
    ELSE Advance(m, "REJECTED_SEMANTICS", "SEMANTIC_REVIEW_REJECTED")

SimulationStatus == {"POSITIVE_FLOOR", "NO_POSITIVE_FLOOR", "CALIBRATION_REQUIRED"}

OpportunitySimulation(m, status) ==
    CASE status = "POSITIVE_FLOOR" ->
           Advance(m, "AWAITING_EXACT_CERTIFICATE", "SIMULATION_ACCEPTED")
      [] status = "NO_POSITIVE_FLOOR" ->
           Advance(m, "REJECTED_SIMULATION", "SIMULATION_REJECTED")
      [] status = "CALIBRATION_REQUIRED" ->
           Advance(m, "AWAITING_MODEL_CALIBRATION", "MODEL_CALIBRATION_REQUIRED")

ExactVerificationRejected(m) ==
    Advance(m, "REJECTED_EXACT_VERIFICATION", "EXACT_VERIFICATION_REJECTED")

\* Deviation: with the channel disabled the case waits on instead of being
\* notified, as if only the queued event moved it.
BoundWithoutNotice(m) ==
    LET bound == [Advance(m, m.state, "CERTIFICATE_BOUND") EXCEPT !.certified = TRUE]
    IN  CASE m.policy.route = "NOTIFY_ONLY" ->
               IF m.policy.inApp
               THEN Advance(bound, "NOTIFIED_ONLY", "IN_APP_NOTIFICATION_QUEUED")
               ELSE bound
          [] m.policy.route = "REQUIRE_HUMAN_APPROVAL" ->
               Advance(bound, "AWAITING_HUMAN_APPROVAL", "HUMAN_APPROVAL_REQUESTED")
          [] m.policy.route = "AUTO_SHADOW" ->
               Advance(bound, "SHADOW_READY", "AUTO_SHADOW_QUEUED")

CertificateBound(m) ==
    LET bound == [Advance(m, m.state, "CERTIFICATE_BOUND") EXCEPT !.certified = TRUE]
    IN  CASE m.policy.route = "NOTIFY_ONLY" ->
               IF m.policy.inApp
               THEN Advance(bound, "NOTIFIED_ONLY", "IN_APP_NOTIFICATION_QUEUED")
               ELSE [bound EXCEPT !.state = "NOTIFIED_ONLY"]
          [] m.policy.route = "REQUIRE_HUMAN_APPROVAL" ->
               Advance(bound, "AWAITING_HUMAN_APPROVAL", "HUMAN_APPROVAL_REQUESTED")
          [] m.policy.route = "AUTO_SHADOW" ->
               Advance(bound, "SHADOW_READY", "AUTO_SHADOW_QUEUED")

HumanDecision(m, decision) ==
    IF decision = "APPROVE_SHADOW"
    THEN Advance(m, "SHADOW_READY", "HUMAN_APPROVED_SHADOW")
    ELSE Advance(m, "REJECTED_BY_OPERATOR", "HUMAN_REJECTED")

BeginShadow(m) == Advance(m, "SHADOW_RUNNING", "SHADOW_STARTED")

\* Deviation: the name of the event is taken for the state it leads to.
CompleteMislabelled(m) == Advance(m, "SHADOW_COMPLETED", "SHADOW_COMPLETED")

CompleteShadow(m) == Advance(m, "SHADOW_COMPLETE", "SHADOW_COMPLETED")

-----------------------------------------------------------------------------
(* The validator.  The state its loop has reached, and whether a           *)
(* certificate is bound, follow from the event read last, so that the test *)
(* of each case of the loop is a condition on two neighbouring events.     *)

MayPrecede(kind, policy) ==
    CASE kind = "DISCOVERED" -> {}
      [] kind \in {"PREFLIGHT_REJECTED", "SEMANTIC_REVIEW_ACCEPTED",
                   "SEMANTIC_REVIEW_REJECTED"} -> {"DISCOVERED"}
      [] kind \in {"SIMULATION_ACCEPTED", "SIMULATION_REJECTED",
                   "MODEL_CALIBRATION_REQUIRED"} -> {"SEMANTIC_REVIEW_ACCEPTED"}
      [] kind = "CERTIFICATE_BOUND" -> {"SIMULATION_ACCEPTED", "CERTIFICATE_BOUND"}
      [] kind = "EXACT_VERIFICATION_REJECTED" -> {"SIMULATION_ACCEPTED"}
      [] kind = "IN_APP_NOTIFICATION_QUEUED" ->
           IF policy.route = "NOTIFY_ONLY" /\ policy.inApp
           THEN {"CERTIFICATE_BOUND"} ELSE {}
      [] kind = "HUMAN_APPROVAL_REQUESTED" ->
           IF policy.route = "REQUIRE_HUMAN_APPROVAL"
           THEN {"CERTIFICATE_BOUND"} ELSE {}
      [] kind = "AUTO_SHADOW_QUEUED" ->
           IF policy.route = "AUTO_SHADOW" THEN {"CERTIFICATE_BOUND"} ELSE {}
      [] kind \in {"HUMAN_APPROVED_SHADOW", "HUMAN_REJECTED"} ->
           {"HUMAN_APPROVAL_REQUESTED"}
      [] kind = "SHADOW_STARTED" -> {"HUMAN_APPROVED_SHADOW", "AUTO_SHADOW_QUEUED"}
      [] kind = "SHADOW_COMPLETED" -> {"SHADOW_STARTED"}

StateAfter(kind, policy) ==
    CASE kind = "DISCOVERED" -> "AWAITING_SEMANTIC_REVIEW"
      [] kind = "PREFLIGHT_REJECTED" -> "REJECTED_PREFLIGHT"
      [] kind = "SEMANTIC_REVIEW_ACCEPTED" -> "AWAITING_EXCHANGE_SIMULATION"
      [] kind = "SEMANTIC_REVIEW_REJECTED" -> "REJECTED_SEMANTICS"
      [] kind = "SIMULATION_ACCEPTED" -> "AWAITING_EXACT_CERTIFICATE"
      [] kind = "SIMULATION_REJECTED" -> "REJECTED_SIMULATION"
      [] kind = "MODEL_CALIBRATION_REQUIRED" -> "AWAITING_MODEL_CALIBRATION"
      [] kind = "CERTIFICATE_BOUND" ->
           IF policy.route = "NOTIFY_ONLY" /\ ~policy.inApp
           THEN "NOTIFIED_ONLY" ELSE "AWAITING_EXACT_CERTIFICATE"
      [] kind = "EXACT_VERIFICATION_REJECTED" -> "REJECTED_EXACT_VERIFICATION"
      [] kind = "IN_APP_NOTIFICATION_QUEUED" -> "NOTIFIED_ONLY"
      [] kind = "HUMAN_APPROVAL_REQUESTED" -> "AWAITING_HUMAN_APPROVAL"
      [] kind \in {"HUMAN_APPROVED_SHADOW", "AUTO_SHADOW_QUEUED"} -> "SHADOW_READY"
      [] kind = "HUMAN_REJECTED" -> "REJECTED_BY_OPERATOR"
      [] kind = "SHADOW_STARTED" -> "SHADOW_RUNNING"
      [] kind = "SHADOW_COMPLETED" -> "SHADOW_COMPLETE"

Happened(m, kind) == \E i \in DOMAIN m.events : m.events[i] = kind

\* assertOpportunityLifecycleProjection: the projection is what its events say.
Replays(m) ==
    /\ m.events # <<>>
    /\ m.events[1] = "DISCOVERED"
    /\ \A i \in 2..Len(m.events) :
         m.events[i - 1] \in MayPrecede(m.events[i], m.policy)
    /\ m.state = StateAfter(m.events[Len(m.events)], m.policy)
    /\ m.certified = Happened(m, "CERTIFICATE_BOUND")

=============================================================================
