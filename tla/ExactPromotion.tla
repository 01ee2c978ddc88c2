---------------------------- MODULE ExactPromotion ----------------------------
(***************************************************************************)
(* From public books to a shadow position, and what later books say of it: *)
(*   runOpportunitySimulation   execution/src/opportunity-simulation.ts    *)
(*   verifyMaterializedOpportunity  control-plane/src/exact-promotion.ts   *)
(*   verifyArbitrageCandidate   opportunity/src/verifier.ts                *)
(*   runCertificateBoundShadow, observeCertificateBoundShadowMarket        *)
(*                              execution/src/certificate-shadow.ts        *)
(*                                                                         *)
(* An opportunity buys the same quantity of every leg; each resolution     *)
(* state pays the legs that win in it.  The simulation prices each leg by  *)
(* walking its book; the promotion turns each walk into one limit price,   *)
(* rounded up to the listing's tick; the verifier computes what is certain *)
(* from those prices; the replay reserves what they allow per venue and    *)
(* fills with what the walk cost.  Each stage rounds for itself.           *)
(***************************************************************************)
EXTENDS ExchangeSimulation

CONSTANTS
  PromotionVenue, Leg,
  State,            \* resolution states
  Winning,          \* state -> the legs that win in it
  Payout,           \* leg -> payoutPerWinningUnit
  PriceTick,        \* leg -> tick of its listing
  QuantityScale, CollateralScale,
  Offers,           \* leg -> its possible books, fees and times of observation
  LaterOffers,      \* the same, when the position is observed
  Quantities,       \* quantities asked for
  Placements,       \* possible functions leg -> venue
  Scopes,           \* what a later plan may have: "SAME", "OTHER_LEGS", "MOVED"
  MaxAge, MaxTime,  \* how long evidence is good for, and the clock's bound
  Absent, Rejected, Thrown

ASSUME OpportunityAssumption ==
  /\ Leg \subseteq Nat
  /\ Winning \in [State -> SUBSET Leg]
  /\ Payout \in [Leg -> Nat \ {0}] /\ PriceTick \in [Leg -> Nat \ {0}]
  /\ QuantityScale \in Nat \ {0} /\ CollateralScale \in Nat \ {0}
  /\ Placements \subseteq [Leg -> PromotionVenue]

VARIABLES
  now,
  venueOf,      \* leg -> venue
  offer,        \* leg -> [levels, fee, observedAt]
  quantity,     \* quantity of every leg
  bundle,       \* the simulation bundle
  certificate,  \* the certificate, or Rejected
  shadow,       \* the locked shadow run: capital by venue
  observation   \* the last observation of the market, or Thrown

promotionVars == <<now, venueOf, offer, quantity, bundle, certificate, shadow, observation>>

SumLegs(f(_)) == SumOver(Leg, f)
Least(f(_)) == Min({f(s) : s \in State})

-----------------------------------------------------------------------------
(* Simulation *)

Request(o, q) ==
  [model |-> "CLOB", action |-> "BUY", policy |-> "FILL_OR_KILL", quantity |-> q,
   quantityScale |-> QuantityScale, collateralScale |-> CollateralScale,
   levels |-> o.levels, fee |-> o.fee]

\* What the legs pay in state s when filled[l] of each is held.
PayoutIn(s, filled) ==
  SumOver(Winning[s], LAMBDA l : DivideFloor(filled[l] * Payout[l], QuantityScale))

BundleStatus(reports, floor) ==
  IF \E l \in Leg : reports[l].status # "FULL" THEN "INCOMPLETE_LEG_SIMULATION"
  ELSE IF \E l \in Leg : ~reports[l].exact THEN "MODEL_CALIBRATION_REQUIRED"
  ELSE IF floor > 0 THEN "POSITIVE_SIMULATED_FLOOR"
  ELSE "NO_POSITIVE_SIMULATED_FLOOR"

ReportsOn(offers, q) == [l \in Leg |-> SimulateExchange(Request(offers[l], q))]

Simulated(reports) ==
  LET filled == [l \in Leg |-> reports[l].filled]
      floor == Least(LAMBDA s : PayoutIn(s, filled)) - SumLegs(LAMBDA l : reports[l].net) IN
  IF \E l \in Leg : reports[l] = Refused THEN Refused
  ELSE [reports |-> reports, floor |-> floor, status |-> BundleStatus(reports, floor)]

Positive(b) == b \notin {Absent, Refused} /\ b.status = "POSITIVE_SIMULATED_FLOOR"

-----------------------------------------------------------------------------
(* Promotion and verification *)

\* Deviation: the limit price is the tick below the average.
TickBelow(value, tick) == DivideFloor(value, tick) * tick

RoundUpToTick(value, tick) == DivideCeil(value, tick) * tick

\* The limit price of a leg: its average price, rounded up twice.
UnitPrice(l) ==
  LET report == bundle.reports[l] IN
  RoundUpToTick(DivideCeil(report.gross * QuantityScale, report.filled), PriceTick[l])

LegNotional(l) == DivideCeil(quantity * UnitPrice(l), QuantityScale)

LegFee(l) == FeeOnCollateral(LegNotional(l), offer[l].fee)

\* certificateDebit: the most a leg may cost.
MaxDebit(l) == LegNotional(l) + LegFee(l)

LegPayout(l, s) ==
  IF l \in Winning[s] THEN DivideFloor(quantity * Payout[l], QuantityScale) ELSE 0

\* Deviation: the certified floor is before fees.
WorstCaseGross ==
  Least(LAMBDA s : SumLegs(LAMBDA l : LegPayout(l, s) - LegNotional(l)))

WorstCaseAfterFees ==
  Least(LAMBDA s : SumLegs(LAMBDA l : LegPayout(l, s) - LegNotional(l) - LegFee(l)))

\* Deviation: what a leg may lose when it wins.
BestCapitalForLeg(l) ==
  LET best == Max({LegPayout(l, s) - MaxDebit(l) : s \in State}) IN
  IF best < 0 THEN -best ELSE 0

\* What a leg may lose by itself.
CapitalForLeg(l) ==
  LET worst == Least(LAMBDA s : LegPayout(l, s) - MaxDebit(l)) IN
  IF worst < 0 THEN -worst ELSE 0

At(v) == {l \in Leg : venueOf[l] = v}

ExpiresAt == Min({offer[l].observedAt + MaxAge : l \in Leg})

Certificate ==
  [worstCase |-> WorstCaseAfterFees,
   capital |-> [v \in PromotionVenue |-> SumOver(At(v), CapitalForLeg)],
   expiresAt |-> ExpiresAt]

\* Deviation: the certified floor may be a loss.
CertifiableWithLoss == ExpiresAt > now

Certifiable == ExpiresAt > now /\ WorstCaseAfterFees > 0

-----------------------------------------------------------------------------
(* Shadow replay *)

ReservedAt(v) == SumOver(At(v), MaxDebit)

\* The plan can be built, the gate lets it open, and each walk is what the
\* certificate allows.
CanReplay ==
  /\ certificate.expiresAt > now
  /\ \A l \in Leg : MaxDebit(l) > 0
  /\ \A v \in PromotionVenue : certificate.capital[v] <= ReservedAt(v)
  /\ \A l \in Leg : bundle.reports[l].net > 0 /\ bundle.reports[l].net <= MaxDebit(l)

Replayed ==
  [v \in PromotionVenue |->
     [deployed  |-> SumOver(At(v), LAMBDA l : bundle.reports[l].net),
      available |-> SumOver(At(v), LAMBDA l : MaxDebit(l) - bundle.reports[l].net)]]

-----------------------------------------------------------------------------
(* Observation of the market of a locked position.  The scope of what is    *)
(* observed is that of the baseline, or has other legs in place of some, or *)
(* has a leg at another venue.                                              *)

\* Deviation: any price within the walk is a match.
CostNeverExceeds(l, report) == FALSE

CostExceedsBound(l, report) == report.net > MaxDebit(l)

LegMatches(l, report) ==
  /\ report.status = "FULL" /\ report.filled = quantity
  /\ ~CostExceedsBound(l, report)
  /\ report.exact

MatchesBounds(observed, scope) ==
  /\ scope = "SAME"
  /\ Positive(observed)
  /\ \A l \in Leg : LegMatches(l, observed.reports[l])

\* A leg of the observation names the venue of the intent, which the contract
\* compares with the venue of the leg's report.
KeepsContract(scope) == scope # "MOVED"

Observable ==
  {Simulated(reports) : reports \in {ReportsOn(o, q) : o \in LaterOffers, q \in Quantities}}
    \ {Refused}

-----------------------------------------------------------------------------
PromotionInit ==
  /\ now = 0
  /\ venueOf \in Placements
  /\ offer \in {o \in [Leg -> UNION {Offers[l] : l \in Leg}] : \A l \in Leg : o[l] \in Offers[l]}
  /\ quantity \in Quantities
  /\ bundle = Absent /\ certificate = Absent /\ shadow = Absent /\ observation = Absent

\* recordOpportunitySimulation: once per opportunity.
SimulateOpportunity ==
  /\ bundle = Absent
  /\ \E reports \in {ReportsOn(offer, quantity)} : bundle' = Simulated(reports)
  /\ UNCHANGED <<now, venueOf, offer, quantity, certificate, shadow, observation>>

\* A certificate that promises more than the simulation is not recorded.
Verify ==
  /\ Positive(bundle) /\ certificate = Absent
  /\ Certifiable => WorstCaseAfterFees <= bundle.floor
  /\ certificate' = IF Certifiable THEN Certificate ELSE Rejected
  /\ UNCHANGED <<now, venueOf, offer, quantity, bundle, shadow, observation>>

Certified == certificate \notin {Absent, Rejected}

ReplayShadow ==
  /\ Certified /\ shadow = Absent
  /\ CanReplay
  /\ shadow' = Replayed
  /\ UNCHANGED <<now, venueOf, offer, quantity, bundle, certificate, observation>>

Observe(observed, scope) ==
  /\ shadow # Absent /\ observation = Absent
  /\ observation' =
       IF ~KeepsContract(scope) THEN Thrown
       ELSE [status |-> IF MatchesBounds(observed, scope) THEN "MATCHED_BOUNDS" ELSE "DIVERGED",
             reports |-> observed.reports]
  /\ UNCHANGED <<now, venueOf, offer, quantity, bundle, certificate, shadow>>

Tick ==
  /\ now < MaxTime /\ shadow = Absent
  /\ now' = now + 1
  /\ UNCHANGED <<venueOf, offer, quantity, bundle, certificate, shadow, observation>>

PromotionNext ==
  \/ SimulateOpportunity \/ Verify \/ ReplayShadow \/ Tick
  \/ /\ shadow # Absent /\ observation = Absent
     /\ \E observed \in Observable, scope \in Scopes : Observe(observed, scope)

PromotionSpec == PromotionInit /\ [][PromotionNext]_promotionVars

-----------------------------------------------------------------------------
(* Properties *)

PromotionTypeOK ==
  /\ now \in 0..MaxTime
  /\ venueOf \in Placements /\ quantity \in Quantities
  /\ bundle \in {Absent, Refused} \/ bundle.floor \in Int
  /\ Certified => /\ certificate.worstCase \in Nat \ {0}
                  /\ certificate.capital \in [PromotionVenue -> Nat]
  /\ shadow = Absent \/ shadow \in [PromotionVenue -> [deployed : Nat, available : Nat]]

\* The verifier, which sees one rounded price per leg, never promises more than
\* the simulation that walked the levels: the exact promotion refuses to record
\* such a certificate, and an opportunity for which it did would never be decided.
PromotionIsConservative ==
  Positive(bundle) /\ Certifiable => WorstCaseAfterFees <= bundle.floor

\* A certificate that is current can be replayed: no walk costs more than its
\* rounded price allows, and the risk gate admits what the certificate requires
\* per venue.  Only legs that cost nothing are excluded, for which the replay
\* asks for another model.
CertifiedCanBeReplayed ==
  /\ Certified /\ certificate.expiresAt > now
  /\ \A l \in Leg : MaxDebit(l) > 0
  => CanReplay

\* What a locked position has paid leaves, in every resolution state, at least
\* what the certificate promised, and no venue loses more than the capital the
\* certificate requires there: the silos the risk gate checks bound the loss.
PositionKeepsCertificate ==
  shadow # Absent =>
    \A s \in State :
      /\ SumLegs(LAMBDA l : LegPayout(l, s))
        - SumOver(PromotionVenue, LAMBDA v : shadow[v].deployed)
           >= certificate.worstCase
      /\ \A v \in PromotionVenue :
           shadow[v].deployed - SumOver(At(v), LAMBDA l : LegPayout(l, s))
             <= certificate.capital[v]

\* An observation that matches the bounds shows a market in which the position
\* could be taken again without losing the certificate's floor in any state.
MatchKeepsFloor ==
  observation \notin {Absent, Thrown} /\ observation.status = "MATCHED_BOUNDS" =>
    \A s \in State :
      PayoutIn(s, [l \in Leg |-> observation.reports[l].filled])
        - SumLegs(LAMBDA l : observation.reports[l].net) >= certificate.worstCase

\* What the market shows later is recorded, also when the plan's scope changed.
ObservationIsRecorded == observation # Thrown
=============================================================================
