-------------------------- MODULE CompleteSetCompiler --------------------------
(***************************************************************************)
(* proposeCompleteSetCandidate (packages/opportunity/src/compiler.ts): the *)
(* largest quantity, the same for every leg, that the depth of each leg,   *)
(* the capital of each venue and all quantity ticks permit.  The number of *)
(* common ticks is found by bisection, one iteration of the loop a step.   *)
(***************************************************************************)
EXTENDS Integers, FiniteSetsExt

CONSTANTS
  Leg, CompilerVenue,
  Templates,  \* possible templates: [scale, legs], see TemplateLegs
  Limits      \* possible capital limits, on any part of the venues

\* A leg of a template, whatever its numbers.
TemplateLegs ==
  [venue : CompilerVenue, price : Nat, rate : Nat, rateScale : Nat \ {0}, flat : Nat,
   quantityTick : Int, maxQuantity : Int]

\* A template without legs is refused before anything else.
ASSUME LegAssumption == IsFiniteSet(Leg) /\ Leg # {}

ASSUME TemplatesAssumption ==
  \A t \in Templates : t.scale \in Nat \ {0} /\ t.legs \in [Leg -> TemplateLegs]

ASSUME LimitsAssumption ==
  \A silos \in Limits :
    DOMAIN silos \subseteq CompilerVenue /\ \A v \in DOMAIN silos : silos[v] \in Int

VARIABLES
  template, limits,
  phase,       \* "READ", "SEARCH", "PROPOSED" or "THROWN"
  commonTick,
  maxUnits,
  lower, upper

compilerVars == <<template, limits, phase, commonTick, maxUnits, lower, upper>>

DivideCeil(n, d) == -((-n) \div d)

-----------------------------------------------------------------------------
(* Ticks *)

GreatestCommonDivisor[a \in Nat, b \in Nat] ==
  IF b = 0 THEN a ELSE GreatestCommonDivisor[b, a % b]

Magnitude(n) == IF n < 0 THEN -n ELSE n

\* Deviation: the product of the ticks.
Product(left, right) == left * right

LeastCommonMultiple(left, right) ==
  IF left = 0 \/ right = 0 THEN 0
  ELSE (left \div GreatestCommonDivisor[Magnitude(left), Magnitude(right)]) * right

CommonTick ==
  FoldSet(LAMBDA l, tick : LeastCommonMultiple(tick, template.legs[l].quantityTick), 1, Leg)

-----------------------------------------------------------------------------
(* Capital *)

DebitAtQuantity(t, l, quantity) ==
  LET leg == t.legs[l]
      notional == DivideCeil(quantity * leg.price, t.scale) IN
  notional + leg.flat + DivideCeil(notional * leg.rate, leg.rateScale)

LegsAt(t, v) == {l \in Leg : t.legs[l].venue = v}

Debits(t, quantity) == [l \in Leg |-> DebitAtQuantity(t, l, quantity)]

Required(t, v, quantity) == SumFunctionOnSet(Debits(t, quantity), LegsAt(t, v))

Used(t) == {t.legs[l].venue : l \in Leg}

\* Deviation: the limits are on each leg by itself.
EachLegFits(t, quantity, silos) ==
  \A l \in Leg : LET v == t.legs[l].venue IN
    v \in DOMAIN silos /\ DebitAtQuantity(t, l, quantity) <= silos[v]

CapitalFits(t, quantity, silos) ==
  \A v \in Used(t) :
    v \in DOMAIN silos /\ silos[v] >= 0 /\ Required(t, v, quantity) <= silos[v]

-----------------------------------------------------------------------------

DepthBound == Min({template.legs[l].maxQuantity : l \in Leg})

CompilerInit ==
  /\ template \in Templates /\ limits \in Limits
  /\ phase = "READ"
  /\ commonTick = 1 /\ maxUnits = 0 /\ lower = 0 /\ upper = 0

\* Deviation: a depth that is a whole number of ticks loses one.
UnitsBelow(tick) == (DepthBound - 1) \div tick

Units(tick) == DepthBound \div tick

\* The checks before the loop: both numbers are to be positive.
ReadLeg ==
  /\ phase = "READ"
  /\ commonTick' = CommonTick
  /\ maxUnits' = IF CommonTick \in Nat \ {0} THEN Units(CommonTick) ELSE 0
  /\ phase' = IF maxUnits' \in Nat \ {0} THEN "SEARCH" ELSE "THROWN"
  /\ lower' = 0
  /\ upper' = maxUnits'
  /\ UNCHANGED <<template, limits>>

\* Deviation: the middle is rounded down, which may be where the search is.
MiddleRoundedDown == (lower + upper) \div 2

Middle == (lower + upper + 1) \div 2

\* Deviation: what fits is left behind.
NarrowPast ==
  /\ phase = "SEARCH" /\ lower < upper
  /\ IF CapitalFits(template, Middle * commonTick, limits)
       THEN lower' = Middle + 1 /\ UNCHANGED upper
       ELSE upper' = Middle - 1 /\ UNCHANGED lower
  /\ UNCHANGED <<template, limits, phase, commonTick, maxUnits>>

Narrow ==
  /\ phase = "SEARCH" /\ lower < upper
  /\ IF CapitalFits(template, Middle * commonTick, limits)
       THEN lower' = Middle /\ UNCHANGED upper
       ELSE upper' = Middle - 1 /\ UNCHANGED lower
  /\ UNCHANGED <<template, limits, phase, commonTick, maxUnits>>

Propose ==
  /\ phase = "SEARCH" /\ lower >= upper
  /\ phase' = IF lower = 0 THEN "THROWN" ELSE "PROPOSED"
  /\ UNCHANGED <<template, limits, commonTick, maxUnits, lower, upper>>

CompilerNext == ReadLeg \/ Narrow \/ Propose

CompilerSpec == CompilerInit /\ [][CompilerNext]_compilerVars

\* A call runs to its end.
CompilerFairSpec == CompilerSpec /\ WF_compilerVars(CompilerNext)

CommonQuantity == lower * commonTick

-----------------------------------------------------------------------------
(* Properties *)

\* The bounds of the search stay in order and within the depth.
CompilerTypeOK ==
  /\ template \in Templates /\ limits \in Limits
  /\ phase \in {"READ", "SEARCH", "PROPOSED", "THROWN"}
  /\ phase \in {"SEARCH", "PROPOSED"} =>
       /\ commonTick \in Nat \ {0} /\ maxUnits \in Nat
       /\ lower \in Nat /\ upper \in Nat
       /\ lower <= upper /\ upper <= maxUnits

\* The common tick is the least positive quantity on the tick of every leg: a
\* coarser one would leave out quantities the venues accept, a finer one would
\* propose quantities a venue refuses.
TickIsLeast ==
  phase \in {"SEARCH", "PROPOSED"} =>
    /\ \A l \in Leg : commonTick % template.legs[l].quantityTick = 0
    /\ \A n \in 1..(commonTick - 1) : \E l \in Leg : n % template.legs[l].quantityTick # 0

\* What is proposed can be paid by the capital silo of every venue, and one
\* tick more cannot, or is more than the depth of some leg.
ProposalIsTight ==
  phase = "PROPOSED" =>
    /\ CommonQuantity > 0
    /\ \A v \in Used(template) :
         v \in DOMAIN limits /\ Required(template, v, CommonQuantity) <= limits[v]
    /\ lower < maxUnits => ~CapitalFits(template, CommonQuantity + commonTick, limits)

\* "the largest equal-quantity exhaustive-set candidate permitted by selected
\* depth, venue capital silos, and all quantity ticks" (compiler.ts:58), and no
\* candidate is refused when there is one: bisection finds what a search of all
\* quantities finds, since debits never fall when the quantity grows.
ProposalIsLargest ==
  phase \in {"PROPOSED", "THROWN"} /\ commonTick \in Nat \ {0} =>
    \A quantity \in {q \in 1..DepthBound : q % commonTick = 0} :
      CapitalFits(template, quantity, limits) =>
        phase = "PROPOSED" /\ quantity <= CommonQuantity

\* The search ends, with a proposal or a refusal, for every depth and every
\* limit: no iteration leaves the bounds as they were.
SearchEnds == <>(phase \in {"PROPOSED", "THROWN"})
=============================================================================
