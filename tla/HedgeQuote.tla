------------------------------- MODULE HedgeQuote -------------------------------
(***************************************************************************)
(* A shadow quote at an illiquid venue and the curves of what its hedge    *)
(* costs or brings elsewhere: buildHedgeCurve of                           *)
(* packages/liquidity/src/hedge-curve.ts and generateShadowMakerQuote of   *)
(* shadow-maker.ts.                                                        *)
(*                                                                         *)
(* A level is [listing, quantity, price, rate, friction, basis]: what it   *)
(* offers, its collateral per unit, and per unit the fee's rate, the       *)
(* execution, venue and lock premiums together, and the basis risk.        *)
(***************************************************************************)
EXTENDS Integers, SequencesExt

CONSTANTS
  HedgeScale, FeeRateScale,
  LevelChoices,        \* action -> the possible sequences of levels
  Checkpoints,   \* possible sets of checkpoints
  Capacities,    \* possible sets of the three limits on the quantity
  Premiums,      \* possible premiums per unit
  PayoutPerUnit,
  NoQuote, HedgeRefused

ASSUME ScalesArePositive ==
  HedgeScale \in Nat \ {0} /\ FeeRateScale \in Nat \ {0} /\ PayoutPerUnit \in Nat \ {0}

Actions == {"BUY", "SELL"}

VARIABLES
  sideLevels,       \* action -> its levels
  checkpoints,  \* action -> quantities to be hedged
  capacity,     \* the limits
  premium,
  curve,        \* action -> NoQuote, HedgeRefused or its points: quantity -> allInCollateral
  quote

hedgeVars == <<sideLevels, checkpoints, capacity, premium, curve, quote>>

HedgeDivideFloor(n, d) == n \div d
HedgeDivideCeil(n, d) == -((-n) \div d)

PriceSum(S, f(_)) == MapThenSumSet(f, S)

-----------------------------------------------------------------------------
(* Hedge curve *)

MarginalCollateral(action, level) ==
  LET friction == HedgeDivideCeil(level.price * level.rate, FeeRateScale)
                    + level.friction + level.basis IN
  IF action = "BUY" THEN level.price + friction ELSE level.price - friction

\* Deviation: the best price comes first, whatever it costs to take it.
BetterPrice(action, l, m) == IF action = "BUY" THEN l.price < m.price ELSE l.price > m.price

Better(action, l, m) ==
  LET left == MarginalCollateral(action, l)
      right == MarginalCollateral(action, m) IN
  IF left = right THEN l.listing < m.listing
  ELSE IF action = "BUY" THEN left < right ELSE left > right

Depth(action) == PriceSum(DOMAIN sideLevels[action], LAMBDA k : sideLevels[action][k].quantity)

\* What level k gives to a hedge of the quantity, after the better ones.
Allocated(action, k, quantity) ==
  LET all == sideLevels[action]
      first(j) == Better(action, all[j], all[k])
                    \/ (~Better(action, all[k], all[j]) /\ j < k)
      before == PriceSum({j \in DOMAIN all : first(j)}, LAMBDA j : all[j].quantity) IN
  Max({0, Min({all[k].quantity, quantity - before})})

\* What an allocation costs or brings; each level is rounded by itself.
HedgeCollateral(action, allocation) ==
  PriceSum(DOMAIN allocation, LAMBDA k :
    LET amount == allocation[k] * MarginalCollateral(action, sideLevels[action][k]) IN
    IF action = "BUY" THEN HedgeDivideCeil(amount, HedgeScale)
                      ELSE HedgeDivideFloor(amount, HedgeScale))

Allocation(action, quantity) ==
  [k \in DOMAIN sideLevels[action] |-> Allocated(action, k, quantity)]

LevelsAreValid(action) ==
  \A k \in DOMAIN sideLevels[action] : MarginalCollateral(action, sideLevels[action][k]) >= 0

CheckpointsAreValid(action) ==
  /\ checkpoints[action] # {}
  /\ \A quantity \in checkpoints[action] : 0 < quantity /\ quantity <= Depth(action)

HedgeCurve(action) ==
  IF LevelsAreValid(action) /\ CheckpointsAreValid(action)
  THEN [quantity \in checkpoints[action] |-> HedgeCollateral(action, Allocation(action, quantity))]
  ELSE HedgeRefused

-----------------------------------------------------------------------------
(* Quote *)

\* Deviation: one limit that permits a quantity is enough.
QuantitiesWithinSomeLimit ==
  {quantity \in DOMAIN curve["BUY"] \cap DOMAIN curve["SELL"] :
     \E limit \in capacity : quantity <= limit}

CommonQuantities ==
  {quantity \in DOMAIN curve["BUY"] \cap DOMAIN curve["SELL"] :
     \A limit \in capacity : quantity <= limit}

\* Deviation: the price of what is bought is rounded in favour of the taker.
AskRoundedDown(quantity) ==
  HedgeDivideFloor(curve["BUY"][quantity] * HedgeScale, quantity) + premium

AskPrice(quantity) ==
  HedgeDivideCeil(curve["BUY"][quantity] * HedgeScale, quantity) + premium

BidPrice(quantity) ==
  HedgeDivideFloor(curve["SELL"][quantity] * HedgeScale, quantity) - premium

\* Deviation: the quote may ask more than the outcome can pay.
SpreadIsOpen(quantity) == 0 <= BidPrice(quantity) /\ BidPrice(quantity) < AskPrice(quantity)

SpreadIsValid(quantity) ==
  /\ 0 <= BidPrice(quantity)
  /\ BidPrice(quantity) < AskPrice(quantity)
  /\ AskPrice(quantity) <= PayoutPerUnit

Quote ==
  IF CommonQuantities = {} THEN HedgeRefused
  ELSE LET quantity == Max(CommonQuantities) IN
       IF premium < 0 \/ quantity <= 0 \/ ~SpreadIsValid(quantity) THEN HedgeRefused
       ELSE [quantity |-> quantity, bid |-> BidPrice(quantity), ask |-> AskPrice(quantity)]

-----------------------------------------------------------------------------

HedgeInit ==
  /\ sideLevels \in {f \in [Actions -> UNION {LevelChoices[x] : x \in Actions}] :
                   \A x \in Actions : f[x] \in LevelChoices[x]}
  /\ checkpoints \in [Actions -> Checkpoints]
  /\ capacity \in Capacities
  /\ premium \in Premiums
  /\ curve = [x \in Actions |-> NoQuote]
  /\ quote = NoQuote

BuildHedgeCurve(action) ==
  /\ curve[action] = NoQuote
  /\ curve' = [curve EXCEPT ![action] = HedgeCurve(action)]
  /\ UNCHANGED <<sideLevels, checkpoints, capacity, premium, quote>>

GenerateShadowMakerQuote ==
  /\ \A x \in Actions : curve[x] \notin {NoQuote, HedgeRefused}
  /\ quote = NoQuote
  /\ quote' = Quote
  /\ UNCHANGED <<sideLevels, checkpoints, capacity, premium, curve>>

HedgeNext == (\E x \in Actions : BuildHedgeCurve(x)) \/ GenerateShadowMakerQuote

HedgeSpec == HedgeInit /\ [][HedgeNext]_hedgeVars

-----------------------------------------------------------------------------
(* Properties *)

Quoted == quote \notin {NoQuote, HedgeRefused}

HedgeTypeOK ==
  /\ \A x \in Actions : curve[x] \in {NoQuote, HedgeRefused} \/ curve[x] \in [checkpoints[x] -> Nat]
  /\ Quoted => quote.quantity > 0 /\ 0 <= quote.bid /\ quote.ask <= PayoutPerUnit

\* "walks cheapest executable depth across multiple venues"
\* (liquidity.test.ts:38): no other way to take the quantity from the levels
\* costs less, or brings more, but for what rounding each level used may add.
CurveIsBest ==
  \A x \in Actions : curve[x] \notin {NoQuote, HedgeRefused} =>
    \A quantity \in DOMAIN curve[x] :
      LET all == sideLevels[x]
          used == {k \in DOMAIN all : Allocated(x, k, quantity) > 0}
          rounding == Cardinality(used) - 1
          others == {g \in [DOMAIN all -> 0..quantity] :
                       /\ \A k \in DOMAIN all : g[k] <= all[k].quantity
                       /\ PriceSum(DOMAIN all, LAMBDA k : g[k]) = quantity} IN
      \A g \in others :
        IF x = "BUY" THEN curve[x][quantity] <= HedgeCollateral(x, g) + rounding
                     ELSE curve[x][quantity] >= HedgeCollateral(x, g) - rounding

\* A taker who fills any part of the quote leaves the maker a hedge that costs
\* no more than the quote's price less the premium, but for what rounding each
\* level may add: the price of the whole quantity covers the parts, since a
\* hedge takes the best levels first.
PartialFillsAreCovered ==
  Quoted => \A part \in 1..quote.quantity :
    LET cost(x) == HedgeCollateral(x, Allocation(x, part)) * HedgeScale
        rounding(x) == IF part = quote.quantity THEN 0
                       ELSE (Len(sideLevels[x]) - 1) * HedgeScale + HedgeScale - 1 IN
    /\ part * (quote.ask - premium) + rounding("BUY") >= cost("BUY")
    /\ part * (quote.bid + premium) - rounding("SELL") <= cost("SELL")

\* A quote can be hedged in whole whichever side is taken, within the inventory,
\* the risk budget and the largest quote, and no larger checkpoint could be.
QuoteCanBeHedged ==
  Quoted =>
    LET can(quantity) == /\ \A x \in Actions : quantity <= Depth(x) /\ quantity \in checkpoints[x]
                         /\ \A limit \in capacity : quantity <= limit IN
    /\ can(quote.quantity)
    /\ \A quantity \in UNION {checkpoints[x] : x \in Actions} :
         can(quantity) => quantity <= quote.quantity
=============================================================================
