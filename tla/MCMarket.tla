------------------------------ MODULE MCMarket ------------------------------
(***************************************************************************)
(* What prices and trades are computed from, for TLC: the feed of a book,  *)
(* the capital ledger, the simulator of exchanges, the promotion of a      *)
(* simulated opportunity and the quote of a hedged maker.                  *)
(*                                                                         *)
(* They share no variable and are explored side by side: machine says      *)
(* which of them moves in a behaviour, and the others rest in one of their *)
(* initial states.                                                         *)
(***************************************************************************)
EXTENDS GeminiBookFeed, CapitalLedger, HedgeQuote, ExactPromotion, ExchangeSimulator

CONSTANTS a, b

VARIABLE machine

-----------------------------------------------------------------------------
(* Feed and ledger: two prices, one of them off the decoder's tick, two    *)
(* sizes beside none, and a venue that begins with one level at most; two  *)
(* venues of unequal capital, two reservation ids.                         *)

MCPrice == {2, 3}
MCSize == 0..2
FirstBooks == {[x \in Place |-> IF x = y THEN 1 ELSE 0] : y \in Place \cup {None}}
MCTickSize == {2}
MCVenue == {a, b}
MCInitialCapital == [v \in MCVenue |-> IF v = a THEN 3 ELSE 2]
MCAmount == 0..2

-----------------------------------------------------------------------------
(* Simulator: books of up to two levels of up to three units at prices     *)
(* that do not divide the scale, and small pools.                          *)

Ask(p, q, i) == [price |-> p, quantity |-> q, identity |-> i]

ExchangeBooks ==
  {{Ask(p, q, 1)} : p \in 0..3, q \in 1..3} \union
  {{Ask(p, q, 1), Ask(r, s, 2)} : p \in 0..3, q \in 1..3, r \in 0..3, s \in 1..3}

ExchangeFees == {RateFee(0, 1, 0), RateFee(1, 3, 0), RateFee(1, 2, 1),
                 CurveFee(1, 2, 1), CurveFee(2, 3, 2)}

Clob ==
  {[model |-> "CLOB", action |-> x, policy |-> p, quantity |-> q, quantityScale |-> 2,
    collateralScale |-> 3, levels |-> l, fee |-> f]
      : x \in {"BUY", "SELL"}, p \in {"FILL_OR_KILL", "IMMEDIATE_OR_CANCEL"},
        q \in {1, 2, 4, 5}, l \in ExchangeBooks, f \in ExchangeFees}

Amm ==
  {[model |-> "AMM", action |-> x, quantity |-> q, quantityScale |-> 2,
    collateralScale |-> 3, collateralReserve |-> r, outcomeReserve |-> o, fee |-> f]
      : x \in {"BUY", "SELL"}, q \in 1..6, r \in 1..9, o \in 1..9, f \in ExchangeFees}

MCRequests == Clob \union Amm

-----------------------------------------------------------------------------
(* Promotion: two legs at one venue or two, three resolution states in one *)
(* of which both legs win, and books whose prices divide neither scale nor *)
(* tick.                                                                   *)

PromotionBooks ==
  {{Ask(p, 3, 1)} : p \in {0, 2, 5}} \union {{Ask(2, 1, 1)}} \union
  {{Ask(p, 1, 1), Ask(r, 2, 2)} : p \in 1..2, r \in {3}}

PromotionFees == {RateFee(0, 1, 0), RateFee(1, 5, 1)}

Offer(S, F, T) == [levels : S, fee : F, observedAt : T]

MCOffers ==
  <<Offer(PromotionBooks, PromotionFees, {1}),
    Offer(PromotionBooks, PromotionFees, {0, 1})
      \union Offer({{Ask(2, 3, 1)}}, {CurveFee(1, 2, 1)}, {0})>>

MCLaterOffers ==
  {<<o, p>> : o \in Offer({{Ask(q, 3, 1)} : q \in {1, 3}}, {RateFee(1, 4, 0)}, {2}),
              p \in Offer({{Ask(q, 2, 1)} : q \in {2, 3}}, PromotionFees, {2})}

MCState == {"FF", "TT", "FT"}
MCWinning == [s \in MCState |->
                CASE s = "FF" -> {2} [] s = "TT" -> {1} [] s = "FT" -> {1, 2}]

MCPayout == <<8, 8>>
MCPriceTick == <<1, 2>>
MCPlacements == {<<a, a>>, <<a, b>>}

-----------------------------------------------------------------------------
(* Quote: up to three levels a side, of which the best price is not always *)
(* the cheapest, and checkpoints the two sides share in part.              *)

Step(l, q, p, r, f, basis) ==
  [listing |-> l, quantity |-> q, price |-> p, rate |-> r, friction |-> f, basis |-> basis]

\* The first level costs what its price says, the second has premiums as well.
Two(prices, quantities) ==
  {<<Step(2, q, p, 0, 0, 0), Step(1, r, s, rate, f, basis)>> :
     q \in quantities, r \in quantities, p \in prices, s \in prices,
     rate \in {0, 1}, f \in {0, 1}, basis \in {0, 2}}

MCLevelChoices ==
  [x \in {"BUY", "SELL"} |->
     IF x = "BUY"
     THEN Two({4, 7}, {1, 3})
            \union {<<Step(1, 1, 5, 0, 0, 0), Step(1, 1, 6, 0, 0, 0), Step(1, 2, 7, 1, 0, 0)>>}
     ELSE {<<Step(1, q, p, 1, f, 1), Step(1, 3, 5, 0, f, 0)>> :
             q \in {1, 2}, p \in {2, 7}, f \in {0, 3}}]

MCCheckpoints == {{1, 3}, {2, 3, 4}}
MCCapacities == {{4, 6}, {2, 3}}
MCPremiums == {0, 1}

-----------------------------------------------------------------------------
(* Side by side. *)

FeedRests == history = <<[x \in Place |-> 0]>> /\ FeedInit

ExchangeRests == request = (CHOOSE r \in Amm : TRUE) /\ ExchangeInit

PromotionRests ==
  /\ venueOf = <<a, a>> /\ quantity = 1
  /\ offer = [l \in Leg |-> CHOOSE o \in MCOffers[l] : TRUE]
  /\ PromotionInit

HedgeRests ==
  /\ sideLevels = [x \in Actions |-> CHOOSE l \in MCLevelChoices[x] : TRUE]
  /\ checkpoints = [x \in Actions |-> {1, 3}]
  /\ capacity = {4, 6} /\ premium = 0
  /\ HedgeInit

Init ==
  /\ LedgerInit
  /\ \/ /\ machine = "feed" /\ FeedInit /\ history[1] \in FirstBooks
        /\ ExchangeRests /\ PromotionRests /\ HedgeRests
     \/ machine = "ledger" /\ FeedRests /\ ExchangeRests /\ PromotionRests /\ HedgeRests
     \/ machine = "exchange" /\ FeedRests /\ ExchangeInit /\ PromotionRests /\ HedgeRests
     \/ machine = "promotion" /\ FeedRests /\ ExchangeRests /\ PromotionInit /\ HedgeRests
     \/ machine = "hedge" /\ FeedRests /\ ExchangeRests /\ PromotionRests /\ HedgeInit

Next ==
  /\ UNCHANGED machine
  /\ \/ /\ machine = "feed" /\ FeedNext
        /\ UNCHANGED <<ledgerVars, exchangeVars, promotionVars, hedgeVars>>
     \/ /\ machine = "ledger" /\ LedgerNext
        /\ UNCHANGED <<feedVars, exchangeVars, promotionVars, hedgeVars>>
     \/ /\ machine = "exchange" /\ Simulate
        /\ UNCHANGED <<feedVars, ledgerVars, promotionVars, hedgeVars>>
     \/ /\ machine = "promotion" /\ PromotionNext
        /\ UNCHANGED <<feedVars, ledgerVars, exchangeVars, hedgeVars>>
     \/ /\ machine = "hedge" /\ HedgeNext
        /\ UNCHANGED <<feedVars, ledgerVars, exchangeVars, promotionVars>>

vars == <<machine, feedVars, ledgerVars, exchangeVars, promotionVars, hedgeVars>>

Spec == Init /\ [][Next]_vars
=============================================================================
