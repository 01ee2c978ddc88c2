-------------------------- MODULE ExchangeSimulation --------------------------
(***************************************************************************)
(* The exchange simulator (packages/execution/src/exchange-simulator.ts):  *)
(* what a taker's order against a book of levels, or a trade with a        *)
(* constant product pool, costs or brings in whole units of collateral.    *)
(* Every division is rounded against the trader.                           *)
(*                                                                         *)
(* A request is a record; a report is the part of the evidence that is     *)
(* computed from it, or Refused when the simulator throws.                 *)
(***************************************************************************)
EXTENDS Integers, Sequences, SequencesExt

CONSTANT
  Refused  \* the simulator throws

\* Division of fixed.ts, by a positive divisor.
DivideFloor(n, d) == n \div d
DivideCeil(n, d) == -((-n) \div d)

SumOver(S, f(_)) == MapThenSumSet(f, S)

-----------------------------------------------------------------------------
(* Fees.  A fee is a rate (over rateScale) of the collateral and a flat     *)
(* amount, or a rate of the binary price curve p (1 - p) rounded up to a    *)
(* quantum of the venue for each fill.                                      *)

RateFee(rate, scale, flat) ==
  [model |-> "RATE", rate |-> rate, rateScale |-> scale, flat |-> flat, quantum |-> 1]

CurveFee(rate, scale, quantum) ==
  [model |-> "CURVE", rate |-> rate, rateScale |-> scale, flat |-> 0, quantum |-> quantum]

FeeIsValid(fee) ==
  /\ 0 <= fee.rate /\ fee.rate < fee.rateScale
  /\ fee.flat >= 0 /\ fee.quantum > 0

FeeOnCollateral(collateral, fee) ==
  DivideCeil(collateral * fee.rate, fee.rateScale) + fee.flat

FeeOnCurve(fills, fee, request) ==
  LET one == request.collateralScale IN
  SumOver(DOMAIN fills, LAMBDA k :
    DivideCeil(fills[k].quantity * fee.rate * fills[k].price * (one - fills[k].price),
               request.quantityScale * fee.rateScale * one * fee.quantum) * fee.quantum)

FeeOnFills(fills, gross, request) ==
  IF request.fee.model = "CURVE"
  THEN FeeOnCurve(fills, request.fee, request)
  ELSE FeeOnCollateral(gross, request.fee)

-----------------------------------------------------------------------------
(* A taker's order against visible levels *)

\* Deviation: levels in the order of their identities.
FirstComes(request) ==
  SetToSortSeq(request.levels, LAMBDA l, m : l.identity < m.identity)

\* The levels from the best price for the taker, equal prices by identity.
Best(request) ==
  SetToSortSeq(request.levels, LAMBDA l, m :
    IF l.price = m.price THEN l.identity < m.identity
    ELSE IF request.action = "BUY" THEN l.price < m.price ELSE l.price > m.price)

Available(request) == SumOver(request.levels, LAMBDA l : l.quantity)

\* Deviation: an order to fill or kill takes what there is.
TakesWhatThereIs(request) == Min({Available(request), request.quantity})

Target(request) ==
  IF request.policy = "FILL_OR_KILL" /\ Available(request) < request.quantity
  THEN 0
  ELSE Min({Available(request), request.quantity})

\* Deviation: what is bought is rounded down at each level.
CollateralRoundedDown(request, quantity, price) ==
  DivideFloor(quantity * price, request.quantityScale)

Collateral(request, quantity, price) ==
  IF request.action = "BUY"
  THEN DivideCeil(quantity * price, request.quantityScale)
  ELSE DivideFloor(quantity * price, request.quantityScale)

\* Level k gives what is left of the target after the better levels.
Fills(request) ==
  LET sorted == Best(request)
      before(k) == SumOver(1..(k - 1), LAMBDA j : sorted[j].quantity)
      taken(k) == Min({sorted[k].quantity, Target(request) - before(k)})
      used == {k \in DOMAIN sorted : before(k) < Target(request)} IN
  [k \in used |-> [price |-> sorted[k].price,
                   quantity |-> taken(k),
                   collateral |-> Collateral(request, taken(k), sorted[k].price)]]

\* Deviation: the fee is taken off a purchase too.
NetOfFee(action, gross, fee) == gross - fee

Net(action, gross, fee) == IF action = "BUY" THEN gross + fee ELSE gross - fee

ClobIsValid(request) ==
  /\ request.quantityScale > 0 /\ request.collateralScale > 0
  /\ FeeIsValid(request.fee)
  /\ request.quantity > 0
  /\ request.levels # {}
  /\ \A l \in request.levels : l.price >= 0 /\ l.quantity > 0

SimulateClobTaker(request) ==
  LET fills == Fills(request)
      filled == SumOver(DOMAIN fills, LAMBDA k : fills[k].quantity)
      gross == SumOver(DOMAIN fills, LAMBDA k : fills[k].collateral)
      outside == \E k \in DOMAIN fills : fills[k].price > request.collateralScale
      fee == IF filled = 0 THEN 0 ELSE FeeOnFills(fills, gross, request) IN
  IF \/ ~ClobIsValid(request)
     \/ request.fee.model = "CURVE" /\ outside
     \/ request.action = "SELL" /\ fee > gross
  THEN Refused
  ELSE [status |-> IF filled = 0 THEN "REJECTED"
                   ELSE IF filled = request.quantity THEN "FULL" ELSE "PARTIAL",
        filled |-> filled,
        gross |-> gross,
        fee |-> fee,
        net |-> Net(request.action, gross, fee),
        exact |-> request.fee.model = "RATE"]

-----------------------------------------------------------------------------
(* A constant product pool *)

AmmIsValid(request) ==
  /\ request.quantityScale > 0 /\ request.collateralScale > 0
  /\ FeeIsValid(request.fee)
  /\ request.fee.model = "RATE"
  /\ request.quantity > 0
  /\ request.collateralReserve > 0 /\ request.outcomeReserve > 0
  /\ request.action = "BUY" => request.quantity < request.outcomeReserve

\* Deviation: the pool's new reserve is rounded in the trader's favour.
ReserveRoundedDown(request) ==
  LET outcome == IF request.action = "BUY" THEN request.outcomeReserve - request.quantity
                                           ELSE request.outcomeReserve + request.quantity IN
  [outcome |-> outcome,
   collateral |-> DivideFloor(request.collateralReserve * request.outcomeReserve, outcome)]

\* The pool after the trade, its product not less than before.
PoolAfter(request) ==
  LET outcome == IF request.action = "BUY" THEN request.outcomeReserve - request.quantity
                                           ELSE request.outcomeReserve + request.quantity IN
  [outcome |-> outcome,
   collateral |-> DivideCeil(request.collateralReserve * request.outcomeReserve, outcome)]

\* Deviation: the fee of a purchase is a rate of what reaches the pool.
FeeOnNetPurchase(toPool, fee) == DivideCeil(toPool * fee.rate, fee.rateScale) + fee.flat

\* Deviation: what is paid is rounded down.
FeeRoundedDown(toPool, fee) ==
  DivideFloor(toPool * fee.rateScale, fee.rateScale - fee.rate) - toPool + fee.flat

\* A purchase is grossed up, so that the rate is of all that is paid.
FeeOnPurchase(toPool, fee) ==
  DivideCeil(toPool * fee.rateScale, fee.rateScale - fee.rate) - toPool + fee.flat

SimulateConstantProductAmm(request) ==
  LET pool == PoolAfter(request)
      buys == request.action = "BUY"
      gross == IF buys THEN pool.collateral - request.collateralReserve
                       ELSE request.collateralReserve - pool.collateral
      fee == IF buys THEN FeeOnPurchase(gross, request.fee)
                     ELSE FeeOnCollateral(gross, request.fee)
      lost == pool.collateral * pool.outcome
                < request.collateralReserve * request.outcomeReserve IN
  IF \/ ~AmmIsValid(request)
     \/ ~buys /\ (gross <= 0 \/ fee >= gross)
     \/ lost
  THEN Refused
  ELSE [status |-> "FULL",
        filled |-> request.quantity,
        gross |-> gross,
        fee |-> fee,
        net |-> Net(request.action, gross, fee),
        exact |-> FALSE]

SimulateExchange(request) ==
  IF request.model = "CLOB" THEN SimulateClobTaker(request)
                            ELSE SimulateConstantProductAmm(request)
=============================================================================
