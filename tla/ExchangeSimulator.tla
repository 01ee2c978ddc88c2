-------------------------- MODULE ExchangeSimulator --------------------------
(* One simulation by the exchange simulator: any request, and its report.   *)
EXTENDS ExchangeSimulation

CONSTANTS
  Requests,  \* the requests that are made
  NoReport       \* not simulated yet

VARIABLES request, report

exchangeVars == <<request, report>>

ExchangeInit == request \in Requests /\ report = NoReport

Simulate ==
  /\ report = NoReport
  /\ report' = SimulateExchange(request)
  /\ UNCHANGED request

ExchangeSpec == ExchangeInit /\ [][Simulate]_exchangeVars

-----------------------------------------------------------------------------
(* Properties *)

ExchangeTypeOK ==
  report \in {NoReport, Refused} \union
    [status : {"FULL", "PARTIAL", "REJECTED"}, filled : Nat, gross : Nat,
     fee : Nat, net : Nat, exact : BOOLEAN]

Reported == report \notin {NoReport, Refused}
IsClob == request.model = "CLOB"
Buys == request.action = "BUY"

\* The ways to take the filled quantity from the levels of the book.
Allocations ==
  {a \in [request.levels -> 0..report.filled] :
     /\ \A l \in request.levels : a[l] <= l.quantity
     /\ SumOver(request.levels, LAMBDA l : a[l]) = report.filled}

\* The collateral of an allocation before rounding, times the scale.
Value(a) == SumOver(request.levels, LAMBDA l : a[l] * l.price)

\* Walking the levels from the best price takes no more, or brings no less,
\* than any other way to fill the order, up to a rounding against the trader of
\* less than one unit of collateral per level.
WalkIsBest ==
  Reported /\ IsClob =>
    LET taken == request.quantityScale * report.gross
        rounding == request.quantityScale * Cardinality(request.levels) IN
    IF Buys
    THEN /\ \A a \in Allocations : taken < Value(a) + rounding
         /\ \E a \in Allocations : Value(a) <= taken
    ELSE /\ \A a \in Allocations : taken > Value(a) - rounding
         /\ \E a \in Allocations : Value(a) >= taken

\* A fill-or-kill order is filled or not touched, and only for want of depth;
\* an immediate-or-cancel order leaves no level that would have served it.
FillPolicyIsKept ==
  Reported /\ IsClob =>
    /\ report.filled < request.quantity =>
         /\ Available(request) < request.quantity
         /\ report.filled = IF request.policy = "FILL_OR_KILL" THEN 0 ELSE Available(request)
    /\ report.status = "FULL" <=> report.filled = request.quantity

\* The pool as the other side of the trade finds it.
OnPoolAfter(action, quantity) ==
  [request EXCEPT !.action = action, !.quantity = quantity,
                  !.collateralReserve = PoolAfter(request).collateral,
                  !.outcomeReserve = PoolAfter(request).outcome]

\* Whoever buys from the pool and sells back what he bought, or the other way
\* round, has not gained: all roundings and both fees are against him.
RoundTripGainsNothing ==
  Reported /\ ~IsClob =>
    LET back == SimulateConstantProductAmm(
                  OnPoolAfter(IF Buys THEN "SELL" ELSE "BUY", request.quantity)) IN
    back # Refused =>
      IF Buys THEN back.net <= report.net ELSE back.net >= report.net

\* A purchase in two parts costs at least what the whole costs.
SplittingGainsNothing ==
  Reported /\ ~IsClob /\ Buys =>
    \A q \in 1..(request.quantity - 1) :
      LET first == [request EXCEPT !.quantity = q]
          pool == PoolAfter(first)
          second == [first EXCEPT !.quantity = request.quantity - q,
                                  !.collateralReserve = pool.collateral,
                                  !.outcomeReserve = pool.outcome] IN
      SimulateConstantProductAmm(first).net + SimulateConstantProductAmm(second).net
        >= report.net

\* The fee of a purchase is the pool's rate of all that is paid, not of what
\* reaches the pool, and a valid purchase is never refused: rounding keeps the
\* product of the reserves.
PurchaseIsGrossedUp ==
  report # NoReport /\ ~IsClob /\ Buys /\ AmmIsValid(request) =>
    /\ report # Refused
    /\ report.fee * request.fee.rateScale
         >= (report.net - request.fee.flat) * request.fee.rate
              + request.fee.flat * request.fee.rateScale
=============================================================================
