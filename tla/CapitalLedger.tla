---------------------------- MODULE CapitalLedger ----------------------------
(***************************************************************************)
(* The virtual-capital ledger of packages/capital/src/ledger.ts.           *)
(*                                                                         *)
(* Every venue is a silo of five buckets.  A reservation earmarks capital  *)
(* of one venue under an id that is never reused; consuming it deploys the *)
(* capital, releasing it returns what was not consumed.  Deployed capital  *)
(* becomes unresolved, then a settlement replaces its cost basis by a      *)
(* receivable and books the difference as realized PnL.                    *)
(*                                                                         *)
(* A call that throws leaves the ledger as it was, so each action is       *)
(* enabled exactly when the call returns.  Amounts are bigint in the code: *)
(* they do not overflow and are integers here.                             *)
(***************************************************************************)
EXTENDS Integers, FiniteSetsExt

CONSTANTS
  Venue,             \* venues the ledger is constructed with
  NoVenue,           \* the venue of a reservation that does not exist
  MaxReservations,   \* bound: how many reservation ids are ever used
  InitialCapital,    \* the constructor's map from venue to capital
  Amount             \* bound: the amounts callers pass

ReservationId == 1..MaxReservations

ASSUME LedgerAssumption ==
  /\ NoVenue \notin Venue
  /\ MaxReservations \in Nat
  /\ InitialCapital \in [Venue -> Nat]
  /\ Amount \subseteq Nat

VARIABLES
  capital,      \* venue -> bucket -> amount
  realizedPnl,  \* venue -> terminal profit and loss
  reservation   \* reservation id -> reservation

ledgerVars == <<capital, realizedPnl, reservation>>

Bucket == {"available", "reserved", "deployed", "unresolved", "receivable"}

ReservationStatus == {"ABSENT", "OPEN", "CONSUMED", "RELEASED"}

Reservation ==
  [venue : Venue \cup {NoVenue}, initial : Nat, remaining : Int,
   consumed : Int, status : ReservationStatus]

NoReservation ==
  [venue |-> NoVenue, initial |-> 0, remaining |-> 0,
   consumed |-> 0, status |-> "ABSENT"]

-----------------------------------------------------------------------------
(* What the operations do to a venue's buckets and to one reservation.      *)
(*                                                                          *)
(* A definition marked "Deviation" says what a slip in the code would make  *)
(* of the next operation.  The properties are tested against deviations;    *)
(* the specification uses none.                                             *)

Transfer(c, v, from, to, amount) ==
  [c EXCEPT ![v][from] = @ - amount, ![v][to] = @ + amount]

\* Deviation.
OpenUnderWrongStatus(v, amount) ==
  [venue |-> v, initial |-> amount, remaining |-> amount,
   consumed |-> 0, status |-> "RESERVED"]

OpenReservation(v, amount) ==
  [venue |-> v, initial |-> amount, remaining |-> amount,
   consumed |-> 0, status |-> "OPEN"]

CanConsume(r, amount) ==
  /\ amount > 0
  /\ r.status = "OPEN"
  /\ amount <= r.remaining

ConsumeReservation(r, amount) ==
  [r EXCEPT !.remaining = @ - amount,
            !.consumed  = @ + amount,
            !.status    = IF r.remaining = amount THEN "CONSUMED" ELSE "OPEN"]

\* Deviation.
ReleaseWithoutClearing(r) ==
  [r EXCEPT !.status = IF r.consumed = r.initial THEN "CONSUMED" ELSE "RELEASED"]

ReleaseReservation(r) ==
  [r EXCEPT !.remaining = 0,
            !.status    = IF r.consumed = r.initial THEN "CONSUMED"
                                                    ELSE "RELEASED"]

-----------------------------------------------------------------------------
(* Deviations of the operations below. *)

ReserveUnfunded(id, v, amount) ==
  /\ amount > 0 /\ reservation[id].status = "ABSENT"
  /\ capital' = Transfer(capital, v, "available", "reserved", amount)
  /\ reservation' = [reservation EXCEPT ![id] = OpenReservation(v, amount)]
  /\ UNCHANGED realizedPnl

ConsumeAfterClose(id, amount) ==
  /\ amount > 0 /\ reservation[id].status # "ABSENT"
  /\ amount <= reservation[id].initial
  /\ capital[reservation[id].venue]["reserved"] >= amount
  /\ capital' = Transfer(capital, reservation[id].venue,
                         "reserved", "deployed", amount)
  /\ reservation' = [reservation EXCEPT ![id] = ConsumeReservation(@, amount)]
  /\ UNCHANGED realizedPnl

SettleWithoutCost(v, costBasis, receivable) ==
  /\ costBasis > 0 /\ capital[v]["unresolved"] >= costBasis
  /\ capital' = [capital EXCEPT ![v]["unresolved"] = @ - costBasis,
                                ![v]["receivable"] = @ + receivable]
  /\ realizedPnl' = [realizedPnl EXCEPT ![v] = @ + receivable]
  /\ UNCHANGED reservation

RecoverUnsettled(v, amount) ==
  /\ amount > 0 /\ capital[v]["unresolved"] >= amount
  /\ capital' = Transfer(capital, v, "unresolved", "available", amount)
  /\ UNCHANGED <<realizedPnl, reservation>>

-----------------------------------------------------------------------------
LedgerInit ==
  /\ capital = [v \in Venue |->
                 [b \in Bucket |-> IF b = "available" THEN InitialCapital[v]
                                                      ELSE 0]]
  /\ realizedPnl = [v \in Venue |-> 0]
  /\ reservation = [id \in ReservationId |-> NoReservation]

Reserve(id, v, amount) ==
  /\ amount > 0
  /\ reservation[id].status = "ABSENT"
  /\ capital[v]["available"] >= amount
  /\ capital' = Transfer(capital, v, "available", "reserved", amount)
  /\ reservation' = [reservation EXCEPT ![id] = OpenReservation(v, amount)]
  /\ UNCHANGED realizedPnl

Consume(id, amount) ==
  /\ CanConsume(reservation[id], amount)
  /\ capital' = Transfer(capital, reservation[id].venue,
                         "reserved", "deployed", amount)
  /\ reservation' = [reservation EXCEPT ![id] = ConsumeReservation(@, amount)]
  /\ UNCHANGED realizedPnl

\* A second release of a released reservation returns 0 and changes nothing.
Release(id) ==
  /\ reservation[id].status \in {"OPEN", "CONSUMED"}
  /\ capital' = Transfer(capital, reservation[id].venue,
                         "reserved", "available", reservation[id].remaining)
  /\ reservation' = [reservation EXCEPT ![id] = ReleaseReservation(@)]
  /\ UNCHANGED realizedPnl

MarkUnresolved(v, amount) ==
  /\ amount > 0
  /\ capital[v]["deployed"] >= amount
  /\ capital' = Transfer(capital, v, "deployed", "unresolved", amount)
  /\ UNCHANGED <<realizedPnl, reservation>>

RecognizeSettlement(v, costBasis, receivable) ==
  /\ costBasis > 0
  /\ capital[v]["unresolved"] >= costBasis
  /\ capital' = [capital EXCEPT ![v]["unresolved"] = @ - costBasis,
                                ![v]["receivable"] = @ + receivable]
  /\ realizedPnl' = [realizedPnl EXCEPT ![v] = @ + receivable - costBasis]
  /\ UNCHANGED reservation

RecoverReceivable(v, amount) ==
  /\ amount > 0
  /\ capital[v]["receivable"] >= amount
  /\ capital' = Transfer(capital, v, "receivable", "available", amount)
  /\ UNCHANGED <<realizedPnl, reservation>>

LedgerNext ==
  \/ \E id \in ReservationId, v \in Venue, a \in Amount : Reserve(id, v, a)
  \/ \E id \in ReservationId, a \in Amount : Consume(id, a)
  \/ \E id \in ReservationId : Release(id)
  \/ \E v \in Venue, a \in Amount : MarkUnresolved(v, a)
  \/ \E v \in Venue, c, r \in Amount : RecognizeSettlement(v, c, r)
  \/ \E v \in Venue, a \in Amount : RecoverReceivable(v, a)

LedgerSpec == LedgerInit /\ [][LedgerNext]_ledgerVars

-----------------------------------------------------------------------------
(* Properties *)

\* The buckets, the PnL and the reservations have their types.
LedgerTypeOK ==
  /\ capital \in [Venue -> [Bucket -> Int]]
  /\ realizedPnl \in [Venue -> Int]
  /\ reservation \in [ReservationId -> Reservation]

Owned(v) ==
  capital[v]["available"] + capital[v]["reserved"] + capital[v]["deployed"]
    + capital[v]["unresolved"] + capital[v]["receivable"]

\* assertConservation, first check: whatever was reserved, consumed, released,
\* settled or recovered, a venue's buckets add up to its initial capital and
\* its realized PnL.
Conservation ==
  \A v \in Venue : Owned(v) = InitialCapital[v] + realizedPnl[v]

\* assertConservation, second check: no bucket ever becomes negative.  The
\* code subtracts from "reserved" what a reservation says it holds and never
\* compares the two, so this needs the reservations to agree with the bucket.
NonNegativeBuckets ==
  \A v \in Venue, b \in Bucket : capital[v][b] >= 0

\* What reservation id still holds of venue v.
HeldAt(v, id) ==
  IF reservation[id].venue = v THEN reservation[id].remaining ELSE 0

Held(v) == [id \in ReservationId |-> HeldAt(v, id)]

\* The reserved bucket of a venue is what its reservations still hold:
\* capital is neither stuck in the bucket nor promised twice.
ReservedIsBacked ==
  \A v \in Venue :
    capital[v]["reserved"] =
      SumFunctionOnSet(Held(v), ReservationId)

\* A reservation's status tells how its initial amount is split: consumed and
\* still held while OPEN, all consumed when CONSUMED, less than that and
\* nothing held when RELEASED.
ReservationAccounts ==
  \A id \in ReservationId :
    LET r == reservation[id] IN
    /\ r.status = "ABSENT" => r = NoReservation
    /\ r.status # "ABSENT" => r.venue \in Venue /\ r.initial > 0
    /\ r.consumed >= 0 /\ r.remaining >= 0
    /\ r.status = "OPEN"     => r.remaining > 0 /\ r.consumed + r.remaining = r.initial
    /\ r.status = "CONSUMED" => r.remaining = 0 /\ r.consumed = r.initial
    /\ r.status = "RELEASED" => r.remaining = 0 /\ r.consumed < r.initial

\* An id is spent once: a reservation that was consumed or released never
\* changes again, so its capital cannot be returned or deployed twice.
ClosedReservationIsFinal ==
  [][\A id \in ReservationId :
       reservation[id].status \in {"CONSUMED", "RELEASED"}
         => reservation'[id] = reservation[id]]_ledgerVars

Silo == INSTANCE SiloedCapital WITH
  free  <- [v \in Venue |-> capital[v]["available"]],
  held  <- [v \in Venue |-> capital[v]["reserved"]],
  spent <- [v \in Venue |-> capital[v]["deployed"] + capital[v]["unresolved"]],
  due   <- [v \in Venue |-> capital[v]["receivable"]]

\* Each call moves capital within venues as SiloedCapital allows: what was
\* deployed returns to available only through settlement and recovery, and
\* no call moves capital from one venue to another.
KeepsSilos == Silo!Spec
=============================================================================
