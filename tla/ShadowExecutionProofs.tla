------------------------------- MODULE ShadowExecutionProofs --------------------------------
(***************************************************************************)
(* Theorems about the capital ledger and the engine that trades with it.   *)
(*                                                                         *)
(* Proofs about CapitalLedger for all venues, capitals and amounts and any *)
(* number of reservations.                                                 *)
(*                                                                         *)
(* Neither "reserved" nor "available" is safe by its own guard: consume    *)
(* and release take from "reserved" what one reservation says it holds.    *)
(* The inductive invariant therefore says that the bucket is the sum of    *)
(* what all reservations hold (ReservedIsBacked); FiniteFolds says how that *)
(* sum follows a change of one reservation.                                *)
(*                                                                         *)
(* Proofs about ShadowExecution for all plans, intents, quantities, debits *)
(* and dependencies.                                                       *)
(*                                                                         *)
(* OrderInv: the order machine, the reservation and the plan's lifecycle   *)
(* are three records of the same fact, updated by different calls.         *)
(* IntentSound says how the first two agree for one intent, OrdersFilled   *)
(* how the third follows; together they are inductive without any sum.     *)
(*                                                                         *)
(* FundsInv adds where the capital is: what a venue holds reserved is the  *)
(* sum over the intents there, what it deployed the sum over the plans.    *)
(* Lock and settlement move a plan's capital by the engine's own record of *)
(* what it deployed, and subtract without comparing, so these equalities   *)
(* are needed for no bucket to become negative.  Each step changes one     *)
(* summand, or those of one plan; FiniteFolds says what becomes of the sum. *)
(***************************************************************************)
EXTENDS ShadowExecution, FiniteFolds

LedgerInv ==
  /\ LedgerTypeOK
  /\ Conservation
  /\ NonNegativeBuckets
  /\ ReservationAccounts
  /\ ReservedIsBacked

-----------------------------------------------------------------------------
\* Sums over the reservation ids are sums over a finite set.
LEMMA ReservationIdsAreFinite == IsFiniteSet(ReservationId)
BY LedgerAssumption, FS_Interval DEF ReservationId

-----------------------------------------------------------------------------
(* The invariant *)

\* A transfer between two buckets of a venue keeps what the venue owns, and
\* touches no other venue.
LEMMA TransferFacts ==
  ASSUME NEW c \in [Venue -> [Bucket -> Int]], NEW v \in Venue,
         NEW from \in Bucket, NEW to \in Bucket, from # to, NEW n \in Int
  PROVE  LET t == Transfer(c, v, from, to, n) IN
         /\ t \in [Venue -> [Bucket -> Int]]
         /\ t[v][from] = c[v][from] - n
         /\ t[v][to] = c[v][to] + n
         /\ \A b \in Bucket : b # from /\ b # to => t[v][b] = c[v][b]
         /\ \A w \in Venue : w # v => t[w] = c[w]
BY DEF Transfer

\* What the reservations hold is a function into the naturals.
LEMMA HeldType ==
  ASSUME LedgerTypeOK, ReservationAccounts, NEW v \in Venue
  PROVE  Held(v) \in [ReservationId -> Nat]
<1>1. \A id \in ReservationId : reservation[id].remaining \in Nat
  BY DEF LedgerTypeOK, Reservation, ReservationAccounts
<1>2. QED BY <1>1 DEF Held, HeldAt

\* No reservation holds more than the reserved bucket of its venue.
LEMMA HeldBound ==
  ASSUME LedgerInv, NEW id \in ReservationId, reservation[id].status # "ABSENT"
  PROVE  /\ reservation[id].venue \in Venue
         /\ reservation[id].remaining \in Nat
         /\ reservation[id].remaining
              <= capital[reservation[id].venue]["reserved"]
<1> DEFINE v == reservation[id].venue
<1>1. v \in Venue /\ reservation[id].remaining \in Nat
  BY DEF LedgerInv, LedgerTypeOK, Reservation, ReservationAccounts
<1>2. Held(v) \in [ReservationId -> Nat]
  BY <1>1, HeldType DEF LedgerInv
<1>3. Held(v)[id] <= capital[v]["reserved"]
  BY <1>1, <1>2, ReservationIdsAreFinite, SummandIsAtMostSum DEF LedgerInv, ReservedIsBacked
<1>4. Held(v)[id] = reservation[id].remaining
  BY DEF Held, HeldAt
<1>5. QED BY <1>1, <1>3, <1>4

\* When one reservation of venue v changes what it holds by d, and the reserved
\* bucket of v changes by d, the buckets are still what the reservations hold.
LEMMA ReservedFollows ==
  ASSUME LedgerInv, LedgerTypeOK', ReservationAccounts',
         NEW id \in ReservationId, NEW v \in Venue, NEW d \in Int,
         \A i \in ReservationId : i # id => reservation'[i] = reservation[i],
         reservation[id].venue \in {v, NoVenue},
         reservation[id].venue = NoVenue => reservation[id].remaining = 0,
         reservation'[id].venue = v,
         reservation'[id].remaining = reservation[id].remaining + d,
         capital'[v]["reserved"] = capital[v]["reserved"] + d,
         \A w \in Venue : w # v => capital'[w]["reserved"] = capital[w]["reserved"]
  PROVE  ReservedIsBacked'
<1> SUFFICES ASSUME NEW w \in Venue
             PROVE  capital'[w]["reserved"] = SumFunctionOnSet(Held(w)', ReservationId)
  BY DEF ReservedIsBacked
<1>1. Held(w) \in [ReservationId -> Nat]
  BY HeldType DEF LedgerInv
<1>2. Held(w)' \in [ReservationId -> Nat]
  <2>1. \A i \in ReservationId : reservation'[i].remaining \in Nat
    BY DEF LedgerTypeOK, Reservation, ReservationAccounts
  <2>2. QED BY <2>1 DEF Held, HeldAt
<1>3. capital[w]["reserved"] = SumFunctionOnSet(Held(w), ReservationId)
  BY DEF LedgerInv, ReservedIsBacked
<1>4. \A i \in ReservationId : i # id => Held(w)'[i] = Held(w)[i]
  BY DEF Held, HeldAt
<1>5. NoVenue # w
  BY LedgerAssumption
<1>6. CASE w = v
  <2>1. Held(v)'[id] = Held(v)[id] + d
    BY <1>5, <1>6 DEF Held, HeldAt, LedgerInv, LedgerTypeOK, Reservation
  <2>2. SumFunctionOnSet(Held(v)', ReservationId)
          = SumFunctionOnSet(Held(v), ReservationId) + d
    <3> DEFINE f == Held(v)
               g == Held(v)'
    <3>1. \A i \in ReservationId : f[i] \in Int
      BY <1>1, <1>6
    <3>2. g[id] = f[id] + d /\ \A i \in ReservationId \ {id} : g[i] = f[i]
      BY <1>4, <1>6, <2>1
    <3> HIDE DEF f, g
    <3>3. SumFunctionOnSet(g, ReservationId) = SumFunctionOnSet(f, ReservationId) + d
      BY <3>1, <3>2, ReservationIdsAreFinite, SumOfChange
    <3> QED BY <3>3 DEF f, g
  <2>3. QED BY <1>3, <1>6, <2>2
<1>7. CASE w # v
  <2>1. Held(w)'[id] = Held(w)[id]
    BY <1>5, <1>7 DEF Held, HeldAt
  <2>2. \A i \in ReservationId : Held(w)'[i] = Held(w)[i]
    BY <1>4, <2>1
  <2>3. Held(w)' = Held(w)
    BY <2>2 DEF Held
  <2>4. QED BY <1>3, <1>7, <2>3
<1>8. QED BY <1>6, <1>7

\* A step that leaves the reservations and the reserved buckets alone.
LEMMA ReservedUntouched ==
  ASSUME LedgerInv, UNCHANGED reservation,
         \A w \in Venue : capital'[w]["reserved"] = capital[w]["reserved"]
  PROVE  ReservedIsBacked'
<1> SUFFICES ASSUME NEW w \in Venue
             PROVE  capital'[w]["reserved"] = SumFunctionOnSet(Held(w)', ReservationId)
  BY DEF ReservedIsBacked
<1>1. Held(w)' = Held(w)
  BY DEF Held, HeldAt
<1>2. QED BY <1>1 DEF LedgerInv, ReservedIsBacked

LEMMA InitEstablishes == LedgerInit => LedgerInv
<1> SUFFICES ASSUME LedgerInit PROVE LedgerInv
  OBVIOUS
<1> USE LedgerAssumption
<1>1. LedgerTypeOK
  BY DEF LedgerInit, LedgerTypeOK, Bucket, Reservation, NoReservation,
         ReservationStatus
<1>2. \A v \in Venue :
        /\ capital[v]["available"] = InitialCapital[v]
        /\ capital[v]["reserved"] = 0 /\ capital[v]["deployed"] = 0
        /\ capital[v]["unresolved"] = 0 /\ capital[v]["receivable"] = 0
  BY DEF LedgerInit, Bucket
<1>3. Conservation /\ NonNegativeBuckets
  BY <1>2 DEF LedgerInit, Conservation, Owned, NonNegativeBuckets, Bucket
<1>4. ReservationAccounts
  BY DEF LedgerInit, ReservationAccounts, NoReservation
<1>5. ReservedIsBacked
  <2> SUFFICES ASSUME NEW v \in Venue
               PROVE  capital[v]["reserved"] = SumFunctionOnSet(Held(v), ReservationId)
    BY DEF ReservedIsBacked
  <2>1. \A id \in ReservationId : Held(v)[id] = 0
    BY DEF Held, HeldAt, LedgerInit, NoReservation
  <2>2. Held(v) \in [ReservationId -> Nat]
    BY <1>1, <1>4, HeldType
  <2>3. QED BY <1>2, <2>1, ReservationIdsAreFinite, SumOfZeros
<1>6. QED BY <1>1, <1>3, <1>4, <1>5 DEF LedgerInv

\* One lemma serves the operations that move capital between two buckets.
LEMMA TransferKeeps ==
  ASSUME LedgerInv, NEW v \in Venue, NEW from \in Bucket, NEW to \in Bucket,
         from # to, NEW n \in Nat, n <= capital[v][from],
         capital' = Transfer(capital, v, from, to, n), UNCHANGED realizedPnl
  PROVE  /\ capital' \in [Venue -> [Bucket -> Int]]
         /\ capital'[v][from] = capital[v][from] - n
         /\ capital'[v][to] = capital[v][to] + n
         /\ \A b \in Bucket : b # from /\ b # to => capital'[v][b] = capital[v][b]
         /\ \A w \in Venue : w # v => capital'[w] = capital[w]
         /\ Conservation' /\ NonNegativeBuckets'
<1>1. capital \in [Venue -> [Bucket -> Int]] /\ Conservation /\ NonNegativeBuckets
  BY DEF LedgerInv, LedgerTypeOK
<1>2. /\ capital' \in [Venue -> [Bucket -> Int]]
      /\ capital'[v][from] = capital[v][from] - n
      /\ capital'[v][to] = capital[v][to] + n
      /\ \A b \in Bucket : b # from /\ b # to => capital'[v][b] = capital[v][b]
      /\ \A w \in Venue : w # v => capital'[w] = capital[w]
  BY <1>1, TransferFacts
<1>3. \A b \in Bucket : capital[v][b] \in Int
  BY <1>1
<1>4. Owned(v)' = Owned(v)
  <2>1. \A b \in Bucket :
          capital'[v][b] = capital[v][b] - (IF b = from THEN n ELSE 0)
                                         + (IF b = to THEN n ELSE 0)
    BY <1>2, <1>3
  <2>2. QED BY <1>3, <2>1 DEF Owned, Bucket
<1>5. \A w \in Venue : Owned(w)' = Owned(w)
  BY <1>2, <1>4 DEF Owned
<1>6. Conservation'
  BY <1>1, <1>5 DEF Conservation
<1>7. \A b \in Bucket : capital'[v][b] >= 0
  BY <1>1, <1>2, <1>3 DEF NonNegativeBuckets
<1>8. NonNegativeBuckets'
  BY <1>1, <1>2, <1>7 DEF NonNegativeBuckets
<1>9. QED BY <1>2, <1>6, <1>8

\* Consuming and releasing keep a reservation's type.
LEMMA ReservationUpdates ==
  ASSUME NEW r \in Reservation, NEW n \in Int
  PROVE  /\ ConsumeReservation(r, n) \in Reservation
         /\ ReleaseReservation(r) \in Reservation
<1>1. \A s \in ReservationStatus, x, y \in Int :
        [r EXCEPT !.remaining = x, !.consumed = y, !.status = s] \in Reservation
  BY DEF Reservation
<1>2. \A s \in ReservationStatus, x \in Int :
        [r EXCEPT !.remaining = x, !.status = s] \in Reservation
  BY DEF Reservation
<1>3. /\ r.remaining - n \in Int /\ r.consumed + n \in Int
      /\ (IF r.remaining = n THEN "CONSUMED" ELSE "OPEN") \in ReservationStatus
      /\ (IF r.consumed = r.initial THEN "CONSUMED" ELSE "RELEASED")
           \in ReservationStatus
      /\ 0 \in Int
  BY DEF Reservation, ReservationStatus
<1>4. ConsumeReservation(r, n) \in Reservation
  BY <1>1, <1>3 DEF ConsumeReservation
<1>5. ReleaseReservation(r) \in Reservation
  BY <1>2, <1>3 DEF ReleaseReservation
<1>6. QED BY <1>4, <1>5

LEMMA ReserveKeeps ==
  ASSUME LedgerInv, NEW id \in ReservationId, NEW v \in Venue,
         NEW n \in Amount, Reserve(id, v, n)
  PROVE  LedgerInv'
<1> USE LedgerAssumption
<1>1. n \in Nat /\ n > 0 /\ "available" \in Bucket /\ "reserved" \in Bucket
  BY DEF Reserve, Bucket
<1>2. /\ capital' \in [Venue -> [Bucket -> Int]]
      /\ capital'[v]["reserved"] = capital[v]["reserved"] + n
      /\ \A w \in Venue : w # v => capital'[w] = capital[w]
      /\ Conservation' /\ NonNegativeBuckets'
  <2>1. n <= capital[v]["available"] /\ UNCHANGED realizedPnl
    BY DEF Reserve
  <2>2. capital' = Transfer(capital, v, "available", "reserved", n)
    BY DEF Reserve
  <2>3. QED BY <1>1, <2>1, <2>2, TransferKeeps
<1>3. /\ reservation \in [ReservationId -> Reservation]
      /\ capital \in [Venue -> [Bucket -> Int]]
      /\ reservation' = [reservation EXCEPT ![id] = OpenReservation(v, n)]
      /\ UNCHANGED realizedPnl
      /\ reservation[id].status = "ABSENT"
  BY DEF Reserve, LedgerInv, LedgerTypeOK
<1>4. OpenReservation(v, n) \in Reservation
  BY <1>1 DEF OpenReservation, Reservation, ReservationStatus
<1>5. LedgerTypeOK'
  BY <1>2, <1>3, <1>4 DEF LedgerTypeOK, LedgerInv
<1>6. /\ reservation'[id] = OpenReservation(v, n)
      /\ \A i \in ReservationId : i # id => reservation'[i] = reservation[i]
  BY <1>3
<1>7. ReservationAccounts'
  BY <1>1, <1>6 DEF ReservationAccounts, LedgerInv, OpenReservation
<1>8. reservation[id].venue \in {v, NoVenue} /\ reservation[id].remaining = 0
  BY <1>3 DEF LedgerInv, ReservationAccounts, NoReservation
<1>11. reservation'[id].venue = v /\ reservation'[id].remaining = n
  BY <1>6 DEF OpenReservation
<1>12. ReservedIsBacked'
  BY <1>1, <1>2, <1>5, <1>6, <1>7, <1>8, <1>11, ReservedFollows
<1>13. QED BY <1>2, <1>5, <1>7, <1>12 DEF LedgerInv

LEMMA ConsumeKeeps ==
  ASSUME LedgerInv, NEW id \in ReservationId, NEW n \in Amount, Consume(id, n)
  PROVE  LedgerInv'
<1> DEFINE r == reservation[id]
           v == r.venue
<1> USE LedgerAssumption
<1>1. /\ n \in Nat /\ n > 0 /\ r.status = "OPEN" /\ n <= r.remaining
      /\ "reserved" \in Bucket /\ "deployed" \in Bucket
  BY DEF Consume, CanConsume, Bucket
<1>2. v \in Venue /\ r.remaining \in Nat /\ n <= capital[v]["reserved"]
  <2>1. v \in Venue /\ r.remaining \in Nat /\ r.remaining <= capital[v]["reserved"]
    BY <1>1, HeldBound
  <2>2. capital[v]["reserved"] \in Int
    BY <1>1, <2>1 DEF LedgerInv, LedgerTypeOK
  <2>3. QED BY <1>1, <2>1, <2>2
<1>3. /\ reservation \in [ReservationId -> Reservation]
      /\ capital \in [Venue -> [Bucket -> Int]]
      /\ reservation' = [reservation EXCEPT ![id] = ConsumeReservation(r, n)]
      /\ capital' = Transfer(capital, v, "reserved", "deployed", n)
      /\ UNCHANGED realizedPnl
  BY DEF Consume, LedgerInv, LedgerTypeOK
<1>4. /\ capital' \in [Venue -> [Bucket -> Int]]
      /\ capital'[v]["reserved"] = capital[v]["reserved"] - n
      /\ \A w \in Venue : w # v => capital'[w] = capital[w]
      /\ Conservation' /\ NonNegativeBuckets'
  BY <1>1, <1>2, <1>3, TransferKeeps
<1>5. /\ r \in Reservation /\ r.consumed \in Nat /\ r.initial \in Nat
      /\ r.consumed + r.remaining = r.initial
  BY <1>1, <1>3 DEF LedgerInv, ReservationAccounts, Reservation
<1>6. ConsumeReservation(r, n) \in Reservation
  <2>1. n \in Int BY <1>1
  <2>2. QED BY <1>5, <2>1, ReservationUpdates
<1>7. LedgerTypeOK'
  BY <1>3, <1>4, <1>6 DEF LedgerTypeOK, LedgerInv
<1>8. /\ reservation'[id] = ConsumeReservation(r, n)
      /\ \A i \in ReservationId : i # id => reservation'[i] = reservation[i]
  BY <1>3
<1>9. /\ reservation'[id].venue = v /\ reservation'[id].initial = r.initial
      /\ reservation'[id].remaining = r.remaining - n
      /\ reservation'[id].consumed = r.consumed + n
      /\ reservation'[id].status = IF r.remaining = n THEN "CONSUMED" ELSE "OPEN"
  BY <1>5, <1>8 DEF ConsumeReservation, Reservation
<1>10. r.initial > 0
  BY <1>1 DEF LedgerInv, ReservationAccounts
<1>11. ReservationAccounts'
  BY <1>1, <1>2, <1>5, <1>8, <1>9, <1>10 DEF ReservationAccounts, LedgerInv
<1>12. /\ capital'[v]["reserved"] = capital[v]["reserved"] + (-n)
       /\ \A w \in Venue : w # v => capital'[w]["reserved"] = capital[w]["reserved"]
  <2>1. capital[v]["reserved"] \in Int
    BY <1>1, <1>2, <1>3
  <2>2. QED BY <1>2, <1>1, <1>4, <2>1
<1>13. r.remaining - n = r.remaining + (-n) /\ -n \in Int /\ v # NoVenue
  BY <1>1, <1>2
<1>14. ReservedIsBacked'
  BY <1>2, <1>7, <1>8, <1>9, <1>11, <1>12, <1>13, ReservedFollows
<1>15. QED BY <1>4, <1>7, <1>11, <1>14 DEF LedgerInv

LEMMA ReleaseKeeps ==
  ASSUME LedgerInv, NEW id \in ReservationId, Release(id)
  PROVE  LedgerInv'
<1> DEFINE r == reservation[id]
           v == r.venue
           n == r.remaining
<1> USE LedgerAssumption
<1>1. /\ r.status \in {"OPEN", "CONSUMED"} /\ r.status # "ABSENT"
      /\ "reserved" \in Bucket /\ "available" \in Bucket
  BY DEF Release, Bucket
<1>2. v \in Venue /\ n \in Nat /\ n <= capital[v]["reserved"]
  BY <1>1, HeldBound
<1>3. /\ reservation \in [ReservationId -> Reservation]
      /\ capital \in [Venue -> [Bucket -> Int]]
      /\ reservation' = [reservation EXCEPT ![id] = ReleaseReservation(r)]
      /\ capital' = Transfer(capital, v, "reserved", "available", n)
      /\ UNCHANGED realizedPnl
  BY DEF Release, LedgerInv, LedgerTypeOK
<1>4. /\ capital' \in [Venue -> [Bucket -> Int]]
      /\ capital'[v]["reserved"] = capital[v]["reserved"] - n
      /\ \A w \in Venue : w # v => capital'[w] = capital[w]
      /\ Conservation' /\ NonNegativeBuckets'
  BY <1>1, <1>2, <1>3, TransferKeeps
<1>5. /\ r \in Reservation /\ r.consumed \in Nat /\ r.initial \in Nat
      /\ r.consumed <= r.initial /\ r.initial > 0
  BY <1>1, <1>2, <1>3 DEF LedgerInv, ReservationAccounts, Reservation
<1>6. ReleaseReservation(r) \in Reservation
  BY <1>5, ReservationUpdates
<1>7. LedgerTypeOK'
  BY <1>3, <1>4, <1>6 DEF LedgerTypeOK, LedgerInv
<1>8. /\ reservation'[id] = ReleaseReservation(r)
      /\ \A i \in ReservationId : i # id => reservation'[i] = reservation[i]
  BY <1>3
<1>9. /\ reservation'[id].venue = v /\ reservation'[id].initial = r.initial
      /\ reservation'[id].remaining = 0
      /\ reservation'[id].consumed = r.consumed
      /\ reservation'[id].status = IF r.consumed = r.initial THEN "CONSUMED"
                                                            ELSE "RELEASED"
  BY <1>5, <1>8 DEF ReleaseReservation, Reservation
<1>10. ReservationAccounts'
  BY <1>2, <1>5, <1>8, <1>9 DEF ReservationAccounts, LedgerInv
<1>11. /\ capital'[v]["reserved"] = capital[v]["reserved"] + (-n)
       /\ \A w \in Venue : w # v => capital'[w]["reserved"] = capital[w]["reserved"]
  <2>1. capital[v]["reserved"] \in Int
    BY <1>1, <1>2, <1>3
  <2>2. QED BY <1>2, <1>1, <1>4, <2>1
<1>12. 0 = n + (-n) /\ -n \in Int /\ v # NoVenue
  BY <1>2
<1>13. ReservedIsBacked'
  BY <1>2, <1>7, <1>8, <1>9, <1>10, <1>11, <1>12, ReservedFollows
<1>14. QED BY <1>4, <1>7, <1>10, <1>13 DEF LedgerInv

\* The two operations that move capital between buckets other than reserved.
LEMMA MoveKeeps ==
  ASSUME LedgerInv, NEW v \in Venue, NEW from \in Bucket \ {"reserved"},
         NEW to \in Bucket \ {"reserved"}, from # to, NEW n \in Amount,
         capital[v][from] >= n, capital' = Transfer(capital, v, from, to, n),
         UNCHANGED <<realizedPnl, reservation>>
  PROVE  LedgerInv'
<1>1. n \in Nat /\ capital[v][from] \in Int /\ "reserved" \in Bucket
      /\ capital \in [Venue -> [Bucket -> Int]]
  BY LedgerAssumption DEF LedgerInv, LedgerTypeOK, Bucket
<1>2. /\ capital' \in [Venue -> [Bucket -> Int]]
      /\ \A b \in Bucket : b # from /\ b # to => capital'[v][b] = capital[v][b]
      /\ \A w \in Venue : w # v => capital'[w] = capital[w]
      /\ Conservation' /\ NonNegativeBuckets'
  BY <1>1, TransferKeeps
<1>3. \A w \in Venue : capital'[w]["reserved"] = capital[w]["reserved"]
  BY <1>1, <1>2
<1>4. LedgerTypeOK' /\ ReservationAccounts'
  BY <1>2 DEF LedgerInv, LedgerTypeOK, ReservationAccounts
<1>5. QED BY <1>2, <1>3, <1>4, ReservedUntouched DEF LedgerInv

LEMMA SettlementKeeps ==
  ASSUME LedgerInv, NEW v \in Venue, NEW c \in Amount, NEW r \in Amount,
         RecognizeSettlement(v, c, r)
  PROVE  LedgerInv'
<1> USE LedgerAssumption
<1>1. /\ c \in Nat /\ r \in Nat /\ capital[v]["unresolved"] >= c
      /\ capital \in [Venue -> [Bucket -> Int]] /\ realizedPnl \in [Venue -> Int]
      /\ \A b \in Bucket : capital[v][b] \in Nat
      /\ UNCHANGED reservation
  BY DEF RecognizeSettlement, LedgerInv, LedgerTypeOK, NonNegativeBuckets
<1>2. /\ capital' \in [Venue -> [Bucket -> Int]]
      /\ capital'[v]["unresolved"] = capital[v]["unresolved"] - c
      /\ capital'[v]["receivable"] = capital[v]["receivable"] + r
      /\ \A b \in {"available", "reserved", "deployed"} :
           capital'[v][b] = capital[v][b]
      /\ \A w \in Venue : w # v => capital'[w] = capital[w]
  BY <1>1 DEF RecognizeSettlement, Bucket
<1>3. /\ realizedPnl' \in [Venue -> Int]
      /\ realizedPnl'[v] = realizedPnl[v] + r - c
      /\ \A w \in Venue : w # v => realizedPnl'[w] = realizedPnl[w]
  BY <1>1 DEF RecognizeSettlement
<1>4. Owned(v)' = Owned(v) + r - c
  BY <1>1, <1>2 DEF Owned, Bucket
<1>5. Conservation'
  <2> SUFFICES ASSUME NEW w \in Venue
               PROVE  Owned(w)' = InitialCapital[w] + realizedPnl'[w]
    BY DEF Conservation
  <2>1. Owned(w) = InitialCapital[w] + realizedPnl[w] /\ realizedPnl[w] \in Int
        /\ InitialCapital[w] \in Int
    BY <1>1 DEF LedgerInv, Conservation
  <2>2. CASE w = v BY <1>1, <1>3, <1>4, <2>1, <2>2
  <2>3. CASE w # v BY <1>2, <1>3, <2>1, <2>3 DEF Owned
  <2>4. QED BY <2>2, <2>3
<1>6. NonNegativeBuckets'
  BY <1>1, <1>2 DEF NonNegativeBuckets, LedgerInv, Bucket
<1>7. LedgerTypeOK' /\ ReservationAccounts'
  BY <1>1, <1>2, <1>3 DEF LedgerInv, LedgerTypeOK, ReservationAccounts
<1>8. \A w \in Venue : capital'[w]["reserved"] = capital[w]["reserved"]
  BY <1>2
<1>9. QED BY <1>1, <1>5, <1>6, <1>7, <1>8, ReservedUntouched DEF LedgerInv

LEMMA NextKeeps == LedgerInv /\ [LedgerNext]_ledgerVars => LedgerInv'
<1> SUFFICES ASSUME LedgerInv, [LedgerNext]_ledgerVars PROVE LedgerInv'
  OBVIOUS
<1>1. ASSUME NEW id \in ReservationId, NEW v \in Venue, NEW n \in Amount,
             Reserve(id, v, n)
      PROVE  LedgerInv'
  BY <1>1, ReserveKeeps
<1>2. ASSUME NEW id \in ReservationId, NEW n \in Amount, Consume(id, n)
      PROVE  LedgerInv'
  BY <1>2, ConsumeKeeps
<1>3. ASSUME NEW id \in ReservationId, Release(id)
      PROVE  LedgerInv'
  BY <1>3, ReleaseKeeps
<1>4. ASSUME NEW v \in Venue, NEW n \in Amount, MarkUnresolved(v, n)
      PROVE  LedgerInv'
  BY <1>4, MoveKeeps DEF MarkUnresolved, Bucket
<1>5. ASSUME NEW v \in Venue, NEW c \in Amount, NEW r \in Amount,
             RecognizeSettlement(v, c, r)
      PROVE  LedgerInv'
  BY <1>5, SettlementKeeps
<1>6. ASSUME NEW v \in Venue, NEW n \in Amount, RecoverReceivable(v, n)
      PROVE  LedgerInv'
  BY <1>6, MoveKeeps DEF RecoverReceivable, Bucket
<1>7. CASE UNCHANGED ledgerVars
  <2>1. UNCHANGED capital /\ UNCHANGED realizedPnl /\ UNCHANGED reservation
    BY <1>7 DEF ledgerVars
  <2>2. ReservedIsBacked'
    BY <2>1, ReservedUntouched
  <2>3. QED BY <2>1, <2>2 DEF LedgerInv, LedgerTypeOK, Conservation, Owned,
                              NonNegativeBuckets, ReservationAccounts
<1>8. QED BY <1>1, <1>2, <1>3, <1>4, <1>5, <1>6, <1>7 DEF LedgerNext

\* The inductive invariant, and with it every safety invariant of the ledger.
THEOREM LedgerInvariant == LedgerSpec => []LedgerInv
BY InitEstablishes, NextKeeps, PTL DEF LedgerSpec

\* What every mutation asserts (assertConservation) never throws: buckets add
\* up to initial capital plus realized PnL.
THEOREM CapitalIsConserved == LedgerSpec => []Conservation
<1>1. LedgerInv => Conservation BY DEF LedgerInv
<1>2. QED BY <1>1, LedgerInvariant, PTL

\* No bucket becomes negative, for any number of reservations per venue.
THEOREM BucketsStayNonNegative == LedgerSpec => []NonNegativeBuckets
<1>1. LedgerInv => NonNegativeBuckets BY DEF LedgerInv
<1>2. QED BY <1>1, LedgerInvariant, PTL

\* The reserved bucket is what the open reservations hold (ReservedIsBacked): no
\* capital is stuck in it and none is promised twice.
THEOREM ReservedCapitalIsBacked == LedgerSpec => []ReservedIsBacked
<1>1. LedgerInv => ReservedIsBacked BY DEF LedgerInv
<1>2. QED BY <1>1, LedgerInvariant, PTL

\* Status and amounts of every reservation agree.
THEOREM ReservationsAddUp == LedgerSpec => []ReservationAccounts
<1>1. LedgerInv => ReservationAccounts BY DEF LedgerInv
<1>2. QED BY <1>1, LedgerInvariant, PTL

\* Releasing a reservation that was fully consumed changes nothing.
LEMMA ReleaseConsumed ==
  ASSUME NEW r \in Reservation, r.status = "CONSUMED", r.remaining = 0,
         r.consumed = r.initial
  PROVE  ReleaseReservation(r) = r
<1>1. r = [venue |-> r.venue, initial |-> r.initial, remaining |-> 0,
           consumed |-> r.consumed, status |-> "CONSUMED"]
  BY DEF Reservation
<1>2. ReleaseReservation(r) = [r EXCEPT !.remaining = 0, !.status = "CONSUMED"]
  BY DEF ReleaseReservation
<1>3. [r EXCEPT !.remaining = 0, !.status = "CONSUMED"]
        = [venue |-> r.venue, initial |-> r.initial, remaining |-> 0,
           consumed |-> r.consumed, status |-> "CONSUMED"]
  BY DEF Reservation
<1>4. QED BY <1>1, <1>2, <1>3

\* A consumed or released reservation is never reopened, consumed or returned.
THEOREM ReservationsCloseOnce == LedgerSpec => ClosedReservationIsFinal
<1> DEFINE Closed == \A id \in ReservationId :
       reservation[id].status \in {"CONSUMED", "RELEASED"}
         => reservation'[id] = reservation[id]
<1>1. LedgerInv /\ [LedgerNext]_ledgerVars => [Closed]_ledgerVars
  <2> SUFFICES ASSUME LedgerInv, [LedgerNext]_ledgerVars,
                      NEW k \in ReservationId,
                      reservation[k].status \in {"CONSUMED", "RELEASED"}
               PROVE  reservation'[k] = reservation[k]
    OBVIOUS
  <2>1. /\ reservation \in [ReservationId -> Reservation]
        /\ reservation[k] \in Reservation
        /\ reservation[k].status = "CONSUMED" =>
             reservation[k].remaining = 0
             /\ reservation[k].consumed = reservation[k].initial
    BY DEF LedgerInv, LedgerTypeOK, ReservationAccounts
  <2>2. ASSUME NEW id \in ReservationId, NEW v \in Venue, NEW n \in Amount,
               Reserve(id, v, n)
        PROVE  reservation'[k] = reservation[k]
    BY <2>1, <2>2 DEF Reserve
  <2>3. ASSUME NEW id \in ReservationId, NEW n \in Amount, Consume(id, n)
        PROVE  reservation'[k] = reservation[k]
    BY <2>1, <2>3 DEF Consume, CanConsume
  <2>4. ASSUME NEW id \in ReservationId, Release(id)
        PROVE  reservation'[k] = reservation[k]
    <3>1. CASE id = k
      <4>1. reservation[k].status = "CONSUMED"
        BY <2>4, <3>1 DEF Release
      <4>2. ReleaseReservation(reservation[k]) = reservation[k]
        BY <2>1, <4>1, ReleaseConsumed
      <4>3. QED BY <2>1, <2>4, <3>1, <4>2 DEF Release
    <3>2. CASE id # k BY <2>1, <2>4, <3>2 DEF Release
    <3>3. QED BY <3>1, <3>2
  <2>5. CASE UNCHANGED reservation
    BY <2>5
  <2>6. QED BY <2>2, <2>3, <2>4, <2>5 DEF LedgerNext, ledgerVars,
               MarkUnresolved, RecognizeSettlement, RecoverReceivable
<1>2. QED BY <1>1, LedgerInvariant, PTL DEF LedgerSpec, ClosedReservationIsFinal

-----------------------------------------------------------------------------
(* Refinement *)

\* A call that moves capital of venue v alone is a silo step if it is one of v.
LEMMA OneVenueMoves ==
  ASSUME NEW v \in Venue, Silo!VenueStep(v),
         \A w \in Venue : w # v => capital'[w] = capital[w]
  PROVE  Silo!Next
<1> SUFFICES ASSUME NEW w \in Venue, w # v PROVE Silo!VenueStep(w)
  BY DEF Silo!Next
<1>1. Silo!Keep(w)
  BY DEF Silo!Keep
<1>2. QED BY <1>1 DEF Silo!VenueStep

\* Every ledger behaviour is a behaviour of SiloedCapital.
THEOREM LedgerKeepsSilos == LedgerSpec => KeepsSilos
<1>1. LedgerInit => Silo!Init
  BY LedgerAssumption DEF LedgerInit, Silo!Init, Bucket
<1>2. LedgerInv /\ LedgerInv' /\ [LedgerNext]_ledgerVars => [Silo!Next]_(Silo!siloVars)
  <2> SUFFICES ASSUME LedgerInv, LedgerInv', [LedgerNext]_ledgerVars
               PROVE  [Silo!Next]_(Silo!siloVars)
    OBVIOUS
  <2>1. capital \in [Venue -> [Bucket -> Int]] /\ NonNegativeBuckets
    BY DEF LedgerInv, LedgerTypeOK
  <2>2. \A v \in Venue, b \in Bucket :
          /\ capital[v][b] \in Int /\ capital[v][b] >= 0
          /\ capital'[v][b] \in Int /\ capital'[v][b] >= 0
    BY DEF LedgerInv, LedgerTypeOK, NonNegativeBuckets
  <2>3. ASSUME NEW v \in Venue, NEW from \in Bucket, NEW to \in Bucket,
               from # to, NEW n \in Nat,
               capital' = Transfer(capital, v, from, to, n)
        PROVE  /\ \A b \in Bucket :
                    capital'[v][b] = capital[v][b] - (IF b = from THEN n ELSE 0)
                                                   + (IF b = to THEN n ELSE 0)
               /\ \A w \in Venue : w # v => capital'[w] = capital[w]
    <3>1. \A b \in Bucket : capital[v][b] \in Int BY <2>2
    <3>2. n \in Int OBVIOUS
    <3>3. /\ capital'[v][from] = capital[v][from] - n
          /\ capital'[v][to] = capital[v][to] + n
          /\ \A b \in Bucket : b # from /\ b # to => capital'[v][b] = capital[v][b]
          /\ \A w \in Venue : w # v => capital'[w] = capital[w]
      BY <2>1, <2>3, <3>2, TransferFacts
    <3>4. ASSUME NEW b \in Bucket
          PROVE  capital'[v][b] = capital[v][b] - (IF b = from THEN n ELSE 0)
                                                + (IF b = to THEN n ELSE 0)
      <4>1. CASE b = from BY <2>3, <3>1, <3>2, <3>3, <4>1
      <4>2. CASE b = to BY <2>3, <3>1, <3>2, <3>3, <4>2
      <4>3. CASE b # from /\ b # to BY <3>1, <3>3, <4>3
      <4>4. QED BY <4>1, <4>2, <4>3
    <3>5. QED BY <3>3, <3>4
  <2>4. ASSUME NEW id \in ReservationId, NEW v \in Venue, NEW n \in Amount,
               Reserve(id, v, n)
        PROVE  Silo!Next
    <3>1. n \in Nat /\ n > 0 /\ "available" \in Bucket /\ "reserved" \in Bucket
          /\ capital' = Transfer(capital, v, "available", "reserved", n)
      BY <2>4, LedgerAssumption DEF Reserve, Bucket
    <3>2. Silo!Hold(v)
      BY <2>2, <2>3, <3>1 DEF Silo!Hold, Bucket
    <3>3. QED BY <2>3, <3>1, <3>2, OneVenueMoves DEF Silo!VenueStep
  <2>5. ASSUME NEW id \in ReservationId, NEW n \in Amount, Consume(id, n)
        PROVE  Silo!Next
    <3>1. n \in Nat /\ n > 0 /\ "deployed" \in Bucket /\ "reserved" \in Bucket
          /\ reservation[id].status # "ABSENT"
      BY <2>5, LedgerAssumption DEF Consume, CanConsume, Bucket
    <3>2. PICK v \in Venue : v = reservation[id].venue BY <3>1, HeldBound
    <3>3. capital' = Transfer(capital, v, "reserved", "deployed", n)
      BY <2>5, <3>2 DEF Consume
    <3>4. Silo!Unhold(v)
      BY <2>2, <2>3, <3>1, <3>3 DEF Silo!Unhold, Bucket
    <3>5. QED BY <2>3, <3>1, <3>3, <3>4, OneVenueMoves DEF Silo!VenueStep
  <2>6. ASSUME NEW id \in ReservationId, Release(id)
        PROVE  Silo!Next
    <3>1. "available" \in Bucket /\ "reserved" \in Bucket
          /\ reservation[id].status # "ABSENT"
      BY <2>6 DEF Release, Bucket
    <3>2. PICK v \in Venue, n \in Nat :
            v = reservation[id].venue /\ n = reservation[id].remaining
      BY <3>1, HeldBound
    <3>3. capital' = Transfer(capital, v, "reserved", "available", n)
      BY <2>6, <3>2 DEF Release
    <3>4. Silo!Unhold(v) \/ Silo!Keep(v)
      BY <2>2, <2>3, <3>1, <3>3 DEF Silo!Unhold, Silo!Keep, Bucket
    <3>5. QED BY <2>3, <3>1, <3>3, <3>4, OneVenueMoves DEF Silo!VenueStep
  <2>7. ASSUME NEW v \in Venue, NEW n \in Amount, MarkUnresolved(v, n)
        PROVE  Silo!Next
    <3>1. n \in Nat /\ "deployed" \in Bucket /\ "unresolved" \in Bucket
          /\ capital' = Transfer(capital, v, "deployed", "unresolved", n)
      BY <2>7, LedgerAssumption DEF MarkUnresolved, Bucket
    <3>2. Silo!Keep(v)
      BY <2>2, <2>3, <3>1 DEF Silo!Keep, Bucket
    <3>3. QED BY <2>3, <3>1, <3>2, OneVenueMoves DEF Silo!VenueStep
  <2>8. ASSUME NEW v \in Venue, NEW c \in Amount, NEW r \in Amount,
               RecognizeSettlement(v, c, r)
        PROVE  Silo!Next
    <3>1. c \in Nat /\ r \in Nat /\ c > 0 /\ capital[v]["unresolved"] >= c
      BY <2>8, LedgerAssumption DEF RecognizeSettlement
    <3>2. /\ capital'[v]["unresolved"] = capital[v]["unresolved"] - c
          /\ capital'[v]["receivable"] = capital[v]["receivable"] + r
          /\ \A b \in {"available", "reserved", "deployed"} :
               capital'[v][b] = capital[v][b]
          /\ \A w \in Venue : w # v => capital'[w] = capital[w]
      BY <2>1, <2>8 DEF RecognizeSettlement, Bucket
    <3>3. Silo!Settle(v)
      BY <2>2, <3>1, <3>2 DEF Silo!Settle, Bucket
    <3>4. QED BY <3>2, <3>3, OneVenueMoves DEF Silo!VenueStep
  <2>9. ASSUME NEW v \in Venue, NEW n \in Amount, RecoverReceivable(v, n)
        PROVE  Silo!Next
    <3>1. n \in Nat /\ n > 0 /\ "available" \in Bucket /\ "receivable" \in Bucket
          /\ capital' = Transfer(capital, v, "receivable", "available", n)
      BY <2>9, LedgerAssumption DEF RecoverReceivable, Bucket
    <3>2. Silo!Recover(v)
      BY <2>2, <2>3, <3>1 DEF Silo!Recover, Bucket
    <3>3. QED BY <2>3, <3>1, <3>2, OneVenueMoves DEF Silo!VenueStep
  <2>10. CASE UNCHANGED ledgerVars
    BY <2>10 DEF ledgerVars, Silo!siloVars
  <2>11. QED BY <2>4, <2>5, <2>6, <2>7, <2>8, <2>9, <2>10 DEF LedgerNext
<1>3. QED BY <1>1, <1>2, LedgerInvariant, PTL DEF LedgerSpec, KeepsSilos, Silo!Spec

-----------------------------------------------------------------------------

IntentSound(i) ==
  LET r == reservation[i] IN
  /\ filled[i] <= Quantity[i]
  /\ r.remaining >= 0 /\ r.consumed >= 0
  /\ filled[i] > 0 <=> r.consumed > 0
  /\ order[i] = "FILLED" => filled[i] = Quantity[i]
  /\ ~Registered(PlanOf[i]) =>
       /\ order[i] = "INTENT"
       /\ r.status \in {"ABSENT", "RELEASED"} /\ r.consumed = 0 /\ r.remaining = 0
  /\ Registered(PlanOf[i]) /\ order[i] \in Final => r.remaining = 0
  /\ Registered(PlanOf[i]) /\ order[i] \notin Final =>
       r.status \in {"OPEN", "CONSUMED"} /\ r.remaining + r.consumed = MaxDebit[i]

OrdersFilled ==
  \A i \in Intent : planLifecycle[PlanOf[i]] \in {"LOCKED", "SETTLED"} => order[i] = "FILLED"

OrderTypes ==
  /\ reservation \in [Intent -> Reservation]
  /\ planLifecycle \in [Plan -> PlanLifecycle]
  /\ order \in [Intent -> OrderLifecycle]
  /\ filled \in [Intent -> Nat]

OrderInv ==
  /\ OrderTypes
  /\ \A i \in Intent : IntentSound(i)
  /\ OrdersFilled

-----------------------------------------------------------------------------
(* Reservations *)

LEMMA ReservationUpdateTypes ==
  ASSUME NEW r \in Reservation, NEW n \in Int
  PROVE  /\ ConsumeReservation(r, n) \in Reservation
         /\ ReleaseReservation(r) \in Reservation
         /\ ConsumeReservation(r, n).remaining = r.remaining - n
         /\ ConsumeReservation(r, n).consumed = r.consumed + n
         /\ ConsumeReservation(r, n).status \in {"OPEN", "CONSUMED"}
         /\ ConsumeReservation(r, n).venue = r.venue
         /\ ReleaseReservation(r).remaining = 0
         /\ ReleaseReservation(r).consumed = r.consumed
         /\ ReleaseReservation(r).venue = r.venue
<1>1. \A s \in ReservationStatus, x, y \in Int :
        [r EXCEPT !.remaining = x, !.consumed = y, !.status = s] \in Reservation
  BY DEF Reservation
<1>2. \A s \in ReservationStatus, x \in Int :
        [r EXCEPT !.remaining = x, !.status = s] \in Reservation
  BY DEF Reservation
<1>3. /\ r.remaining - n \in Int /\ r.consumed + n \in Int /\ 0 \in Int
      /\ (IF r.remaining = n THEN "CONSUMED" ELSE "OPEN") \in ReservationStatus
      /\ (IF r.consumed = r.initial THEN "CONSUMED" ELSE "RELEASED")
           \in ReservationStatus
  BY DEF Reservation, ReservationStatus
<1>4. ConsumeReservation(r, n) \in Reservation /\ ReleaseReservation(r) \in Reservation
  BY <1>1, <1>2, <1>3 DEF ConsumeReservation, ReleaseReservation
<1> QED BY <1>4 DEF ConsumeReservation, ReleaseReservation, Reservation

\* release(i) leaves nothing held and what was consumed.
LEMMA ReleaseFacts ==
  ASSUME OrderTypes, NEW i \in Intent, ReleaseIntent(i),
         reservation[i].status = "RELEASED" => reservation[i].remaining = 0
  PROVE  /\ reservation' \in [Intent -> Reservation]
         /\ reservation'[i].remaining = 0
         /\ reservation'[i].consumed = reservation[i].consumed
         /\ reservation'[i].venue = reservation[i].venue
         /\ \A j \in Intent : j # i => reservation'[j] = reservation[j]
<1> DEFINE r == reservation[i]
           new == IF r.status = "RELEASED" THEN r ELSE ReleaseReservation(r)
<1>1. r \in Reservation
  BY DEF OrderTypes
<1>2. /\ new \in Reservation /\ new.remaining = 0 /\ new.consumed = r.consumed
      /\ new.venue = r.venue
  BY <1>1, ReservationUpdateTypes
<1>3. reservation' = [reservation EXCEPT ![i] = new]
  BY DEF ReleaseIntent
<1> HIDE DEF new
<1> QED BY <1>2, <1>3 DEF OrderTypes

\* A fill of debit d moves d from what is held to what is consumed, and
\* returns the rest if the order is done.
LEMMA DebitFacts ==
  ASSUME OrderTypes, NEW i \in Intent, NEW d \in Nat, NEW done \in BOOLEAN,
         DebitIntent(i, d, done)
  PROVE  /\ d > 0 /\ reservation[i].status = "OPEN" /\ d <= reservation[i].remaining
         /\ reservation' \in [Intent -> Reservation]
         /\ reservation'[i].consumed = reservation[i].consumed + d
         /\ reservation'[i].remaining =
              IF done THEN 0 ELSE reservation[i].remaining - d
         /\ ~done => reservation'[i].status \in {"OPEN", "CONSUMED"}
         /\ reservation'[i].venue = reservation[i].venue
         /\ \A j \in Intent : j # i => reservation'[j] = reservation[j]
<1> DEFINE r == reservation[i]
           consumed == ConsumeReservation(r, d)
           new == IF done THEN ReleaseReservation(consumed) ELSE consumed
<1>1. r \in Reservation /\ d \in Int
  BY DEF OrderTypes
<1>2. /\ consumed \in Reservation /\ consumed.consumed = r.consumed + d
      /\ consumed.remaining = r.remaining - d /\ consumed.venue = r.venue
      /\ consumed.status \in {"OPEN", "CONSUMED"}
  BY <1>1, ReservationUpdateTypes
<1> HIDE DEF consumed
<1>3. /\ new \in Reservation /\ new.consumed = r.consumed + d
      /\ new.remaining = IF done THEN 0 ELSE r.remaining - d
      /\ new.venue = r.venue
      /\ ~done => new.status \in {"OPEN", "CONSUMED"}
  BY <1>1, <1>2, ReservationUpdateTypes
<1>4. reservation' = [reservation EXCEPT ![i] = new] /\ CanConsume(r, d)
  BY DEF DebitIntent, consumed
<1> HIDE DEF new
<1> QED BY <1>3, <1>4 DEF OrderTypes, CanConsume

-----------------------------------------------------------------------------
(* Steps *)

LEMMA OrderInit == ShadowInit => OrderInv
<1> SUFFICES ASSUME ShadowInit PROVE OrderInv
  OBVIOUS
<1>1. OrderTypes
  BY PlanAssumption
  DEF ShadowInit, LedgerInit, OrderTypes, Reservation, NoReservation, ReservationStatus,
      PlanLifecycle, OrderLifecycle, Intent
<1>2. \A i \in Intent : IntentSound(i)
  BY PlanAssumption
  DEF ShadowInit, LedgerInit, IntentSound, Registered, NoReservation, Final, Intent
<1>3. OrdersFilled
  BY PlanAssumption DEF ShadowInit, OrdersFilled
<1> QED BY <1>1, <1>2, <1>3 DEF OrderInv

\* A step of one order, of a registered plan, that leaves this intent sound.
LEMMA IntentStep ==
  ASSUME OrderInv, NEW i \in Intent, NEW state \in OrderLifecycle,
         NEW plan \in PlanLifecycle \ {"ABSENT", "SETTLED"},
         Registered(PlanOf[i]), order[i] # "FILLED",
         SetOrder(i, state), SetLifecycle(PlanOf[i], plan),
         plan = "LOCKED" => \A j \in IntentsOf(PlanOf[i]) : order'[j] = "FILLED",
         reservation' \in [Intent -> Reservation], filled' \in [Intent -> Nat],
         \A j \in Intent : j # i => reservation'[j] = reservation[j] /\ filled'[j] = filled[j],
         filled'[i] <= Quantity[i],
         reservation'[i].remaining >= 0, reservation'[i].consumed >= 0,
         filled'[i] > 0 <=> reservation'[i].consumed > 0,
         state = "FILLED" => filled'[i] = Quantity[i],
         state \in Final => reservation'[i].remaining = 0,
         state \notin Final =>
           /\ reservation'[i].status \in {"OPEN", "CONSUMED"}
           /\ reservation'[i].remaining + reservation'[i].consumed = MaxDebit[i]
  PROVE  OrderInv'
<1>1. /\ order' = [order EXCEPT ![i] = state] /\ order \in [Intent -> OrderLifecycle]
      /\ planLifecycle' = [planLifecycle EXCEPT ![PlanOf[i]] = plan]
      /\ planLifecycle \in [Plan -> PlanLifecycle]
      /\ \A j \in Intent : PlanOf[j] \in Plan
  BY PlanAssumption DEF SetOrder, SetLifecycle, OrderInv, OrderTypes
<1>2. /\ order'[i] = state /\ \A j \in Intent : j # i => order'[j] = order[j]
      /\ \A j \in Intent : PlanOf[j] = PlanOf[i] => planLifecycle'[PlanOf[j]] = plan
      /\ \A j \in Intent : PlanOf[j] # PlanOf[i] =>
           planLifecycle'[PlanOf[j]] = planLifecycle[PlanOf[j]]
      /\ \A j \in Intent : Registered(PlanOf[j])' <=> Registered(PlanOf[j])
  BY <1>1 DEF Registered
<1>3. OrderTypes'
  BY <1>1 DEF OrderTypes
<1>4. IntentSound(i)'
  BY <1>2 DEF IntentSound
<1>5. ASSUME NEW j \in Intent, j # i PROVE IntentSound(j)'
  <2>1. /\ reservation'[j] = reservation[j] /\ filled'[j] = filled[j]
        /\ order'[j] = order[j] /\ (Registered(PlanOf[j])' <=> Registered(PlanOf[j]))
    BY <1>2, <1>5
  <2>2. IntentSound(j)
    BY DEF OrderInv
  <2> QED BY <2>1, <2>2 DEF IntentSound
<1>6. OrdersFilled'
  <2> SUFFICES ASSUME NEW j \in Intent, planLifecycle'[PlanOf[j]] \in {"LOCKED", "SETTLED"}
               PROVE  order'[j] = "FILLED"
    BY DEF OrdersFilled
  <2>1. CASE PlanOf[j] = PlanOf[i]
    BY <1>2, <2>1 DEF IntentsOf
  <2>2. CASE PlanOf[j] # PlanOf[i]
    <3>1. planLifecycle[PlanOf[j]] \in {"LOCKED", "SETTLED"} /\ order'[j] = order[j]
      BY <1>2, <2>2
    <3> QED BY <3>1 DEF OrderInv, OrdersFilled
  <2> QED BY <2>1, <2>2
<1> QED BY <1>3, <1>4, <1>5, <1>6 DEF OrderInv

\* #refreshLifecycle never forgets a plan, settles it, or locks it early.
LEMMA RefreshedFacts ==
  ASSUME NEW p, NEW o
  PROVE  /\ Refreshed(p, o) \in PlanLifecycle \ {"ABSENT", "SETTLED"}
         /\ Refreshed(p, o) = "LOCKED" => \A i \in IntentsOf(p) : o[i] = "FILLED"
BY DEF Refreshed, PlanLifecycle

\* Submit, Acknowledge and MarkUnknown touch the order only.
LEMMA OrderOnlyStep ==
  ASSUME OrderInv, NEW i \in Intent, NEW state \in OrderLifecycle \ Final,
         NEW plan \in PlanLifecycle \ {"ABSENT", "SETTLED", "LOCKED"},
         Registered(PlanOf[i]), order[i] \notin Final,
         SetOrder(i, state), SetLifecycle(PlanOf[i], plan),
         UNCHANGED <<reservation, filled>>
  PROVE  OrderInv'
<1>1. IntentSound(i) /\ OrderTypes
  BY DEF OrderInv
<1>2. order[i] # "FILLED" /\ state # "FILLED"
  BY DEF Final
<1> QED BY <1>1, <1>2, IntentStep DEF IntentSound, OrderTypes, Final

\* Reject and Cancel release what the order still held.
LEMMA CloseStep ==
  ASSUME OrderInv, NEW i \in Intent, NEW state \in {"REJECTED", "CANCELED"},
         order[i] \in {"SUBMITTING", "ACKNOWLEDGED", "PARTIAL"},
         SetOrder(i, state), SetLifecycle(PlanOf[i], "FAILED"),
         ReleaseIntent(i), UNCHANGED filled
  PROVE  OrderInv'
<1>1. IntentSound(i) /\ OrderTypes
  BY DEF OrderInv
<1>2. Registered(PlanOf[i]) /\ order[i] \notin Final
  BY <1>1 DEF IntentSound, Final
<1>3. reservation[i].status # "RELEASED"
  BY <1>1, <1>2 DEF IntentSound
<1>4. /\ reservation' \in [Intent -> Reservation] /\ reservation'[i].remaining = 0
      /\ reservation'[i].consumed = reservation[i].consumed
      /\ \A j \in Intent : j # i => reservation'[j] = reservation[j]
  BY <1>1, <1>3, ReleaseFacts
<1>5. /\ state \in OrderLifecycle /\ state \in Final /\ state # "FILLED" /\ order[i] # "FILLED"
      /\ "FAILED" \in PlanLifecycle \ {"ABSENT", "SETTLED"}
      /\ filled' \in [Intent -> Nat] /\ filled' = filled
  BY <1>1 DEF OrderLifecycle, PlanLifecycle, Final, OrderTypes
<1> QED BY <1>1, <1>2, <1>4, <1>5, IntentStep DEF IntentSound

LEMMA FillStep ==
  ASSUME OrderInv, NEW i \in Intent, NEW q \in 1..Quantity[i], NEW d \in Amount,
         Fill(i, q, d)
  PROVE  OrderInv'
<1> DEFINE total == filled[i] + q
           done == total = Quantity[i]
           state == IF done THEN "FILLED" ELSE "PARTIAL"
           plan == Refreshed(PlanOf[i], order')
<1>1. IntentSound(i) /\ OrderTypes /\ filled[i] \in Nat /\ Quantity[i] \in Nat
  BY PlanAssumption DEF OrderInv, OrderTypes
<1>2. /\ order[i] \in {"ACKNOWLEDGED", "PARTIAL"} /\ q > 0 /\ total <= Quantity[i]
      /\ DebitIntent(i, d, done) /\ filled' = [filled EXCEPT ![i] = total]
      /\ SetOrder(i, state) /\ SetLifecycle(PlanOf[i], plan)
  BY DEF Fill
<1>3. Registered(PlanOf[i]) /\ order[i] \notin Final /\ order[i] # "FILLED"
  BY <1>1, <1>2 DEF IntentSound, Final
<1>4. d \in Nat /\ done \in BOOLEAN
  BY LedgerAssumption
<1>5. /\ d > 0 /\ reservation[i].status = "OPEN" /\ d <= reservation[i].remaining
      /\ reservation' \in [Intent -> Reservation]
      /\ reservation'[i].consumed = reservation[i].consumed + d
      /\ reservation'[i].remaining = IF done THEN 0 ELSE reservation[i].remaining - d
      /\ ~done => reservation'[i].status \in {"OPEN", "CONSUMED"}
      /\ \A j \in Intent : j # i => reservation'[j] = reservation[j]
  <2> HIDE DEF done
  <2> QED BY <1>1, <1>2, <1>4, DebitFacts
<1>6. /\ filled' \in [Intent -> Nat] /\ filled'[i] = total
      /\ \A j \in Intent : j # i => filled'[j] = filled[j]
  BY <1>1, <1>2 DEF OrderTypes
<1>7. /\ plan \in PlanLifecycle \ {"ABSENT", "SETTLED"}
      /\ plan = "LOCKED" => \A j \in IntentsOf(PlanOf[i]) : order'[j] = "FILLED"
  BY RefreshedFacts
<1>8. reservation[i].remaining \in Int /\ reservation[i].consumed \in Int
      /\ MaxDebit[i] \in Nat
  BY <1>1, PlanAssumption DEF OrderTypes, Reservation
<1>9. /\ reservation'[i].remaining >= 0 /\ reservation'[i].consumed > 0
      /\ ~done => reservation'[i].remaining + reservation'[i].consumed = MaxDebit[i]
  <2>1. /\ reservation[i].remaining + reservation[i].consumed = MaxDebit[i]
        /\ reservation[i].consumed >= 0
    BY <1>1, <1>3 DEF IntentSound
  <2> HIDE DEF done
  <2> QED BY <2>1, <1>4, <1>5, <1>8
<1>10. /\ state \in OrderLifecycle /\ (state = "FILLED" <=> done)
       /\ (state \in Final <=> done)
  BY DEF OrderLifecycle, Final
<1>11. filled'[i] > 0 /\ filled'[i] <= Quantity[i] /\ (done => filled'[i] = Quantity[i])
  BY <1>1, <1>2, <1>6
<1>12. /\ SetOrder(i, state) /\ SetLifecycle(PlanOf[i], plan)
       /\ \A j \in Intent : j # i => reservation'[j] = reservation[j] /\ filled'[j] = filled[j]
       /\ filled'[i] > 0 <=> reservation'[i].consumed > 0
       /\ reservation'[i].consumed >= 0
       /\ done => reservation'[i].remaining = 0
  BY <1>2, <1>4, <1>5, <1>6, <1>8, <1>9, <1>11
<1> HIDE DEF plan, state, done, total
<1> QED BY <1>3, <1>5, <1>6, <1>7, <1>9, <1>10, <1>11, <1>12, IntentStep

LEMMA ReconcileStep ==
  ASSUME OrderInv, NEW i \in Intent,
         NEW state \in OrderLifecycle \ {"INTENT", "SUBMITTING", "UNKNOWN"},
         NEW q \in 0..Quantity[i], NEW d \in Amount, ReconcileUnknown(i, state, q, d)
  PROVE  OrderInv'
<1> DEFINE done == state \in {"FILLED", "CANCELED", "REJECTED"}
           plan == Refreshed(PlanOf[i], order')
<1>1. IntentSound(i) /\ OrderTypes /\ filled[i] \in Nat /\ Quantity[i] \in Nat /\ d \in Nat
  BY PlanAssumption, LedgerAssumption DEF OrderInv, OrderTypes
<1>2. /\ CanReconcile(i, state, q)
      /\ filled' = [filled EXCEPT ![i] = q]
      /\ SetOrder(i, state) /\ SetLifecycle(PlanOf[i], plan)
      /\ \/ q > filled[i] /\ DebitIntent(i, d, done)
         \/ /\ q <= filled[i]
            /\ IF done THEN ReleaseIntent(i) ELSE UNCHANGED ledgerVars
  BY DEF ReconcileUnknown
<1>3. /\ order[i] = "UNKNOWN" /\ filled[i] <= q /\ q <= Quantity[i]
      /\ state = "FILLED" => q = Quantity[i]
  BY <1>2 DEF CanReconcile
<1>4. /\ Registered(PlanOf[i]) /\ order[i] \notin Final /\ order[i] # "FILLED"
      /\ reservation[i].status \in {"OPEN", "CONSUMED"}
      /\ reservation[i].remaining + reservation[i].consumed = MaxDebit[i]
      /\ filled[i] > 0 <=> reservation[i].consumed > 0
      /\ reservation[i].remaining >= 0 /\ reservation[i].consumed >= 0
  BY <1>1, <1>3 DEF IntentSound, Final
<1>5. /\ filled' \in [Intent -> Nat] /\ filled'[i] = q
      /\ \A j \in Intent : j # i => filled'[j] = filled[j]
  BY <1>1, <1>2 DEF OrderTypes
<1>6. /\ plan \in PlanLifecycle \ {"ABSENT", "SETTLED"}
      /\ plan = "LOCKED" => \A j \in IntentsOf(PlanOf[i]) : order'[j] = "FILLED"
  BY RefreshedFacts
<1>7. reservation[i].remaining \in Int /\ reservation[i].consumed \in Int
      /\ MaxDebit[i] \in Nat
  BY <1>1, PlanAssumption DEF OrderTypes, Reservation
<1>8. (state \in Final <=> done) /\ done \in BOOLEAN
  BY DEF Final
<1> HIDE DEF done, plan
<1>9. /\ reservation' \in [Intent -> Reservation]
      /\ \A j \in Intent : j # i => reservation'[j] = reservation[j]
      /\ q > 0 <=> reservation'[i].consumed > 0
      /\ reservation'[i].consumed >= 0 /\ reservation'[i].remaining >= 0
      /\ done => reservation'[i].remaining = 0
      /\ ~done => /\ reservation'[i].status \in {"OPEN", "CONSUMED"}
                  /\ reservation'[i].remaining + reservation'[i].consumed = MaxDebit[i]
  <2>1. CASE q > filled[i] /\ DebitIntent(i, d, done)
    <3>1. /\ d > 0 /\ d <= reservation[i].remaining
          /\ reservation' \in [Intent -> Reservation]
          /\ reservation'[i].consumed = reservation[i].consumed + d
          /\ reservation'[i].remaining = IF done THEN 0 ELSE reservation[i].remaining - d
          /\ ~done => reservation'[i].status \in {"OPEN", "CONSUMED"}
          /\ \A j \in Intent : j # i => reservation'[j] = reservation[j]
      BY <1>1, <1>8, <2>1, DebitFacts
    <3>2. q > 0
      BY <1>1, <2>1
    <3> QED BY <3>1, <3>2, <1>1, <1>4, <1>7
  <2>2. CASE q <= filled[i] /\ done /\ ReleaseIntent(i)
    <3>1. /\ reservation' \in [Intent -> Reservation] /\ reservation'[i].remaining = 0
          /\ reservation'[i].consumed = reservation[i].consumed
          /\ \A j \in Intent : j # i => reservation'[j] = reservation[j]
      BY <1>1, <1>4, <2>2, ReleaseFacts
    <3>2. q = filled[i]
      BY <1>1, <1>3, <2>2
    <3> QED BY <3>1, <3>2, <2>2, <1>4
  <2>3. CASE q <= filled[i] /\ ~done /\ UNCHANGED ledgerVars
    <3>1. reservation' = reservation
      BY <2>3 DEF ledgerVars
    <3>2. q = filled[i]
      BY <1>1, <1>3, <2>3
    <3> QED BY <3>1, <3>2, <2>3, <1>1, <1>4 DEF OrderTypes
  <2> QED BY <1>2, <2>1, <2>2, <2>3
<1>10. /\ filled'[i] <= Quantity[i] /\ (state = "FILLED" => filled'[i] = Quantity[i])
       /\ (filled'[i] > 0 <=> reservation'[i].consumed > 0)
       /\ \A j \in Intent : j # i => reservation'[j] = reservation[j] /\ filled'[j] = filled[j]
  BY <1>3, <1>5, <1>9
<1>11. SetOrder(i, state) /\ SetLifecycle(PlanOf[i], plan)
  BY <1>2
<1> QED BY <1>4, <1>5, <1>6, <1>8, <1>9, <1>10, <1>11, IntentStep

\* A step that only moves plan p's lifecycle, and locks or settles it only if
\* it was locked.
LEMMA PlanStep ==
  ASSUME OrderInv, NEW p \in Plan, NEW state \in PlanLifecycle \ {"ABSENT"},
         Registered(p), state \in {"LOCKED", "SETTLED"} => planLifecycle[p] = "LOCKED",
         SetLifecycle(p, state), UNCHANGED <<reservation, order, filled>>
  PROVE  OrderInv'
<1>1. /\ planLifecycle' = [planLifecycle EXCEPT ![p] = state]
      /\ planLifecycle \in [Plan -> PlanLifecycle]
      /\ \A i \in Intent : PlanOf[i] \in Plan
  BY PlanAssumption DEF SetLifecycle, OrderInv, OrderTypes
<1>2. \A i \in Intent : Registered(PlanOf[i])' <=> Registered(PlanOf[i])
  BY <1>1 DEF Registered
<1>3. OrderTypes'
  BY <1>1 DEF OrderInv, OrderTypes
<1>4. ASSUME NEW i \in Intent PROVE IntentSound(i)'
  BY <1>2 DEF OrderInv, IntentSound
<1>5. OrdersFilled'
  BY <1>1 DEF OrderInv, OrdersFilled
<1> QED BY <1>3, <1>4, <1>5 DEF OrderInv

LEMMA ReserveStep == ASSUME OrderInv, NEW p \in Plan, ReservePlan(p) PROVE OrderInv'
<1>1. /\ planLifecycle' = [planLifecycle EXCEPT ![p] = "RESERVED"]
      /\ planLifecycle \in [Plan -> PlanLifecycle] /\ ~Registered(p)
      /\ UNCHANGED <<order, filled>>
      /\ \A i \in Intent : PlanOf[i] \in Plan
      /\ reservation' = [i \in Intent |->
           IF PlanOf[i] = p THEN OpenReservation(VenueOf[i], MaxDebit[i]) ELSE reservation[i]]
  BY PlanAssumption DEF ReservePlan, SetLifecycle, OrderInv, OrderTypes
<1>2. /\ \A i \in Intent : PlanOf[i] # p => planLifecycle'[PlanOf[i]] = planLifecycle[PlanOf[i]]
      /\ planLifecycle'[p] = "RESERVED"
      /\ planLifecycle' \in [Plan -> PlanLifecycle]
  BY <1>1 DEF PlanLifecycle
<1>3. ASSUME NEW i \in Intent
      PROVE  IntentSound(i)' /\ reservation'[i] \in Reservation
  <2>1. IntentSound(i) /\ reservation[i] \in Reservation
    BY DEF OrderInv, OrderTypes
  <2>2. MaxDebit[i] \in Nat \ {0} /\ VenueOf[i] \in Venue
    BY PlanAssumption
  <2>3. CASE PlanOf[i] = p
    <3>1. reservation'[i] = OpenReservation(VenueOf[i], MaxDebit[i])
      BY <1>1, <2>3
    <3>2. reservation'[i] \in Reservation
      BY <3>1, <2>2 DEF OpenReservation, Reservation, ReservationStatus
    <3>3. /\ order'[i] = "INTENT" /\ filled'[i] = filled[i]
          /\ filled[i] <= Quantity[i] /\ ~(filled[i] > 0)
      BY <1>1, <2>1, <2>3 DEF IntentSound
    <3> QED BY <3>1, <3>2, <3>3, <2>2, <2>3, <1>2
            DEF IntentSound, OpenReservation, Final, Registered
  <2>4. CASE PlanOf[i] # p
    BY <1>1, <1>2, <2>1, <2>4 DEF IntentSound, Registered
  <2> QED BY <2>3, <2>4
<1>4. OrdersFilled'
  BY <1>1, <1>2 DEF OrderInv, OrdersFilled
<1>5. OrderTypes'
  BY <1>1, <1>2, <1>3 DEF OrderInv, OrderTypes
<1> QED BY <1>3, <1>4, <1>5 DEF OrderInv

LEMMA RollbackStep == ASSUME OrderInv, NEW p \in Plan, ReservePlanRollsBack(p) PROVE OrderInv'
<1>1. UNCHANGED <<planLifecycle, order, filled>> /\ ~Registered(p)
  BY DEF ReservePlanRollsBack, engineVars
<1>2. PICK S \in SUBSET IntentsOf(p) :
        reservation' = [i \in Intent |->
          IF i \in S THEN ReleaseReservation(OpenReservation(VenueOf[i], MaxDebit[i]))
                     ELSE reservation[i]]
  <2>1. PICK failing \in IntentsOf(p) :
          reservation' = [i \in Intent |->
            IF i \in {k \in IntentsOf(p) : k < failing}
              THEN ReleaseReservation(OpenReservation(VenueOf[i], MaxDebit[i]))
              ELSE reservation[i]]
    BY DEF ReservePlanRollsBack
  <2> QED BY <2>1
<1>3. ASSUME NEW i \in Intent
      PROVE  IntentSound(i)' /\ reservation'[i] \in Reservation
  <2>1. IntentSound(i) /\ reservation[i] \in Reservation
    BY DEF OrderInv, OrderTypes
  <2>2. MaxDebit[i] \in Nat \ {0} /\ VenueOf[i] \in Venue
    BY PlanAssumption
  <2>3. CASE i \in S
    <3> DEFINE r == OpenReservation(VenueOf[i], MaxDebit[i])
    <3>1. r \in Reservation /\ r.consumed = 0 /\ r.initial = MaxDebit[i]
      BY <2>2 DEF OpenReservation, Reservation, ReservationStatus
    <3>2. /\ ReleaseReservation(r) \in Reservation /\ ReleaseReservation(r).remaining = 0
          /\ ReleaseReservation(r).consumed = 0
      BY <3>1, 0 \in Int, ReservationUpdateTypes
    <3>3. ReleaseReservation(r).status = "RELEASED"
      BY <3>1, <2>2 DEF ReleaseReservation, Reservation
    <3> HIDE DEF r
    <3>4. reservation'[i] = ReleaseReservation(r)
      BY <1>2, <2>3 DEF r
    <3>5. ~Registered(PlanOf[i])
      BY <1>1, <2>3 DEF IntentsOf
    <3> QED BY <3>2, <3>3, <3>4, <3>5, <2>1, <1>1 DEF IntentSound, Registered
  <2>4. CASE i \notin S
    BY <1>1, <1>2, <2>1, <2>4 DEF IntentSound, Registered
  <2> QED BY <2>3, <2>4
<1>4. OrderTypes' /\ OrdersFilled'
  BY <1>1, <1>2, <1>3 DEF OrderInv, OrderTypes, OrdersFilled
<1> QED BY <1>3, <1>4 DEF OrderInv

LEMMA OrderStep == OrderInv /\ [ShadowNext]_shadowVars => OrderInv'
<1> SUFFICES ASSUME OrderInv, [ShadowNext]_shadowVars PROVE OrderInv'
  OBVIOUS
<1>1. ASSUME NEW p \in Plan, ReservePlan(p) PROVE OrderInv'
  BY <1>1, ReserveStep
<1>2. ASSUME NEW p \in Plan, ReservePlanRollsBack(p) PROVE OrderInv'
  BY <1>2, RollbackStep
<1>3. ASSUME NEW p \in Plan, BeginUnwind(p) PROVE OrderInv'
  <2>1. /\ Registered(p) /\ SetLifecycle(p, "UNWINDING")
        /\ UNCHANGED <<reservation, order, filled>>
    BY <1>3 DEF BeginUnwind, Registered, ledgerVars
  <2>2. "UNWINDING" \in PlanLifecycle \ {"ABSENT"}
    BY DEF PlanLifecycle
  <2> QED BY <2>1, <2>2, PlanStep
<1>4. ASSUME NEW p \in Plan, LockCapitalForResolution(p) PROVE OrderInv'
  BY <1>4 DEF LockCapitalForResolution, OrderInv, OrderTypes, IntentSound,
              OrdersFilled, Registered
<1>5. ASSUME NEW p \in Plan, NEW receivable, SettlePlan(p, receivable) PROVE OrderInv'
  <2>1. /\ Registered(p) /\ planLifecycle[p] = "LOCKED" /\ SetLifecycle(p, "SETTLED")
        /\ UNCHANGED <<reservation, order, filled>>
    BY <1>5 DEF SettlePlan, Registered
  <2>2. "SETTLED" \in PlanLifecycle \ {"ABSENT"}
    BY DEF PlanLifecycle
  <2> QED BY <2>1, <2>2, PlanStep
<1>6. ASSUME NEW i \in Intent, Submit(i) \/ Acknowledge(i) \/ MarkUnknown(i)
      PROVE  OrderInv'
  <2>1. IntentSound(i)
    BY DEF OrderInv
  <2>2. /\ Registered(PlanOf[i]) /\ order[i] \notin Final
        /\ UNCHANGED <<reservation, filled>>
    BY <1>6, <2>1 DEF Submit, Acknowledge, MarkUnknown, IntentSound, Final, ledgerVars
  <2>3. /\ {"SUBMITTING", "ACKNOWLEDGED", "UNKNOWN"} \subseteq OrderLifecycle \ Final
        /\ {"SUBMITTING", "ACKNOWLEDGED", "UNKNOWN"}
             \subseteq PlanLifecycle \ {"ABSENT", "SETTLED", "LOCKED"}
    BY DEF OrderLifecycle, PlanLifecycle, Final
  <2>4. PICK state \in {"SUBMITTING", "ACKNOWLEDGED", "UNKNOWN"} :
          SetOrder(i, state) /\ SetLifecycle(PlanOf[i], state)
    BY <1>6 DEF Submit, Acknowledge, MarkUnknown
  <2> QED BY <2>2, <2>3, <2>4, OrderOnlyStep
<1>7. ASSUME NEW i \in Intent, Reject(i) PROVE OrderInv'
  BY <1>7, CloseStep DEF Reject
<1>8. ASSUME NEW i \in Intent, Cancel(i) PROVE OrderInv'
  BY <1>8, CloseStep DEF Cancel
<1>9. ASSUME NEW i \in Intent, NEW q \in 1..Quantity[i], NEW d \in Amount, Fill(i, q, d)
      PROVE  OrderInv'
  BY <1>9, FillStep
<1>10. ASSUME NEW i \in Intent, NEW s \in OrderLifecycle \ {"INTENT", "SUBMITTING", "UNKNOWN"},
              NEW q \in 0..Quantity[i], NEW d \in Amount, ReconcileUnknown(i, s, q, d)
       PROVE  OrderInv'
  BY <1>10, ReconcileStep
<1>11. ASSUME NEW v \in Venue, NEW a \in Amount, Recover(v, a) PROVE OrderInv'
  BY <1>11 DEF Recover, RecoverReceivable, engineVars, OrderInv, OrderTypes,
               IntentSound, OrdersFilled, Registered
<1>12. CASE UNCHANGED shadowVars
  BY <1>12 DEF shadowVars, OrderInv, OrderTypes, IntentSound, OrdersFilled, Registered
<1> QED BY <1>1, <1>2, <1>3, <1>4, <1>5, <1>6, <1>7, <1>8, <1>9, <1>10, <1>11, <1>12
        DEF ShadowNext

-----------------------------------------------------------------------------
\* The inductive invariant: each order, its reservation and its plan agree.
THEOREM OrderInvariant == ShadowSpec => []OrderInv
BY OrderInit, OrderStep, PTL DEF ShadowSpec

\* docs/ARCHITECTURE.md:193: a plan reaches LOCKED only after all legs fill
\* (LockedPlanIsHedged), by whatever mix of fills and reconciliations.
THEOREM LockedPlansAreHedged == ShadowSpec => []LockedPlanIsHedged
<1>1. OrderInv => LockedPlanIsHedged
  BY DEF OrderInv, OrdersFilled, IntentSound, LockedPlanIsHedged, IntentsOf,
         Registered, Final
<1> QED BY <1>1, OrderInvariant, PTL

\* An order that may still be filled keeps its whole maximum debit, one that
\* may not holds nothing (ReservationFollowsOrder).
THEOREM ReservationsFollowOrders == ShadowSpec => []ReservationFollowsOrder
<1>1. OrderInv => ReservationFollowsOrder
  BY DEF OrderInv, IntentSound, ReservationFollowsOrder
<1> QED BY <1>1, OrderInvariant, PTL

\* An order has consumed debit exactly if it has filled (DebitMatchesFill).
THEOREM DebitsMatchFills == ShadowSpec => []DebitMatchesFill
<1>1. OrderInv => DebitMatchesFill
  BY DEF OrderInv, IntentSound, DebitMatchesFill
<1> QED BY <1>1, OrderInvariant, PTL

-----------------------------------------------------------------------------
(* Types of the buckets *)

\* A plan's intents are finitely many, and it takes a natural amount of a venue.
LEMMA PlanDebitIsNat ==
  ASSUME NEW p, NEW v
  PROVE  /\ IsFiniteSet(Intent) /\ IsFiniteSet(IntentsAt(p, v))
         /\ PlanDebit(p, v) \in Nat
<1>1. IsFiniteSet(Intent) /\ IntentsAt(p, v) \subseteq Intent
  BY ReservationIdsAreFinite DEF Intent, IntentsAt, IntentsOf
<1>2. IsFiniteSet(IntentsAt(p, v))
  BY <1>1, FS_Subset
<1>3. \A i \in IntentsAt(p, v) : MaxDebit[i] \in Nat
  BY <1>1, PlanAssumption
<1> QED BY <1>1, <1>2, <1>3, SumIsNat DEF PlanDebit

MoneyTypes ==
  /\ capital \in [Venue -> [Bucket -> Int]]
  /\ realizedPnl \in [Venue -> Int]
  /\ deployedByVenue \in [Plan -> [Venue -> Nat]]
  /\ lockedCapital \in [Plan -> BOOLEAN]

LEMMA TransferType ==
  ASSUME NEW c \in [Venue -> [Bucket -> Int]], NEW v \in Venue,
         NEW from \in Bucket, NEW to \in Bucket, NEW n \in Int
  PROVE  Transfer(c, v, from, to, n) \in [Venue -> [Bucket -> Int]]
BY DEF Transfer

\* Moving capital between two buckets of every venue keeps the buckets' type.
LEMMA MoveEverywhereType ==
  ASSUME NEW c \in [Venue -> [Bucket -> Int]], NEW m \in [Venue -> Int],
         NEW n \in [Venue -> Int], NEW from \in Bucket, NEW to \in Bucket
  PROVE  [v \in Venue |-> [c[v] EXCEPT ![from] = @ - m[v], ![to] = @ + n[v]]]
           \in [Venue -> [Bucket -> Int]]
<1>1. ASSUME NEW v \in Venue
      PROVE  [c[v] EXCEPT ![from] = @ - m[v], ![to] = @ + n[v]] \in [Bucket -> Int]
  <2>1. c[v] \in [Bucket -> Int] /\ m[v] \in Int /\ n[v] \in Int
    OBVIOUS
  <2> QED BY <2>1
<1> QED BY <1>1

LEMMA DebitTypes ==
  ASSUME MoneyTypes, OrderTypes, NEW i \in Intent, NEW d \in Nat, NEW done \in BOOLEAN,
         DebitIntent(i, d, done)
  PROVE  /\ capital' \in [Venue -> [Bucket -> Int]] /\ UNCHANGED realizedPnl
         /\ deployedByVenue' \in [Plan -> [Venue -> Nat]]
         /\ \A p \in Plan : p # PlanOf[i] => deployedByVenue'[p] = deployedByVenue[p]
<1> DEFINE v == VenueOf[i]
           rest == IF done THEN ConsumeReservation(reservation[i], d).remaining ELSE 0
           c == Transfer(capital, v, "reserved", "deployed", d)
<1>1. v \in Venue /\ PlanOf[i] \in Plan /\ {"reserved", "deployed", "available"} \subseteq Bucket
  BY PlanAssumption DEF Bucket
<1>2. rest \in Int
  <2>1. reservation[i] \in Reservation /\ d \in Int
    BY DEF OrderTypes
  <2>2. ConsumeReservation(reservation[i], d) \in Reservation
    BY <2>1, ReservationUpdateTypes
  <2> QED BY <2>2 DEF Reservation
<1>3. capital' = Transfer(c, v, "reserved", "available", rest) /\ UNCHANGED realizedPnl
  BY DEF DebitIntent
<1>4. c \in [Venue -> [Bucket -> Int]]
  BY <1>1, TransferType, d \in Int DEF MoneyTypes
<1>5. capital' \in [Venue -> [Bucket -> Int]]
  <2> HIDE DEF c, rest, v
  <2> QED BY <1>1, <1>2, <1>3, <1>4, TransferType
<1>6. deployedByVenue' = [deployedByVenue EXCEPT ![PlanOf[i]][v] = @ + d]
  BY DEF DebitIntent
<1>7. /\ deployedByVenue' \in [Plan -> [Venue -> Nat]]
      /\ \A p \in Plan : p # PlanOf[i] => deployedByVenue'[p] = deployedByVenue[p]
  BY <1>1, <1>6 DEF MoneyTypes
<1> QED BY <1>3, <1>5, <1>7

LEMMA ReleaseTypes ==
  ASSUME MoneyTypes, OrderTypes, NEW i \in Intent, ReleaseIntent(i)
  PROVE  capital' \in [Venue -> [Bucket -> Int]] /\ UNCHANGED realizedPnl
<1>1. /\ VenueOf[i] \in Venue /\ reservation[i].remaining \in Int
      /\ {"reserved", "available"} \subseteq Bucket
  BY PlanAssumption DEF Bucket, OrderTypes, Reservation
<1> QED BY <1>1, TransferType DEF ReleaseIntent, MoneyTypes

\* What a reconciliation does to the ledger.
LEMMA ReconcileDebitsOrReleases ==
  ASSUME NEW i, NEW s, NEW q, NEW d, ReconcileUnknown(i, s, q, d)
  PROVE  \E done \in BOOLEAN :
           \/ DebitIntent(i, d, done)
           \/ (ReleaseIntent(i) \/ UNCHANGED ledgerVars) /\ UNCHANGED deployedByVenue
<1> DEFINE done == s \in {"FILLED", "CANCELED", "REJECTED"}
<1>1. done \in BOOLEAN
  OBVIOUS
<1>2. \/ DebitIntent(i, d, done)
      \/ (ReleaseIntent(i) \/ UNCHANGED ledgerVars) /\ UNCHANGED deployedByVenue
  <2>1. \/ DebitIntent(i, d, done)
        \/ /\ IF done THEN ReleaseIntent(i) ELSE UNCHANGED ledgerVars
           /\ UNCHANGED deployedByVenue
    BY DEF ReconcileUnknown
  <2> HIDE DEF done
  <2> QED BY <2>1
<1> HIDE DEF done
<1> QED BY <1>1, <1>2

LEMMA MoneyInit == ShadowInit => MoneyTypes
BY LedgerAssumption DEF ShadowInit, LedgerInit, MoneyTypes, Bucket

LEMMA MoneyStep == OrderInv /\ MoneyTypes /\ [ShadowNext]_shadowVars => MoneyTypes'
<1> SUFFICES ASSUME OrderInv, MoneyTypes, [ShadowNext]_shadowVars PROVE MoneyTypes'
  OBVIOUS
<1>t. OrderTypes
  BY DEF OrderInv
<1>1. ASSUME NEW p \in Plan, ReservePlan(p) PROVE MoneyTypes'
  <2>1. \A v \in Venue : PlanDebit(p, v) \in Int
    BY PlanDebitIsNat
  <2> QED BY <1>1, <2>1 DEF ReservePlan, MoneyTypes, Bucket
<1>2. ASSUME NEW p \in Plan, ReservePlanRollsBack(p) \/ BeginUnwind(p) PROVE MoneyTypes'
  BY <1>2 DEF ReservePlanRollsBack, BeginUnwind, engineVars, ledgerVars, MoneyTypes
<1>3. ASSUME NEW p \in Plan, LockCapitalForResolution(p) PROVE MoneyTypes'
  <2> DEFINE m == [v \in Venue |-> deployedByVenue[p][v]]
  <2>1. m \in [Venue -> Int] /\ {"deployed", "unresolved"} \subseteq Bucket
    BY DEF MoneyTypes, Bucket
  <2>2. /\ capital' = [v \in Venue |->
             [capital[v] EXCEPT !["deployed"] = @ - m[v], !["unresolved"] = @ + m[v]]]
        /\ lockedCapital' \in [Plan -> BOOLEAN] /\ UNCHANGED <<realizedPnl, deployedByVenue>>
    BY <1>3 DEF LockCapitalForResolution, MoneyTypes
  <2> HIDE DEF m
  <2>3. capital' \in [Venue -> [Bucket -> Int]]
    BY <2>1, <2>2, MoveEverywhereType DEF MoneyTypes
  <2> QED BY <2>2, <2>3 DEF MoneyTypes
<1>4. ASSUME NEW p \in Plan, NEW receivable \in [Venue -> Amount], SettlePlan(p, receivable)
      PROVE  MoneyTypes'
  <2> DEFINE m == [v \in Venue |-> deployedByVenue[p][v]]
             n == [v \in Venue |-> IF deployedByVenue[p][v] > 0 THEN receivable[v] ELSE 0]
  <2>0. \A v \in Venue : deployedByVenue[p][v] \in Int
    BY DEF MoneyTypes
  <2>1. m \in [Venue -> Int] /\ {"unresolved", "receivable"} \subseteq Bucket
    BY <2>0 DEF Bucket
  <2>2. n \in [Venue -> Int]
    <3>1. ASSUME NEW v \in Venue PROVE receivable[v] \in Int
      <4>1. receivable[v] \in Amount
        OBVIOUS
      <4>2. Amount \subseteq Int
        BY LedgerAssumption
      <4> QED BY <4>1, <4>2
    <3> QED BY <3>1
  <2>3. /\ capital' = [v \in Venue |->
             [capital[v] EXCEPT !["unresolved"] = @ - m[v], !["receivable"] = @ + n[v]]]
        /\ realizedPnl' = [v \in Venue |-> realizedPnl[v] + n[v] - m[v]]
        /\ UNCHANGED <<deployedByVenue, lockedCapital>>
    BY <1>4 DEF SettlePlan
  <2> HIDE DEF m, n
  <2>4. capital' \in [Venue -> [Bucket -> Int]]
    BY <2>1, <2>2, <2>3, MoveEverywhereType DEF MoneyTypes
  <2>5. realizedPnl' \in [Venue -> Int]
    BY <2>1, <2>2, <2>3 DEF MoneyTypes
  <2> QED BY <2>3, <2>4, <2>5 DEF MoneyTypes
<1>5. ASSUME NEW i \in Intent, Submit(i) \/ Acknowledge(i) \/ MarkUnknown(i)
      PROVE  MoneyTypes'
  BY <1>5 DEF Submit, Acknowledge, MarkUnknown, ledgerVars, MoneyTypes
<1>6. ASSUME NEW i \in Intent, Reject(i) \/ Cancel(i) PROVE MoneyTypes'
  BY <1>6, <1>t, ReleaseTypes DEF Reject, Cancel, MoneyTypes
<1>7. ASSUME NEW i \in Intent, NEW q \in 1..Quantity[i], NEW d \in Amount, Fill(i, q, d)
      PROVE  MoneyTypes'
  <2>1. PICK done \in BOOLEAN : DebitIntent(i, d, done)
    BY <1>7 DEF Fill
  <2>2. d \in Nat /\ UNCHANGED lockedCapital
    BY <1>7, LedgerAssumption DEF Fill
  <2> QED BY <1>t, <2>1, <2>2, DebitTypes DEF MoneyTypes
<1>8. ASSUME NEW i \in Intent, NEW s \in OrderLifecycle \ {"INTENT", "SUBMITTING", "UNKNOWN"},
             NEW q \in 0..Quantity[i], NEW d \in Amount, ReconcileUnknown(i, s, q, d)
      PROVE  MoneyTypes'
  <2>1. UNCHANGED lockedCapital /\ d \in Nat
    BY <1>8, LedgerAssumption DEF ReconcileUnknown
  <2>2. PICK done \in BOOLEAN :
          \/ DebitIntent(i, d, done)
          \/ (ReleaseIntent(i) \/ UNCHANGED ledgerVars) /\ UNCHANGED deployedByVenue
    BY <1>8, ReconcileDebitsOrReleases
  <2>3. CASE DebitIntent(i, d, done)
    BY <1>t, <2>1, <2>3, DebitTypes DEF MoneyTypes
  <2>4. CASE ReleaseIntent(i) /\ UNCHANGED deployedByVenue
    BY <1>t, <2>1, <2>4, ReleaseTypes DEF MoneyTypes
  <2>5. CASE UNCHANGED <<ledgerVars, deployedByVenue>>
    BY <2>1, <2>5 DEF MoneyTypes, ledgerVars
  <2> QED BY <2>2, <2>3, <2>4, <2>5
<1>9. ASSUME NEW v \in Venue, NEW a \in Amount, Recover(v, a) PROVE MoneyTypes'
  <2>1. a \in Int /\ {"receivable", "available"} \subseteq Bucket
    BY LedgerAssumption DEF Bucket
  <2> QED BY <1>9, <2>1, TransferType DEF Recover, RecoverReceivable, engineVars, MoneyTypes
<1>10. CASE UNCHANGED shadowVars
  BY <1>10 DEF shadowVars, MoneyTypes
<1> QED BY <1>1, <1>2, <1>3, <1>4, <1>5, <1>6, <1>7, <1>8, <1>9, <1>10 DEF ShadowNext

\* Type correctness of the engine and its ledger (ShadowTypeOK).
THEOREM TypesAreKept == ShadowSpec => []ShadowTypeOK
<1>1. OrderInv /\ MoneyTypes => ShadowTypeOK
  BY DEF OrderInv, OrderTypes, MoneyTypes, ShadowTypeOK, LedgerTypeOK, Intent
<1>2. ShadowSpec => []MoneyTypes
  BY MoneyInit, MoneyStep, OrderInvariant, PTL DEF ShadowSpec
<1> QED BY <1>1, <1>2, OrderInvariant, PTL

-----------------------------------------------------------------------------
(* Action properties *)

\* Every step touches the orders and reservations of one plan at most, and
\* only while that plan is not settled.
LEMMA SettledUntouched ==
  ASSUME OrderInv, MoneyTypes, [ShadowNext]_shadowVars,
         NEW p \in Plan, planLifecycle[p] = "SETTLED"
  PROVE  /\ planLifecycle'[p] = "SETTLED" /\ deployedByVenue'[p] = deployedByVenue[p]
         /\ \A i \in IntentsOf(p) :
              order'[i] = order[i] /\ reservation'[i] = reservation[i]
<1> DEFINE Same == /\ planLifecycle'[p] = planLifecycle[p]
                   /\ deployedByVenue'[p] = deployedByVenue[p]
                   /\ \A i \in IntentsOf(p) :
                        order'[i] = order[i] /\ reservation'[i] = reservation[i]
<1> SUFFICES Same
  OBVIOUS
<1>t. OrderTypes /\ \A i \in Intent : PlanOf[i] \in Plan
  BY PlanAssumption DEF OrderInv
<1>f. \A i \in IntentsOf(p) : i \in Intent /\ PlanOf[i] = p /\ order[i] = "FILLED"
  BY DEF IntentsOf, OrderInv, OrdersFilled
\* A step of an order that is not FILLED is one of another plan.
<1>o. ASSUME NEW i \in Intent, order[i] # "FILLED", NEW s, SetOrder(i, s),
             NEW l, SetLifecycle(PlanOf[i], l),
             \A j \in Intent : j # i => reservation'[j] = reservation[j],
             \/ UNCHANGED deployedByVenue
             \/ \A q \in Plan : q # PlanOf[i] => deployedByVenue'[q] = deployedByVenue[q]
      PROVE  Same
  <2>1. PlanOf[i] # p /\ i \notin IntentsOf(p)
    BY <1>o, <1>f DEF OrderInv, OrdersFilled, IntentsOf
  <2> QED BY <1>o, <2>1, <1>t, <1>f DEF SetOrder, SetLifecycle, OrderTypes
<1>1. ASSUME NEW q \in Plan, ReservePlan(q) PROVE Same
  <2>1. q # p
    BY <1>1 DEF ReservePlan, Registered
  <2> QED BY <1>1, <2>1, <1>t, <1>f DEF ReservePlan, SetLifecycle, OrderTypes
<1>2. ASSUME NEW q \in Plan, ReservePlanRollsBack(q) PROVE Same
  <2>1. q # p
    BY <1>2 DEF ReservePlanRollsBack, Registered
  <2>2. UNCHANGED <<planLifecycle, order, deployedByVenue>>
    BY <1>2 DEF ReservePlanRollsBack, engineVars
  <2>3. PICK failing \in IntentsOf(q) :
          reservation' = [i \in Intent |->
            IF i \in {k \in IntentsOf(q) : k < failing}
              THEN ReleaseReservation(OpenReservation(VenueOf[i], MaxDebit[i]))
              ELSE reservation[i]]
    BY <1>2 DEF ReservePlanRollsBack
  <2>4. \A i \in IntentsOf(p) : i \notin {k \in IntentsOf(q) : k < failing}
    BY <2>1, <1>f DEF IntentsOf
  <2> QED BY <2>2, <2>3, <2>4, <1>f
<1>3. ASSUME NEW q \in Plan, NEW receivable,
             BeginUnwind(q) \/ LockCapitalForResolution(q) \/ SettlePlan(q, receivable)
      PROVE  Same
  BY <1>3, <1>t DEF BeginUnwind, LockCapitalForResolution, SettlePlan, SetLifecycle,
                    OrderTypes, ledgerVars
<1>4. ASSUME NEW i \in Intent, Submit(i) \/ Acknowledge(i) \/ MarkUnknown(i) PROVE Same
  <2>1. order[i] # "FILLED" /\ UNCHANGED <<reservation, deployedByVenue>>
    BY <1>4 DEF Submit, Acknowledge, MarkUnknown, ledgerVars
  <2> QED BY <1>4, <2>1, <1>o DEF Submit, Acknowledge, MarkUnknown
<1>5. ASSUME NEW i \in Intent, Reject(i) \/ Cancel(i) PROVE Same
  <2>1. order[i] \in {"SUBMITTING", "ACKNOWLEDGED", "PARTIAL"} /\ ReleaseIntent(i)
        /\ UNCHANGED deployedByVenue
    BY <1>5 DEF Reject, Cancel
  <2>2. IntentSound(i)
    BY DEF OrderInv
  <2>3. \A j \in Intent : j # i => reservation'[j] = reservation[j]
    BY <2>1, <1>t DEF ReleaseIntent, OrderTypes
  <2> QED BY <1>5, <2>1, <2>3, <1>o DEF Reject, Cancel
<1>6. ASSUME NEW i \in Intent, NEW q \in 1..Quantity[i], NEW d \in Amount, Fill(i, q, d)
      PROVE  Same
  <2>1. PICK done \in BOOLEAN : DebitIntent(i, d, done)
    BY <1>6 DEF Fill
  <2>2. /\ \A j \in Intent : j # i => reservation'[j] = reservation[j]
        /\ \A r \in Plan : r # PlanOf[i] => deployedByVenue'[r] = deployedByVenue[r]
    <3>1. d \in Nat
      BY LedgerAssumption
    <3> QED BY <1>t, <2>1, <3>1, DebitFacts, DebitTypes
  <2> QED BY <1>6, <2>2, <1>o DEF Fill
<1>7. ASSUME NEW i \in Intent, NEW s \in OrderLifecycle \ {"INTENT", "SUBMITTING", "UNKNOWN"},
             NEW q \in 0..Quantity[i], NEW d \in Amount, ReconcileUnknown(i, s, q, d)
      PROVE  Same
  <2>1. order[i] = "UNKNOWN"
    BY <1>7 DEF ReconcileUnknown, CanReconcile
  <2>2. d \in Nat
    BY LedgerAssumption
  <2>3. PICK done \in BOOLEAN :
          \/ DebitIntent(i, d, done)
          \/ (ReleaseIntent(i) \/ UNCHANGED ledgerVars) /\ UNCHANGED deployedByVenue
    BY <1>7, ReconcileDebitsOrReleases
  <2>4. CASE DebitIntent(i, d, done)
    <3>1. /\ \A j \in Intent : j # i => reservation'[j] = reservation[j]
          /\ \A r \in Plan : r # PlanOf[i] => deployedByVenue'[r] = deployedByVenue[r]
      BY <1>t, <2>2, <2>4, DebitFacts, DebitTypes
    <3> QED BY <1>7, <2>1, <3>1, <1>o DEF ReconcileUnknown
  <2>5. CASE (ReleaseIntent(i) \/ UNCHANGED ledgerVars) /\ UNCHANGED deployedByVenue
    <3>1. \A j \in Intent : j # i => reservation'[j] = reservation[j]
      BY <2>5, <1>t DEF ReleaseIntent, OrderTypes, ledgerVars
    <3> QED BY <1>7, <2>1, <2>5, <3>1, <1>o DEF ReconcileUnknown
  <2> QED BY <2>3, <2>4, <2>5
<1>8. ASSUME NEW v \in Venue, NEW a \in Amount, Recover(v, a) PROVE Same
  BY <1>8 DEF Recover, RecoverReceivable, engineVars
<1>9. CASE UNCHANGED shadowVars
  BY <1>9 DEF shadowVars
<1> QED BY <1>1, <1>2, <1>3, <1>4, <1>5, <1>6, <1>7, <1>8, <1>9 DEF ShadowNext

\* Once settled, a plan, its orders and its reservations never change again
\* (SettledPlanIsFinal).
THEOREM SettledPlansAreFinal == ShadowSpec => SettledPlanIsFinal
<1> DEFINE Final2 == \A p \in Plan : planLifecycle[p] = "SETTLED" =>
       /\ planLifecycle'[p] = "SETTLED" /\ deployedByVenue'[p] = deployedByVenue[p]
       /\ \A i \in IntentsOf(p) :
            order'[i] = order[i] /\ reservation'[i] = reservation[i]
<1>1. OrderInv /\ MoneyTypes /\ [ShadowNext]_shadowVars => [Final2]_shadowVars
  BY SettledUntouched
<1>2. ShadowSpec => []MoneyTypes
  BY MoneyInit, MoneyStep, OrderInvariant, PTL DEF ShadowSpec
<1> QED BY <1>1, <1>2, OrderInvariant, PTL DEF ShadowSpec, SettledPlanIsFinal

\* Only reserving a plan registers it, and that needs intents that were never
\* reserved before.
LEMMA UsedIdsBlockThePlan ==
  ASSUME OrderInv, [ShadowNext]_shadowVars, NEW k \in Intent,
         ~Registered(PlanOf[k]), reservation[k].status = "RELEASED"
  PROVE  planLifecycle'[PlanOf[k]] = "ABSENT"
<1> DEFINE p == PlanOf[k]
<1>t. OrderTypes /\ p \in Plan /\ planLifecycle[p] = "ABSENT"
  BY PlanAssumption DEF OrderInv, Registered
<1>f. \A i \in Intent : PlanOf[i] \in Plan /\ (order[i] # "INTENT" => PlanOf[i] # p)
  BY PlanAssumption DEF OrderInv, IntentSound, Registered
<1>o. ASSUME NEW q \in Plan, q # p, NEW l, SetLifecycle(q, l)
      PROVE  planLifecycle'[p] = "ABSENT"
  BY <1>o, <1>t DEF SetLifecycle, OrderTypes
<1>1. ASSUME NEW q \in Plan, ReservePlan(q) PROVE planLifecycle'[p] = "ABSENT"
  <2>1. q # p
    BY <1>1 DEF ReservePlan, Reservable, IntentsOf
  <2> QED BY <1>1, <2>1, <1>o DEF ReservePlan
<1>2. ASSUME NEW q \in Plan, NEW receivable,
             \/ ReservePlanRollsBack(q) \/ BeginUnwind(q)
             \/ LockCapitalForResolution(q) \/ SettlePlan(q, receivable)
      PROVE  planLifecycle'[p] = "ABSENT"
  <2>1. CASE UNCHANGED planLifecycle
    BY <2>1, <1>t
  <2>2. CASE q # p /\ \E l : SetLifecycle(q, l)
    BY <2>2, <1>o
  <2> QED BY <1>2, <2>1, <2>2, <1>t DEF ReservePlanRollsBack, BeginUnwind,
             LockCapitalForResolution, SettlePlan, engineVars
<1>3. ASSUME NEW i \in Intent, Submit(i) PROVE planLifecycle'[p] = "ABSENT"
  BY <1>3, <1>t, <1>f, <1>o DEF Submit, Registered
<1>4. ASSUME NEW i \in Intent, NEW q, NEW d, NEW s,
             \/ Acknowledge(i) \/ Reject(i) \/ Cancel(i) \/ MarkUnknown(i)
             \/ Fill(i, q, d) \/ ReconcileUnknown(i, s, q, d)
      PROVE  planLifecycle'[p] = "ABSENT"
  <2>1. order[i] # "INTENT"
    BY <1>4 DEF Acknowledge, Reject, Cancel, MarkUnknown, Fill, ReconcileUnknown, CanReconcile
  <2>2. \E l : SetLifecycle(PlanOf[i], l)
    BY <1>4 DEF Acknowledge, Reject, Cancel, MarkUnknown, Fill, ReconcileUnknown
  <2> QED BY <2>1, <2>2, <1>f, <1>o
<1>5. ASSUME NEW v \in Venue, NEW a \in Amount, Recover(v, a)
      PROVE  planLifecycle'[p] = "ABSENT"
  BY <1>5, <1>t DEF Recover, engineVars
<1>6. CASE UNCHANGED shadowVars
  BY <1>6, <1>t DEF shadowVars
<1> QED BY <1>1, <1>2, <1>3, <1>4, <1>5, <1>6 DEF ShadowNext

\* A plan whose reservation was rolled back after some of its intents had been
\* reserved can never be registered (RolledBackPlanStaysAbsent).
THEOREM RolledBackPlansStayAbsent == ShadowSpec => RolledBackPlanStaysAbsent
<1> DEFINE Blocked == \A i \in Intent :
       ~Registered(PlanOf[i]) /\ reservation[i].status = "RELEASED"
         => ~Registered(PlanOf[i])'
<1>1. OrderInv /\ [ShadowNext]_shadowVars => [Blocked]_shadowVars
  BY UsedIdsBlockThePlan DEF Registered
<1> QED BY <1>1, OrderInvariant, PTL DEF ShadowSpec, RolledBackPlanStaysAbsent

-----------------------------------------------------------------------------
(* Where the capital is *)

\* What an intent holds, it holds at its venue.
Placed ==
  \A i \in Intent : reservation[i].remaining > 0 => reservation[i].venue = VenueOf[i]

\* Only a plan whose orders are all filled has its capital locked.
LockedFilled ==
  \A i \in Intent : lockedCapital[PlanOf[i]] => order[i] = "FILLED"

FundsInv ==
  /\ OrderInv /\ MoneyTypes
  /\ Placed /\ LockedFilled
  /\ ReservedIsBacked /\ DeployedIsAttributed
  /\ \A v \in Venue : capital[v]["available"] >= 0 /\ capital[v]["receivable"] >= 0

\* Every order step takes from what intent i holds: it deploys d and returns
\* rest.  Most steps do neither.
Takes(i, d, rest) ==
  LET v == VenueOf[i]
      p == PlanOf[i]
  IN
  /\ d + rest <= reservation[i].remaining
  /\ capital'[v]["reserved"] = capital[v]["reserved"] - d - rest
  /\ capital'[v]["deployed"] = capital[v]["deployed"] + d
  /\ capital'[v]["available"] = capital[v]["available"] + rest
  /\ capital'[v]["unresolved"] = capital[v]["unresolved"]
  /\ capital'[v]["receivable"] = capital[v]["receivable"]
  /\ \A w \in Venue : w # v => capital'[w] = capital[w]
  /\ deployedByVenue'[p][v] = deployedByVenue[p][v] + d
  /\ \A q \in Plan, w \in Venue :
       <<q, w>> # <<p, v>> => deployedByVenue'[q][w] = deployedByVenue[q][w]
  /\ reservation'[i].remaining = reservation[i].remaining - d - rest
  /\ reservation'[i].consumed = reservation[i].consumed + d
  /\ reservation'[i].venue = reservation[i].venue
  /\ \A j \in Intent : j # i => reservation'[j] = reservation[j]
  /\ UNCHANGED <<realizedPnl, lockedCapital>>

\* An order step moves one order that is not filled, and its plan's lifecycle.
MovesOrder(i) ==
  /\ order[i] # "FILLED"
  /\ \A j \in Intent : j # i => order'[j] = order[j]
  /\ \A q \in Plan : q # PlanOf[i] => planLifecycle'[q] = planLifecycle[q]
  /\ planLifecycle'[PlanOf[i]] # "SETTLED"

LEMMA ReleaseTakes ==
  ASSUME FundsInv, NEW i \in Intent, ReleaseIntent(i),
         reservation[i].status = "RELEASED" => reservation[i].remaining = 0,
         UNCHANGED <<deployedByVenue, lockedCapital>>
  PROVE  reservation[i].remaining \in Nat /\ Takes(i, 0, reservation[i].remaining)
<1> DEFINE v == VenueOf[i]
           n == reservation[i].remaining
<1>1. /\ OrderTypes /\ MoneyTypes /\ IntentSound(i)
      /\ capital \in [Venue -> [Bucket -> Int]]
      /\ deployedByVenue \in [Plan -> [Venue -> Nat]]
  BY DEF FundsInv, OrderInv, MoneyTypes
<1>2. v \in Venue /\ PlanOf[i] \in Plan /\ "reserved" \in Bucket /\ "available" \in Bucket
  BY PlanAssumption DEF Bucket
<1>3. n \in Nat /\ reservation[i].consumed \in Int
  BY <1>1 DEF OrderTypes, Reservation, IntentSound
<1>4. /\ reservation'[i].remaining = 0
      /\ reservation'[i].consumed = reservation[i].consumed
      /\ reservation'[i].venue = reservation[i].venue
      /\ \A j \in Intent : j # i => reservation'[j] = reservation[j]
  BY <1>1, ReleaseFacts
<1>5. /\ capital'[v]["reserved"] = capital[v]["reserved"] - n
      /\ capital'[v]["available"] = capital[v]["available"] + n
      /\ \A b \in Bucket : b # "reserved" /\ b # "available" => capital'[v][b] = capital[v][b]
      /\ \A w \in Venue : w # v => capital'[w] = capital[w]
      /\ UNCHANGED realizedPnl
  <2>1. capital' = Transfer(capital, v, "reserved", "available", n) /\ UNCHANGED realizedPnl
    BY DEF ReleaseIntent
  <2>2. "reserved" # "available" /\ n \in Int
    BY <1>3
  <2> HIDE DEF v, n
  <2> QED BY <2>1, <2>2, <1>1, <1>2 DEF Transfer
<1>6. /\ capital'[v]["deployed"] = capital[v]["deployed"]
      /\ capital'[v]["unresolved"] = capital[v]["unresolved"]
      /\ capital'[v]["receivable"] = capital[v]["receivable"]
      /\ \A b \in Bucket : capital[v][b] \in Int
      /\ {"reserved", "deployed", "available"} \subseteq Bucket
      /\ deployedByVenue[PlanOf[i]][v] \in Nat
  BY <1>1, <1>2, <1>5 DEF Bucket
<1> QED BY <1>3, <1>4, <1>5, <1>6 DEF Takes

LEMMA DebitTakes ==
  ASSUME FundsInv, NEW i \in Intent, NEW d \in Nat, NEW done \in BOOLEAN,
         DebitIntent(i, d, done), UNCHANGED lockedCapital
  PROVE  \E rest \in Nat : Takes(i, d, rest)
<1> DEFINE v == VenueOf[i]
           r == reservation[i]
           rest == IF done THEN r.remaining - d ELSE 0
           c == Transfer(capital, v, "reserved", "deployed", d)
<1>1. /\ OrderTypes /\ MoneyTypes /\ r \in Reservation
      /\ capital \in [Venue -> [Bucket -> Int]]
      /\ deployedByVenue \in [Plan -> [Venue -> Nat]]
  BY DEF FundsInv, OrderInv, OrderTypes, MoneyTypes
<1>2. v \in Venue /\ PlanOf[i] \in Plan
      /\ "reserved" \in Bucket /\ "available" \in Bucket /\ "deployed" \in Bucket
      /\ d \in Int
  BY PlanAssumption DEF Bucket
<1>3. /\ d <= r.remaining
      /\ reservation'[i].consumed = r.consumed + d
      /\ reservation'[i].remaining = IF done THEN 0 ELSE r.remaining - d
      /\ reservation'[i].venue = r.venue
      /\ \A j \in Intent : j # i => reservation'[j] = reservation[j]
  BY <1>1, DebitFacts
<1>4. r.remaining \in Int /\ rest \in Nat /\ d + rest <= r.remaining
      /\ reservation'[i].remaining = r.remaining - d - rest
  <2>1. r.remaining \in Int
    BY <1>1 DEF Reservation
  <2> QED BY <2>1, <1>3
<1>5. ConsumeReservation(r, d).remaining = r.remaining - d
  BY <1>1, <1>2, ReservationUpdateTypes
<1>6. capital' = Transfer(c, v, "reserved", "available", rest) /\ UNCHANGED realizedPnl
  BY <1>5 DEF DebitIntent
<1>7. /\ c \in [Venue -> [Bucket -> Int]]
      /\ c[v]["reserved"] = capital[v]["reserved"] - d
      /\ c[v]["deployed"] = capital[v]["deployed"] + d
      /\ \A b \in Bucket : b # "reserved" /\ b # "deployed" => c[v][b] = capital[v][b]
      /\ \A w \in Venue : w # v => c[w] = capital[w]
  <2>1. "reserved" # "deployed"
    OBVIOUS
  <2> HIDE DEF v
  <2> QED BY <2>1, <1>1, <1>2 DEF Transfer
<1>8. /\ capital'[v]["reserved"] = c[v]["reserved"] - rest
      /\ capital'[v]["available"] = c[v]["available"] + rest
      /\ \A b \in Bucket : b # "reserved" /\ b # "available" => capital'[v][b] = c[v][b]
      /\ \A w \in Venue : w # v => capital'[w] = c[w]
  <2>1. "reserved" # "available" /\ rest \in Int
    BY <1>4
  <2> HIDE DEF v, c, rest
  <2> QED BY <2>1, <1>2, <1>6, <1>7 DEF Transfer
<1>9. /\ deployedByVenue'[PlanOf[i]][v] = deployedByVenue[PlanOf[i]][v] + d
      /\ \A q \in Plan, w \in Venue :
           <<q, w>> # <<PlanOf[i], v>> => deployedByVenue'[q][w] = deployedByVenue[q][w]
  <2>1. deployedByVenue' = [deployedByVenue EXCEPT ![PlanOf[i]][v] = @ + d]
    BY DEF DebitIntent
  <2> HIDE DEF v
  <2> QED BY <2>1, <1>1, <1>2
<1>10. /\ {"unresolved", "receivable"} \subseteq Bucket
       /\ \A b \in Bucket : capital[v][b] \in Int
  BY <1>1, <1>2 DEF Bucket
<1> HIDE DEF c, rest
<1>11. /\ capital'[v]["reserved"] = capital[v]["reserved"] - d - rest
       /\ capital'[v]["deployed"] = capital[v]["deployed"] + d
       /\ capital'[v]["available"] = capital[v]["available"] + rest
       /\ capital'[v]["unresolved"] = capital[v]["unresolved"]
       /\ capital'[v]["receivable"] = capital[v]["receivable"]
       /\ \A w \in Venue : w # v => capital'[w] = capital[w]
  BY <1>2, <1>7, <1>8, <1>10
<1> QED BY <1>3, <1>4, <1>6, <1>9, <1>11 DEF Takes

\* The engine's calls about one order.
OrderCall(i) ==
  \/ Submit(i) \/ Acknowledge(i) \/ Reject(i) \/ Cancel(i) \/ MarkUnknown(i)
  \/ \E q \in 1..Quantity[i], d \in Amount : Fill(i, q, d)
  \/ \E s \in OrderLifecycle \ {"INTENT", "SUBMITTING", "UNKNOWN"},
        q \in 0..Quantity[i], d \in Amount : ReconcileUnknown(i, s, q, d)

LEMMA NothingTaken ==
  ASSUME FundsInv, NEW i \in Intent, UNCHANGED <<ledgerVars, deployedByVenue, lockedCapital>>
  PROVE  Takes(i, 0, 0)
<1>1. /\ capital \in [Venue -> [Bucket -> Int]] /\ VenueOf[i] \in Venue
      /\ deployedByVenue \in [Plan -> [Venue -> Nat]] /\ PlanOf[i] \in Plan
      /\ reservation[i] \in Reservation /\ reservation[i].remaining >= 0
  BY PlanAssumption DEF FundsInv, OrderInv, OrderTypes, MoneyTypes, IntentSound
<1>2. /\ \A b \in Bucket : capital[VenueOf[i]][b] \in Int
      /\ deployedByVenue[PlanOf[i]][VenueOf[i]] \in Int
      /\ reservation[i].remaining \in Int /\ reservation[i].consumed \in Int
      /\ {"reserved", "deployed", "available"} \subseteq Bucket
  BY <1>1 DEF Bucket, Reservation
<1> QED BY <1>1, <1>2 DEF Takes, ledgerVars

\* Each of these calls moves its own order only, and takes from what it holds.
LEMMA OrderCallTakes ==
  ASSUME FundsInv, NEW i \in Intent, OrderCall(i)
  PROVE  MovesOrder(i) /\ \E d, rest \in Nat : Takes(i, d, rest)
<1>1. /\ OrderInv /\ OrderTypes /\ IntentSound(i) /\ PlanOf[i] \in Plan
      /\ order \in [Intent -> OrderLifecycle] /\ planLifecycle \in [Plan -> PlanLifecycle]
  BY PlanAssumption DEF FundsInv, OrderInv, OrderTypes
<1>m. ASSUME order[i] # "FILLED", NEW s, SetOrder(i, s), NEW l, SetLifecycle(PlanOf[i], l),
             l # "SETTLED"
      PROVE  MovesOrder(i)
  BY <1>m, <1>1 DEF MovesOrder, SetOrder, SetLifecycle
<1>r. \A o : Refreshed(PlanOf[i], o) # "SETTLED"
  BY RefreshedFacts
<1>2. CASE Submit(i) \/ Acknowledge(i) \/ MarkUnknown(i)
  <2>1. /\ order[i] # "FILLED" /\ UNCHANGED <<ledgerVars, deployedByVenue, lockedCapital>>
        /\ \E s, l : SetOrder(i, s) /\ SetLifecycle(PlanOf[i], l) /\ l # "SETTLED"
    BY <1>2 DEF Submit, Acknowledge, MarkUnknown
  <2> QED BY <2>1, <1>m, NothingTaken
<1>3. CASE Reject(i) \/ Cancel(i)
  <2>1. /\ order[i] \in {"SUBMITTING", "ACKNOWLEDGED", "PARTIAL"} /\ ReleaseIntent(i)
        /\ UNCHANGED <<deployedByVenue, lockedCapital>>
        /\ \E s, l : SetOrder(i, s) /\ SetLifecycle(PlanOf[i], l) /\ l # "SETTLED"
    BY <1>3 DEF Reject, Cancel
  <2>2. reservation[i].status # "RELEASED" /\ order[i] # "FILLED"
    BY <1>1, <2>1 DEF IntentSound, Final
  <2> QED BY <2>1, <2>2, <1>m, ReleaseTakes
<1>4. ASSUME NEW q \in 1..Quantity[i], NEW d \in Amount, Fill(i, q, d)
      PROVE  MovesOrder(i) /\ \E e, rest \in Nat : Takes(i, e, rest)
  <2>1. /\ order[i] # "FILLED" /\ UNCHANGED lockedCapital /\ d \in Nat
        /\ \E s : SetOrder(i, s) /\ SetLifecycle(PlanOf[i], Refreshed(PlanOf[i], order'))
    BY <1>4, LedgerAssumption DEF Fill
  <2>2. PICK done \in BOOLEAN : DebitIntent(i, d, done)
    BY <1>4 DEF Fill
  <2> QED BY <2>1, <2>2, <1>m, <1>r, DebitTakes
<1>5. ASSUME NEW s \in OrderLifecycle \ {"INTENT", "SUBMITTING", "UNKNOWN"},
             NEW q \in 0..Quantity[i], NEW d \in Amount, ReconcileUnknown(i, s, q, d)
      PROVE  MovesOrder(i) /\ \E e, rest \in Nat : Takes(i, e, rest)
  <2>1. /\ order[i] = "UNKNOWN" /\ UNCHANGED lockedCapital /\ d \in Nat
        /\ SetOrder(i, s) /\ SetLifecycle(PlanOf[i], Refreshed(PlanOf[i], order'))
    BY <1>5, LedgerAssumption DEF ReconcileUnknown, CanReconcile
  <2>2. PICK done \in BOOLEAN :
          \/ DebitIntent(i, d, done)
          \/ (ReleaseIntent(i) \/ UNCHANGED ledgerVars) /\ UNCHANGED deployedByVenue
    BY <1>5, ReconcileDebitsOrReleases
  <2>3. MovesOrder(i)
    BY <2>1, <1>m, <1>r
  <2>4. CASE DebitIntent(i, d, done)
    BY <2>1, <2>3, <2>4, DebitTakes
  <2>5. CASE ReleaseIntent(i) /\ UNCHANGED deployedByVenue
    <3>1. reservation[i].status # "RELEASED"
      BY <1>1, <2>1 DEF IntentSound, Final
    <3> QED BY <2>1, <2>3, <2>5, <3>1, ReleaseTakes
  <2>6. CASE UNCHANGED <<ledgerVars, deployedByVenue>>
    BY <2>1, <2>3, <2>6, NothingTaken
  <2> QED BY <2>2, <2>4, <2>5, <2>6
<1> QED BY <1>2, <1>3, <1>4, <1>5 DEF OrderCall

\* What a venue's intents hold, whether or not they were ever reserved.
LEMMA HeldByVenue ==
  ASSUME FundsInv, NEW v \in Venue
  PROVE  /\ Held(v) \in [Intent -> Nat]
         /\ \A i \in Intent :
              Held(v)[i] = IF VenueOf[i] = v THEN reservation[i].remaining ELSE 0
<1>1. \A i \in Intent : reservation[i].remaining \in Nat
  BY DEF FundsInv, OrderInv, OrderTypes, Reservation, IntentSound
<1>2. \A i \in Intent : reservation[i].remaining > 0 => reservation[i].venue = VenueOf[i]
  BY DEF FundsInv, Placed
<1>3. \A i \in Intent :
        HeldAt(v, i) = IF VenueOf[i] = v THEN reservation[i].remaining ELSE 0
  BY <1>1, <1>2 DEF HeldAt
<1> QED BY <1>1, <1>3 DEF Held, Intent

\* Taking d and rest lowers the reserved bucket and what backs it alike.
LEMMA TakesKeepsBacking ==
  ASSUME FundsInv, NEW i \in Intent, NEW d \in Nat, NEW rest \in Nat, Takes(i, d, rest)
  PROVE  ReservedIsBacked'
<1> SUFFICES ASSUME NEW w \in Venue
             PROVE  capital'[w]["reserved"] = SumFunctionOnSet(Held(w)', ReservationId)
  BY DEF ReservedIsBacked
<1> DEFINE f == Held(w)
           g == Held(w)'
           e == IF w = VenueOf[i] THEN -(d + rest) ELSE 0
<1>1. /\ f \in [Intent -> Nat]
      /\ f[i] = IF VenueOf[i] = w THEN reservation[i].remaining ELSE 0
      /\ capital[w]["reserved"] = SumFunctionOnSet(f, Intent)
      /\ capital[w]["reserved"] \in Int
  BY HeldByVenue DEF FundsInv, ReservedIsBacked, MoneyTypes, Bucket, Intent
<1>2. /\ reservation[i].remaining \in Nat /\ d + rest <= reservation[i].remaining
      /\ reservation[i].remaining > 0 => reservation[i].venue = VenueOf[i]
      /\ reservation'[i].remaining = reservation[i].remaining - d - rest
      /\ reservation'[i].venue = reservation[i].venue
  BY DEF FundsInv, OrderInv, OrderTypes, Reservation, IntentSound, Placed, Takes
<1>3. g[i] = HeldAt(w, i)' /\ \A j \in Intent \ {i} : g[j] = f[j]
  BY DEF Held, HeldAt, Takes, Intent
<1>4. HeldAt(w, i)' = f[i] + e
  BY <1>1, <1>2 DEF HeldAt
<1>5. capital'[w]["reserved"] = capital[w]["reserved"] + e
  BY <1>1 DEF Takes
<1>6. SumFunctionOnSet(g, Intent) = SumFunctionOnSet(f, Intent) + e
  <2>1. e \in Int /\ IsFiniteSet(Intent) /\ g[i] = f[i] + e
    BY <1>3, <1>4, ReservationIdsAreFinite DEF Intent
  <2>2. \A j \in Intent : f[j] \in Int
    BY <1>1
  <2> HIDE DEF e, f, g
  <2> QED BY <1>3, <2>1, <2>2, SumOfChange
<1> QED BY <1>1, <1>5, <1>6 DEF Intent

\* The attribution of a venue's capital, at each venue.
AttributedAt(v) ==
  /\ capital[v]["deployed"] = SumFunctionOnSet(DeployedAt(v), Unlocked)
  /\ capital[v]["unresolved"] = SumFunctionOnSet(DeployedAt(v), Unsettled)
  /\ \A p \in Plan :
       deployedByVenue[p][v] = SumFunctionOnSet(Consumed, IntentsAt(p, v))

\* The sums of the attribution are over finite sets of numbers.
LEMMA AttributionFacts ==
  ASSUME FundsInv, NEW v \in Venue
  PROVE  /\ AttributedAt(v)
         /\ IsFiniteSet(Unlocked) /\ IsFiniteSet(Unsettled)
         /\ Unlocked \subseteq Plan /\ Unsettled \subseteq Plan
         /\ \A p \in Plan : DeployedAt(v)[p] = deployedByVenue[p][v]
                              /\ DeployedAt(v)[p] \in Nat
         /\ \A i \in Intent : Consumed[i] = reservation[i].consumed /\ Consumed[i] \in Nat
<1>1. Unlocked \subseteq Plan /\ Unsettled \subseteq Plan
  BY DEF Unlocked, Unsettled
<1>2. IsFiniteSet(Unlocked) /\ IsFiniteSet(Unsettled)
  BY <1>1, PlanAssumption, FS_Subset
<1>3. AttributedAt(v)
  BY DEF FundsInv, DeployedIsAttributed, AttributedAt
<1>4. \A p \in Plan : DeployedAt(v)[p] = deployedByVenue[p][v] /\ DeployedAt(v)[p] \in Nat
  BY DEF FundsInv, MoneyTypes, DeployedAt
<1>5. \A i \in Intent : reservation[i].consumed \in Nat
  BY DEF FundsInv, OrderInv, OrderTypes, Reservation, IntentSound
<1> QED BY <1>1, <1>2, <1>3, <1>4, <1>5 DEF Consumed

\* An order step's plan is not locked: it stays where its capital is counted.
LEMMA TakesKeepsPlans ==
  ASSUME FundsInv, NEW i \in Intent, MovesOrder(i), UNCHANGED lockedCapital
  PROVE  /\ PlanOf[i] \in Unlocked /\ PlanOf[i] \notin Unsettled
         /\ Unlocked' = Unlocked /\ Unsettled' = Unsettled
<1>1. PlanOf[i] \in Plan /\ ~lockedCapital[PlanOf[i]]
  BY PlanAssumption DEF FundsInv, LockedFilled, MovesOrder
<1>2. \A q \in Plan : lockedCapital[q] => planLifecycle'[q] = planLifecycle[q]
  BY <1>1 DEF MovesOrder
<1> QED BY <1>1, <1>2 DEF Unlocked, Unsettled

\* A fill adds its debit to the venue's deployed bucket, to its plan's part of
\* it, and to what its intent has consumed.
LEMMA TakesKeepsAttribution ==
  ASSUME FundsInv, NEW i \in Intent, NEW d \in Nat, NEW rest \in Nat,
         Takes(i, d, rest), MovesOrder(i)
  PROVE  DeployedIsAttributed'
<1> SUFFICES ASSUME NEW w \in Venue PROVE AttributedAt(w)'
  BY DEF DeployedIsAttributed, AttributedAt
<1> DEFINE k == PlanOf[i]
           f == DeployedAt(w)
           g == DeployedAt(w)'
           c == Consumed
           e == Consumed'
           n == IF w = VenueOf[i] THEN d ELSE 0
<1>1. /\ AttributedAt(w)
      /\ IsFiniteSet(Unlocked) /\ IsFiniteSet(Unsettled)
      /\ Unlocked \subseteq Plan /\ Unsettled \subseteq Plan
      /\ \A p \in Plan : f[p] = deployedByVenue[p][w] /\ f[p] \in Nat
      /\ \A j \in Intent : c[j] = reservation[j].consumed /\ c[j] \in Nat
  BY AttributionFacts
<1>2. k \in Unlocked /\ k \notin Unsettled /\ Unlocked' = Unlocked /\ Unsettled' = Unsettled
  BY TakesKeepsPlans DEF Takes
<1>3. /\ g[k] = f[k] + n /\ \A q \in Plan \ {k} : g[q] = f[q]
      /\ \A q \in Plan : deployedByVenue'[q][w] = g[q]
  <2>1. \A q \in Plan : g[q] = deployedByVenue'[q][w]
    BY DEF DeployedAt
  <2>2. k \in Plan /\ f[k] = deployedByVenue[k][w] /\ f[k] \in Nat
    BY <1>1, <1>2
  <2>3. deployedByVenue'[k][w] = deployedByVenue[k][w] + n
    BY <2>2 DEF Takes
  <2>4. \A q \in Plan \ {k} : deployedByVenue'[q][w] = deployedByVenue[q][w]
    BY DEF Takes
  <2> HIDE DEF f, g, n, k
  <2> QED BY <1>1, <2>1, <2>2, <2>3, <2>4
<1>4. /\ e[i] = c[i] + d /\ \A j \in Intent \ {i} : e[j] = c[j]
  BY DEF Takes, Consumed
<1>5. /\ capital'[w]["deployed"] = capital[w]["deployed"] + n
      /\ capital'[w]["unresolved"] = capital[w]["unresolved"]
  <2>1. capital[w]["deployed"] \in Int
    BY DEF FundsInv, MoneyTypes, Bucket
  <2> QED BY <2>1 DEF Takes
<1>6. n \in Int /\ d \in Int
  OBVIOUS
<1>7. SumFunctionOnSet(g, Unlocked) = SumFunctionOnSet(f, Unlocked) + n
  <2> HIDE DEF f, g, k, n
  <2>1. \A q \in Unlocked : f[q] \in Int
    BY <1>1
  <2> QED BY <1>1, <1>2, <1>3, <1>6, <2>1, SumOfChange
<1>8. SumFunctionOnSet(g, Unsettled) = SumFunctionOnSet(f, Unsettled)
  <2> HIDE DEF f, g, k, n
  <2>1. \A q \in Unsettled : g[q] = f[q]
    BY <1>1, <1>2, <1>3
  <2> QED BY <1>1, <2>1, SumOfSame
<1>9. ASSUME NEW q \in Plan
      PROVE  deployedByVenue'[q][w] = SumFunctionOnSet(e, IntentsAt(q, w))
  <2>1. /\ IsFiniteSet(IntentsAt(q, w)) /\ IntentsAt(q, w) \subseteq Intent
        /\ i \in IntentsAt(q, w) <=> q = k /\ w = VenueOf[i]
    <3>1. IsFiniteSet(IntentsAt(q, w))
      BY PlanDebitIsNat
    <3>2. IntentsAt(q, w) \subseteq Intent
      BY ZenonT(30) DEF IntentsAt, IntentsOf
    <3>3. i \in IntentsAt(q, w) <=> PlanOf[i] = q /\ VenueOf[i] = w
      BY ZenonT(30) DEF IntentsAt, IntentsOf
    <3> QED BY <3>1, <3>2, <3>3
  <2>2. deployedByVenue[q][w] = SumFunctionOnSet(c, IntentsAt(q, w))
    BY <1>1 DEF AttributedAt
  <2>3. \A j \in IntentsAt(q, w) : c[j] \in Int
    BY <1>1, <2>1
  <2>4. CASE i \in IntentsAt(q, w)
    <3>1. SumFunctionOnSet(e, IntentsAt(q, w)) = SumFunctionOnSet(c, IntentsAt(q, w)) + d
      <4>1. \A j \in IntentsAt(q, w) \ {i} : e[j] = c[j]
        BY <1>4, <2>1
      <4> HIDE DEF c, e
      <4> QED BY <1>4, <1>6, <2>1, <2>3, <2>4, <4>1, SumOfChange
    <3>2. g[k] = f[k] + d /\ q = k
      BY <1>3, <2>1, <2>4
    <3> HIDE DEF c, e, f, g, k
    <3> QED BY <1>1, <1>3, <2>2, <3>1, <3>2
  <2>5. CASE i \notin IntentsAt(q, w)
    <3>1. SumFunctionOnSet(e, IntentsAt(q, w)) = SumFunctionOnSet(c, IntentsAt(q, w))
      <4>1. \A j \in IntentsAt(q, w) : e[j] = c[j]
        BY <1>4, <2>1, <2>5
      <4> HIDE DEF c, e
      <4> QED BY <2>1, <4>1, SumOfSame
    <3>2. g[q] = f[q]
      <4>1. q # k \/ n = 0
        BY <2>1, <2>5
      <4>2. f[q] \in Nat
        BY <1>1
      <4> HIDE DEF f, g, k, n
      <4> QED BY <1>3, <4>1, <4>2
    <3> HIDE DEF c, e, f, g
    <3> QED BY <1>1, <1>3, <2>2, <3>1, <3>2
  <2> QED BY <2>4, <2>5
<1>10. SumFunctionOnSet(DeployedAt(w)', Unlocked') = capital'[w]["deployed"]
       /\ SumFunctionOnSet(DeployedAt(w)', Unsettled') = capital'[w]["unresolved"]
  BY <1>1, <1>2, <1>5, <1>7, <1>8 DEF AttributedAt
<1> QED BY <1>9, <1>10 DEF AttributedAt

LEMMA TakesKeepsFunds ==
  ASSUME FundsInv, NEW i \in Intent, NEW d \in Nat, NEW rest \in Nat,
         Takes(i, d, rest), MovesOrder(i), OrderInv', MoneyTypes'
  PROVE  FundsInv'
<1>1. Placed'
  <2>1. reservation[i].remaining \in Int
    BY DEF FundsInv, OrderInv, OrderTypes, Reservation
  <2> QED BY <2>1 DEF FundsInv, Placed, Takes
<1>2. LockedFilled'
  BY DEF FundsInv, LockedFilled, Takes, MovesOrder
<1>3. \A v \in Venue : capital'[v]["available"] >= 0 /\ capital'[v]["receivable"] >= 0
  <2>1. \A v \in Venue, b \in Bucket : capital[v][b] \in Int
    BY DEF FundsInv, MoneyTypes
  <2> QED BY <2>1 DEF FundsInv, Takes, Bucket
<1> QED BY <1>1, <1>2, <1>3, TakesKeepsBacking, TakesKeepsAttribution DEF FundsInv

-----------------------------------------------------------------------------
(* The calls about a plan *)

\* A step that leaves the capital, what the reservations hold and have consumed,
\* and what is locked and settled where they are.
LEMMA FundsUntouched ==
  ASSUME FundsInv, OrderInv', MoneyTypes', Placed', LockedFilled',
         UNCHANGED <<capital, deployedByVenue, lockedCapital>>,
         \A i \in Intent : /\ reservation'[i].consumed = reservation[i].consumed
                           /\ \A v \in Venue : HeldAt(v, i)' = HeldAt(v, i),
         \A p \in Plan : lockedCapital[p] =>
           (planLifecycle'[p] = "SETTLED" <=> planLifecycle[p] = "SETTLED")
  PROVE  FundsInv'
<1>1. /\ Unlocked' = Unlocked /\ Unsettled' = Unsettled
      /\ Consumed' = Consumed /\ \A v : DeployedAt(v)' = DeployedAt(v)
  BY DEF Unlocked, Unsettled, Consumed, DeployedAt
<1>2. \A v \in Venue : Held(v)' = Held(v)
  BY DEF Held, Intent
<1>3. ReservedIsBacked' /\ DeployedIsAttributed'
  BY <1>1, <1>2 DEF FundsInv, ReservedIsBacked, DeployedIsAttributed
<1> QED BY <1>3 DEF FundsInv

\* Reserving each intent in turn asks the venue for the sum of them all.
LEMMA PlanIsFunded ==
  ASSUME FundsInv, NEW p \in Plan, NEW v \in Venue,
         \A i \in IntentsOf(p) : Reservable(i)
  PROVE  PlanDebit(p, v) <= capital[v]["available"]
<1> DEFINE S == IntentsAt(p, v)
<1>1. IsFiniteSet(S) /\ S \subseteq IntentsOf(p) /\ S \subseteq Int
  <2>1. IsFiniteSet(S)
    BY PlanDebitIsNat
  <2>2. S \subseteq IntentsOf(p) /\ IntentsOf(p) \subseteq Intent
    BY DEF IntentsAt, IntentsOf
  <2>3. Intent \subseteq Int
    BY LedgerAssumption DEF Intent, ReservationId
  <2> QED BY <2>1, <2>2, <2>3
<1>2. CASE S = {}
  <2>1. PlanDebit(p, v) = 0
    BY <1>2, SumOfNothing DEF PlanDebit
  <2> QED BY <2>1 DEF FundsInv
<1>3. CASE S # {}
  <2>1. PICK n \in S : \A k \in S : k <= n
    BY <1>1, <1>3, GreatestElement
  <2>2. PlanOf[n] = p /\ VenueOf[n] = v /\ Reservable(n)
    BY <1>1 DEF IntentsAt, IntentsOf
  <2>3. {k \in IntentsAt(PlanOf[n], VenueOf[n]) : k <= n} = S
    BY <2>1, <2>2
  <2>4. DebitUpTo(n) = PlanDebit(p, v)
    BY <2>3 DEF DebitUpTo, PlanDebit
  <2> QED BY <2>2, <2>4 DEF Reservable
<1> QED BY <1>2, <1>3

\* What reserving a plan does to each venue.
LEMMA ReserveMoves ==
  ASSUME FundsInv, NEW p \in Plan, ReservePlan(p), NEW v \in Venue
  PROVE  /\ PlanDebit(p, v) \in Nat /\ PlanDebit(p, v) <= capital[v]["available"]
         /\ capital'[v]["available"] = capital[v]["available"] - PlanDebit(p, v)
         /\ capital'[v]["reserved"] = capital[v]["reserved"] + PlanDebit(p, v)
         /\ \A b \in {"deployed", "unresolved", "receivable"} : capital'[v][b] = capital[v][b]
<1>1. capital'[v] = [capital[v] EXCEPT !["available"] = @ - PlanDebit(p, v),
                                       !["reserved"] = @ + PlanDebit(p, v)]
  BY DEF ReservePlan
<1>2. capital[v] \in [Bucket -> Int]
  BY DEF FundsInv, MoneyTypes
<1>3. \A i \in IntentsOf(p) : Reservable(i)
  BY DEF ReservePlan
<1>4. PlanDebit(p, v) \in Nat /\ PlanDebit(p, v) <= capital[v]["available"]
  BY <1>3, PlanIsFunded, PlanDebitIsNat
<1> QED BY <1>1, <1>2, <1>4 DEF Bucket

\* Reserving a plan moves its debit at each venue to the reserved bucket, where
\* the new reservations back it.
LEMMA ReservePlanKeepsFunds ==
  ASSUME FundsInv, NEW p \in Plan, ReservePlan(p), OrderInv', MoneyTypes'
  PROVE  FundsInv'
<1>1. /\ ~Registered(p) /\ SetLifecycle(p, "RESERVED")
      /\ UNCHANGED <<order, deployedByVenue, lockedCapital>>
      /\ \A i \in Intent : reservation'[i] =
           IF PlanOf[i] = p THEN OpenReservation(VenueOf[i], MaxDebit[i]) ELSE reservation[i]
      /\ \A i \in IntentsOf(p) : Reservable(i)
  BY DEF ReservePlan
<1>2. \A i \in Intent : PlanOf[i] = p =>
        reservation[i].remaining = 0 /\ reservation[i].consumed = 0
  BY <1>1 DEF FundsInv, OrderInv, IntentSound
<1>o. /\ \A i \in Intent : PlanOf[i] = p =>
           /\ reservation'[i].venue = VenueOf[i] /\ reservation'[i].consumed = 0
           /\ reservation'[i].remaining = MaxDebit[i]
      /\ \A i \in Intent : PlanOf[i] # p => reservation'[i] = reservation[i]
  <2>1. \A v, n : /\ OpenReservation(v, n).venue = v /\ OpenReservation(v, n).consumed = 0
                  /\ OpenReservation(v, n).remaining = n
    BY DEF OpenReservation
  <2> QED BY <1>1, <2>1
<1>3. \A i \in Intent : MaxDebit[i] \in Nat /\ PlanOf[i] \in Plan /\ VenueOf[i] \in Venue
  BY PlanAssumption
<1>4. \A v \in Venue : \A b \in Bucket : capital[v][b] \in Int
  BY DEF FundsInv, MoneyTypes
<1>5. \A v \in Venue :
        /\ PlanDebit(p, v) \in Nat /\ PlanDebit(p, v) <= capital[v]["available"]
        /\ capital'[v]["available"] = capital[v]["available"] - PlanDebit(p, v)
        /\ capital'[v]["reserved"] = capital[v]["reserved"] + PlanDebit(p, v)
        /\ \A b \in {"deployed", "unresolved", "receivable"} : capital'[v][b] = capital[v][b]
  BY ReserveMoves
<1>6. Placed'
  BY <1>o DEF FundsInv, Placed
<1>7. LockedFilled'
  BY <1>1 DEF FundsInv, LockedFilled
<1>8. ASSUME NEW v \in Venue
      PROVE  capital'[v]["available"] >= 0 /\ capital'[v]["receivable"] >= 0
  <2>1. capital[v]["available"] \in Int /\ capital[v]["receivable"] >= 0
    BY <1>4 DEF FundsInv, Bucket
  <2> QED BY <1>5, <2>1
<1>9. DeployedIsAttributed'
  <2>1. \A i \in Intent : reservation'[i].consumed = reservation[i].consumed
    BY <1>2, <1>o
  <2>2. Consumed' = Consumed /\ Unlocked' = Unlocked /\ \A v : DeployedAt(v)' = DeployedAt(v)
    BY <1>1, <2>1 DEF Consumed, Unlocked, DeployedAt
  <2>3. Unsettled' = Unsettled
    <3>1. \A q \in Plan : planLifecycle'[q] = "SETTLED" <=> planLifecycle[q] = "SETTLED"
      BY <1>1 DEF SetLifecycle, FundsInv, OrderInv, OrderTypes, Registered
    <3> QED BY <1>1, <3>1 DEF Unsettled
  <2> QED BY <1>1, <1>5, <2>2, <2>3 DEF FundsInv, DeployedIsAttributed
<1>10. ASSUME NEW v \in Venue
       PROVE  capital'[v]["reserved"] = SumFunctionOnSet(Held(v)', ReservationId)
  <2> DEFINE S == IntentsAt(p, v)
             f == Held(v)
             g == Held(v)'
             rest == Intent \ S
  <2>1. /\ f \in [Intent -> Nat]
        /\ \A i \in Intent : f[i] = IF VenueOf[i] = v THEN reservation[i].remaining ELSE 0
        /\ capital[v]["reserved"] = SumFunctionOnSet(f, Intent)
    BY HeldByVenue DEF FundsInv, ReservedIsBacked, Intent
  <2>2. /\ IsFiniteSet(Intent) /\ IsFiniteSet(S) /\ S \in SUBSET Intent /\ IsFiniteSet(rest)
    BY PlanDebitIsNat, FS_Subset DEF IntentsAt, IntentsOf
  <2>3. ASSUME NEW i \in Intent PROVE g[i] = IF i \in S THEN MaxDebit[i] ELSE f[i]
    <3>1. g[i] = HeldAt(v, i)'
      BY DEF Held, Intent
    <3>2. CASE i \in S
      BY <1>o, <3>1, <3>2 DEF HeldAt, IntentsAt, IntentsOf
    <3>3. CASE PlanOf[i] = p /\ VenueOf[i] # v
      <4>1. f[i] = 0 /\ i \notin S
        BY <2>1, <3>3 DEF IntentsAt
      <4>2. HeldAt(v, i)' = 0
        BY <1>o, <3>3 DEF HeldAt
      <4> QED BY <3>1, <4>1, <4>2
    <3>4. CASE PlanOf[i] # p
      BY <1>o, <3>1, <3>4 DEF Held, HeldAt, IntentsAt, IntentsOf, Intent
    <3> QED BY <3>2, <3>3, <3>4 DEF IntentsAt, IntentsOf
  <2>4. \A i \in S : f[i] = 0
    BY <1>2, <2>1 DEF IntentsAt, IntentsOf
  <2> HIDE DEF f, g
  <2>5. \A i \in Intent : f[i] \in Int /\ g[i] \in Int
    BY <1>3, <2>1, <2>3
  <2>6. /\ SumFunctionOnSet(f, Intent) = SumFunctionOnSet(f, S) + SumFunctionOnSet(f, rest)
        /\ SumFunctionOnSet(g, Intent) = SumFunctionOnSet(g, S) + SumFunctionOnSet(g, rest)
    BY <2>2, <2>5, SumOfParts
  <2>7. SumFunctionOnSet(f, S) = 0
    BY <2>2, <2>4, SumOfZeros
  <2>8. SumFunctionOnSet(g, S) = PlanDebit(p, v)
    <3>1. \A i \in S : g[i] = MaxDebit[i]
      BY <2>2, <2>3
    <3> QED BY <2>2, <3>1, SumOfSame DEF PlanDebit
  <2>9. SumFunctionOnSet(g, rest) = SumFunctionOnSet(f, rest)
    <3>1. \A i \in rest : g[i] = f[i]
      BY <2>3
    <3> QED BY <2>2, <3>1, SumOfSame
  <2>10. SumFunctionOnSet(f, rest) \in Int /\ PlanDebit(p, v) \in Int
    <3>1. \A i \in rest : f[i] \in Int
      BY <2>5
    <3> QED BY <2>2, <3>1, SumIsInt, PlanDebitIsNat
  <2> HIDE DEF S, rest
  <2>11. SumFunctionOnSet(g, Intent) = SumFunctionOnSet(f, Intent) + PlanDebit(p, v)
    BY <2>6, <2>7, <2>8, <2>9, <2>10
  <2> QED BY <1>5, <2>1, <2>11 DEF Intent, g
<1> QED BY <1>6, <1>7, <1>8, <1>9, <1>10 DEF FundsInv, ReservedIsBacked

\* What locking a plan does to each venue.
LEMMA LockMoves ==
  ASSUME FundsInv, NEW p \in Plan, LockCapitalForResolution(p), NEW v \in Venue
  PROVE  /\ deployedByVenue[p][v] \in Nat
         /\ capital'[v]["deployed"] = capital[v]["deployed"] - deployedByVenue[p][v]
         /\ capital'[v]["unresolved"] = capital[v]["unresolved"] + deployedByVenue[p][v]
         /\ \A b \in {"available", "reserved", "receivable"} : capital'[v][b] = capital[v][b]
<1>1. capital'[v] = [capital[v] EXCEPT !["deployed"] = @ - deployedByVenue[p][v],
                                       !["unresolved"] = @ + deployedByVenue[p][v]]
  BY DEF LockCapitalForResolution
<1>2. capital[v] \in [Bucket -> Int] /\ deployedByVenue[p][v] \in Nat
  BY DEF FundsInv, MoneyTypes
<1> QED BY <1>1, <1>2 DEF Bucket

\* What settling a plan does to each venue: a venue where the plan deployed
\* nothing is left alone.
LEMMA SettleMoves ==
  ASSUME FundsInv, NEW p \in Plan, NEW receivable \in [Venue -> Amount],
         SettlePlan(p, receivable), NEW v \in Venue
  PROVE  /\ deployedByVenue[p][v] \in Nat
         /\ capital[v]["unresolved"] >= deployedByVenue[p][v]
         /\ capital'[v]["unresolved"] = capital[v]["unresolved"] - deployedByVenue[p][v]
         /\ \A b \in {"available", "reserved", "deployed"} : capital'[v][b] = capital[v][b]
         /\ \E n \in Nat :
              /\ deployedByVenue[p][v] = 0 => n = 0
              /\ capital'[v]["receivable"] = capital[v]["receivable"] + n
              /\ realizedPnl'[v] = realizedPnl[v] + n - deployedByVenue[p][v]
<1> DEFINE n == IF deployedByVenue[p][v] > 0 THEN receivable[v] ELSE 0
<1>1. capital[v] \in [Bucket -> Int] /\ deployedByVenue[p][v] \in Nat
  BY DEF FundsInv, MoneyTypes
<1>2. n \in Nat /\ (deployedByVenue[p][v] = 0 => n = 0)
  <2>1. receivable[v] \in Nat
    BY LedgerAssumption
  <2> QED BY <1>1, <2>1
<1>3. /\ capital'[v] = [capital[v] EXCEPT !["unresolved"] = @ - deployedByVenue[p][v],
                                          !["receivable"] = @ + n]
      /\ realizedPnl'[v] = realizedPnl[v] + n - deployedByVenue[p][v]
      /\ capital[v]["unresolved"] >= deployedByVenue[p][v]
  BY DEF SettlePlan
<1> HIDE DEF n
<1>4. /\ capital'[v]["unresolved"] = capital[v]["unresolved"] - deployedByVenue[p][v]
      /\ capital'[v]["receivable"] = capital[v]["receivable"] + n
      /\ \A b \in {"available", "reserved", "deployed"} : capital'[v][b] = capital[v][b]
  BY <1>1, <1>3 DEF Bucket
<1> QED BY <1>1, <1>2, <1>3, <1>4

\* Nothing but what plan p deployed goes from deployed to unresolved.
LEMMA LockKeepsFunds ==
  ASSUME FundsInv, NEW p \in Plan, LockCapitalForResolution(p), OrderInv', MoneyTypes'
  PROVE  FundsInv'
<1>1. /\ planLifecycle[p] = "LOCKED" /\ ~lockedCapital[p]
      /\ lockedCapital' = [lockedCapital EXCEPT ![p] = TRUE]
      /\ UNCHANGED <<reservation, planLifecycle, order, deployedByVenue>>
      /\ lockedCapital \in [Plan -> BOOLEAN]
  BY DEF LockCapitalForResolution, FundsInv, MoneyTypes
<1>2. /\ p \in Unlocked /\ Unlocked' = Unlocked \ {p}
      /\ p \in Unsettled' /\ Unsettled' \ {p} = Unsettled
  BY <1>1 DEF Unlocked, Unsettled
<1>3. Placed' /\ ReservedIsBacked'
  <2>1. \A v \in Venue : Held(v)' = Held(v) /\ capital'[v]["reserved"] = capital[v]["reserved"]
    BY <1>1, LockMoves DEF Held, HeldAt
  <2> QED BY <1>1, <2>1 DEF FundsInv, Placed, ReservedIsBacked
<1>4. LockedFilled'
  <2>1. \A i \in Intent : PlanOf[i] = p => order[i] = "FILLED"
    BY <1>1 DEF FundsInv, OrderInv, OrdersFilled
  <2> QED BY <1>1, <2>1, PlanAssumption DEF FundsInv, LockedFilled
<1>5. ASSUME NEW v \in Venue
      PROVE  AttributedAt(v)' /\ capital'[v]["available"] >= 0 /\ capital'[v]["receivable"] >= 0
  <2> DEFINE f == DeployedAt(v)
  <2>1. /\ AttributedAt(v)
        /\ IsFiniteSet(Unlocked) /\ IsFiniteSet(Unsettled) /\ Unlocked \subseteq Plan
        /\ \A q \in Plan : f[q] = deployedByVenue[q][v] /\ f[q] \in Nat
    BY AttributionFacts
  <2>2. IsFiniteSet(Unsettled') /\ Unsettled' \subseteq Plan
    <3>1. Unsettled' \subseteq Plan
      BY DEF Unsettled
    <3> QED BY <3>1, PlanAssumption, FS_Subset
  <2>3. DeployedAt(v)' = f /\ Consumed' = Consumed
    BY <1>1 DEF DeployedAt, Consumed
  <2>4. \A q \in Unlocked \union Unsettled' : f[q] \in Int
    BY <2>1, <2>2
  <2> HIDE DEF f
  <2>5. SumFunctionOnSet(f, Unlocked) = f[p] + SumFunctionOnSet(f, Unlocked \ {p})
    BY <1>2, <2>1, <2>4, SumWithout
  <2>6. SumFunctionOnSet(f, Unsettled') = f[p] + SumFunctionOnSet(f, Unsettled' \ {p})
    <3> DEFINE T == Unsettled'
    <3>1. IsFiniteSet(T) /\ p \in T /\ \A q \in T : f[q] \in Int
      BY <1>2, <2>2, <2>4
    <3> HIDE DEF T
    <3>2. SumFunctionOnSet(f, T) = f[p] + SumFunctionOnSet(f, T \ {p})
      BY <3>1, SumWithout
    <3> QED BY <3>2 DEF T
  <2>7. /\ capital[v]["deployed"] = SumFunctionOnSet(f, Unlocked)
        /\ capital[v]["unresolved"] = SumFunctionOnSet(f, Unsettled)
        /\ \A q \in Plan : deployedByVenue[q][v] = SumFunctionOnSet(Consumed, IntentsAt(q, v))
    BY <2>1 DEF AttributedAt, f
  <2>8. SumFunctionOnSet(f, Unlocked \ {p}) \in Int /\ f[p] \in Int
    <3>1. IsFiniteSet(Unlocked \ {p}) /\ \A q \in Unlocked \ {p} : f[q] \in Int
      BY <2>1, <2>4, FS_Subset
    <3> QED BY <1>2, <2>4, <3>1, SumIsInt
  <2>9. /\ capital'[v]["deployed"] = capital[v]["deployed"] - f[p]
        /\ capital'[v]["unresolved"] = capital[v]["unresolved"] + f[p]
        /\ \A b \in {"available", "reserved", "receivable"} : capital'[v][b] = capital[v][b]
        /\ capital[v]["unresolved"] \in Int
    BY <2>1, LockMoves DEF FundsInv, MoneyTypes, Bucket
  <2>10. /\ capital'[v]["deployed"] = SumFunctionOnSet(f, Unlocked')
         /\ capital'[v]["unresolved"] = SumFunctionOnSet(f, Unsettled')
    <3>1. SumFunctionOnSet(f, Unlocked') = SumFunctionOnSet(f, Unlocked \ {p})
      BY <1>2
    <3>2. SumFunctionOnSet(f, Unsettled' \ {p}) = SumFunctionOnSet(f, Unsettled)
      BY <1>2
    <3> QED BY <3>1, <3>2, <2>5, <2>6, <2>7, <2>8, <2>9
  <2>11. AttributedAt(v)'
    BY <1>1, <2>3, <2>7, <2>10 DEF AttributedAt
  <2>12. capital[v]["available"] >= 0 /\ capital[v]["receivable"] >= 0
    BY DEF FundsInv
  <2> QED BY <2>9, <2>11, <2>12
<1>6. DeployedIsAttributed'
  BY <1>5 DEF DeployedIsAttributed, AttributedAt
<1> QED BY <1>3, <1>4, <1>5, <1>6 DEF FundsInv

\* Nothing but what plan p deployed leaves the unresolved bucket.
LEMMA SettleKeepsFunds ==
  ASSUME FundsInv, NEW p \in Plan, NEW receivable \in [Venue -> Amount],
         SettlePlan(p, receivable), OrderInv', MoneyTypes'
  PROVE  FundsInv'
<1>1. /\ planLifecycle[p] = "LOCKED" /\ lockedCapital[p]
      /\ planLifecycle' = [planLifecycle EXCEPT ![p] = "SETTLED"]
      /\ UNCHANGED <<reservation, order, deployedByVenue, lockedCapital>>
      /\ planLifecycle \in [Plan -> PlanLifecycle]
  BY DEF SettlePlan, SetLifecycle, FundsInv, OrderInv, OrderTypes
<1>2. p \in Unsettled /\ Unlocked' = Unlocked /\ Unsettled' = Unsettled \ {p}
  BY <1>1 DEF Unlocked, Unsettled
<1>3. Placed' /\ LockedFilled' /\ ReservedIsBacked'
  <2>1. \A v \in Venue : Held(v)' = Held(v) /\ capital'[v]["reserved"] = capital[v]["reserved"]
    BY <1>1, SettleMoves DEF Held, HeldAt
  <2> QED BY <1>1, <2>1 DEF FundsInv, Placed, LockedFilled, ReservedIsBacked
<1>4. ASSUME NEW v \in Venue
      PROVE  AttributedAt(v)' /\ capital'[v]["available"] >= 0 /\ capital'[v]["receivable"] >= 0
  <2> DEFINE f == DeployedAt(v)
  <2>1. /\ AttributedAt(v) /\ IsFiniteSet(Unsettled) /\ Unsettled \subseteq Plan
        /\ \A q \in Plan : f[q] = deployedByVenue[q][v] /\ f[q] \in Nat
    BY AttributionFacts
  <2>2. DeployedAt(v)' = f /\ Consumed' = Consumed
    BY <1>1 DEF DeployedAt, Consumed
  <2>3. \A q \in Unsettled : f[q] \in Int
    BY <2>1
  <2> HIDE DEF f
  <2>4. SumFunctionOnSet(f, Unsettled) = f[p] + SumFunctionOnSet(f, Unsettled \ {p})
    BY <1>2, <2>1, <2>3, SumWithout
  <2>5. SumFunctionOnSet(f, Unsettled \ {p}) \in Int /\ f[p] \in Int
    <3>1. IsFiniteSet(Unsettled \ {p}) /\ \A q \in Unsettled \ {p} : f[q] \in Int
      BY <2>1, <2>3, FS_Subset
    <3> QED BY <1>2, <2>3, <3>1, SumIsInt
  <2>6. /\ capital[v]["deployed"] = SumFunctionOnSet(f, Unlocked)
        /\ capital[v]["unresolved"] = SumFunctionOnSet(f, Unsettled)
        /\ \A q \in Plan : deployedByVenue[q][v] = SumFunctionOnSet(Consumed, IntentsAt(q, v))
    BY <2>1 DEF AttributedAt, f
  <2>7. /\ capital'[v]["unresolved"] = capital[v]["unresolved"] - f[p]
        /\ \A b \in {"available", "reserved", "deployed"} : capital'[v][b] = capital[v][b]
    BY <2>1, SettleMoves
  <2>8. capital'[v]["receivable"] >= 0
    <3>1. PICK n \in Nat : capital'[v]["receivable"] = capital[v]["receivable"] + n
      BY SettleMoves
    <3>2. capital[v]["receivable"] \in Int /\ capital[v]["receivable"] >= 0
      BY DEF FundsInv, MoneyTypes, Bucket
    <3> QED BY <3>1, <3>2
  <2>9. capital'[v]["unresolved"] = SumFunctionOnSet(f, Unsettled')
    BY <1>2, <2>4, <2>5, <2>6, <2>7
  <2> QED BY <1>1, <1>2, <2>2, <2>6, <2>7, <2>8, <2>9 DEF AttributedAt, FundsInv
<1>5. DeployedIsAttributed'
  BY <1>4 DEF DeployedIsAttributed, AttributedAt
<1> QED BY <1>3, <1>4, <1>5 DEF FundsInv

\* A rolled back reservation leaves records that hold nothing and never did.
LEMMA RollbackKeepsFunds ==
  ASSUME FundsInv, NEW p \in Plan, ReservePlanRollsBack(p), OrderInv', MoneyTypes'
  PROVE  FundsInv'
<1>1. /\ UNCHANGED <<capital, planLifecycle, order, deployedByVenue, lockedCapital>>
      /\ ~Registered(p)
  BY DEF ReservePlanRollsBack, engineVars
<1>2. \A i \in Intent : PlanOf[i] # p => reservation'[i] = reservation[i]
  BY DEF ReservePlanRollsBack, IntentsOf
<1>3. \A i \in Intent : PlanOf[i] = p =>
        /\ reservation[i].remaining = 0 /\ reservation[i].consumed = 0
        /\ reservation'[i].remaining = 0 /\ reservation'[i].consumed = 0
  <2>1. \A i \in Intent : IntentSound(i) /\ IntentSound(i)'
    BY DEF FundsInv, OrderInv
  <2> QED BY <1>1, <2>1 DEF IntentSound, Registered
<1>4. \A i \in Intent : /\ reservation'[i].consumed = reservation[i].consumed
                        /\ reservation'[i].remaining = reservation[i].remaining
                        /\ reservation[i].remaining > 0 => reservation'[i] = reservation[i]
  BY <1>2, <1>3
<1>5. \A i \in Intent, v \in Venue : HeldAt(v, i)' = HeldAt(v, i)
  BY <1>2, <1>3 DEF HeldAt
<1>6. Placed' /\ LockedFilled'
  BY <1>1, <1>2, <1>3 DEF FundsInv, Placed, LockedFilled
<1> QED BY <1>1, <1>4, <1>5, <1>6, FundsUntouched

\* What recovering capital at venue v does to each venue.
LEMMA RecoverMoves ==
  ASSUME FundsInv, NEW v \in Venue, NEW a \in Amount, Recover(v, a), NEW w \in Venue
  PROVE  /\ \E n \in Nat :
              /\ n <= capital[w]["receivable"]
              /\ capital'[w]["receivable"] = capital[w]["receivable"] - n
              /\ capital'[w]["available"] = capital[w]["available"] + n
         /\ \A b \in {"reserved", "deployed", "unresolved"} : capital'[w][b] = capital[w][b]
<1>1. /\ capital \in [Venue -> [Bucket -> Int]] /\ a \in Nat /\ a > 0
      /\ capital[v]["receivable"] >= a
      /\ capital' = Transfer(capital, v, "receivable", "available", a)
  BY LedgerAssumption DEF FundsInv, MoneyTypes, Recover, RecoverReceivable
<1>2. /\ "receivable" \in Bucket /\ "available" \in Bucket /\ "receivable" # "available"
      /\ "reserved" \in Bucket /\ "deployed" \in Bucket /\ "unresolved" \in Bucket
  BY DEF Bucket
<1>3. /\ capital'[v]["receivable"] = capital[v]["receivable"] - a
      /\ capital'[v]["available"] = capital[v]["available"] + a
      /\ w # v => capital'[w] = capital[w]
      /\ \A b \in {"reserved", "deployed", "unresolved"} : capital'[w][b] = capital[w][b]
  BY <1>1, <1>2 DEF Transfer
<1>4. CASE w = v
  BY <1>1, <1>3, <1>4
<1>5. CASE w # v
  <2>1. /\ 0 <= capital[w]["receivable"] /\ capital[w]["receivable"] \in Int
        /\ capital[w]["available"] \in Int
    BY <1>1, <1>2 DEF FundsInv
  <2> QED BY <1>3, <1>5, <2>1
<1> QED BY <1>4, <1>5

\* What is recovered was receivable.
LEMMA RecoverKeepsFunds ==
  ASSUME FundsInv, NEW v \in Venue, NEW a \in Amount, Recover(v, a), OrderInv', MoneyTypes'
  PROVE  FundsInv'
<1>1. UNCHANGED <<reservation, planLifecycle, order, deployedByVenue, lockedCapital>>
  BY DEF Recover, RecoverReceivable, engineVars
<1>2. ASSUME NEW w \in Venue
      PROVE  /\ capital'[w]["available"] >= 0 /\ capital'[w]["receivable"] >= 0
             /\ \A b \in {"reserved", "deployed", "unresolved"} : capital'[w][b] = capital[w][b]
  <2>1. /\ capital[w]["available"] >= 0 /\ capital[w]["available"] \in Int
        /\ capital[w]["receivable"] >= 0 /\ capital[w]["receivable"] \in Int
    BY DEF FundsInv, MoneyTypes, Bucket
  <2>2. PICK n \in Nat : /\ n <= capital[w]["receivable"]
                         /\ capital'[w]["receivable"] = capital[w]["receivable"] - n
                         /\ capital'[w]["available"] = capital[w]["available"] + n
    BY RecoverMoves
  <2> QED BY <2>1, <2>2, RecoverMoves
<1>3. /\ Unlocked' = Unlocked /\ Unsettled' = Unsettled
      /\ Consumed' = Consumed /\ \A w : DeployedAt(w)' = DeployedAt(w)
      /\ \A w \in Venue : Held(w)' = Held(w)
  BY <1>1 DEF Unlocked, Unsettled, Consumed, DeployedAt, Held, HeldAt
<1>4. ReservedIsBacked' /\ DeployedIsAttributed'
  BY <1>1, <1>2, <1>3 DEF FundsInv, ReservedIsBacked, DeployedIsAttributed
<1>5. Placed' /\ LockedFilled'
  BY <1>1 DEF FundsInv, Placed, LockedFilled
<1> QED BY <1>2, <1>4, <1>5 DEF FundsInv

LEMMA FundsInit == ShadowInit => FundsInv
<1> SUFFICES ASSUME ShadowInit PROVE FundsInv
  OBVIOUS
<1>1. OrderInv /\ MoneyTypes
  BY OrderInit, MoneyInit
<1>2. /\ \A i \in Intent : reservation[i] = NoReservation
      /\ \A p \in Plan : ~lockedCapital[p] /\ \A v \in Venue : deployedByVenue[p][v] = 0
      /\ \A v \in Venue : /\ capital[v]["available"] = InitialCapital[v]
                          /\ capital[v]["reserved"] = 0 /\ capital[v]["deployed"] = 0
                          /\ capital[v]["unresolved"] = 0 /\ capital[v]["receivable"] = 0
  BY DEF ShadowInit, LedgerInit, Bucket, Intent
<1>3. Placed /\ LockedFilled
  BY <1>2, PlanAssumption DEF Placed, LockedFilled, NoReservation
<1>4. ReservedIsBacked
  <2> SUFFICES ASSUME NEW v \in Venue
               PROVE  capital[v]["reserved"] = SumFunctionOnSet(Held(v), ReservationId)
    BY DEF ReservedIsBacked
  <2>1. \A i \in ReservationId : Held(v)[i] = 0
    BY <1>2 DEF Held, HeldAt, NoReservation, Intent
  <2>2. SumFunctionOnSet(Held(v), ReservationId) = 0
    BY <2>1, ReservationIdsAreFinite, SumOfZeros
  <2> QED BY <1>2, <2>2
<1>5. DeployedIsAttributed
  <2> SUFFICES ASSUME NEW v \in Venue PROVE AttributedAt(v)
    BY DEF DeployedIsAttributed, AttributedAt
  <2>1. /\ IsFiniteSet(Unlocked) /\ Unlocked \subseteq Plan
        /\ \A p \in Unlocked : DeployedAt(v)[p] = 0
    <3>1. Unlocked \subseteq Plan
      BY DEF Unlocked
    <3> QED BY <1>2, <3>1, PlanAssumption, FS_Subset DEF DeployedAt
  <2>2. SumFunctionOnSet(DeployedAt(v), Unlocked) = 0
    BY <2>1, SumOfZeros
  <2>3. SumFunctionOnSet(DeployedAt(v), Unsettled) = 0
    <3>1. Unsettled = {}
      BY <1>2 DEF Unsettled
    <3> QED BY <3>1, SumOfNothing
  <2>4. ASSUME NEW p \in Plan
        PROVE  SumFunctionOnSet(Consumed, IntentsAt(p, v)) = 0
    <3>1. IntentsAt(p, v) \subseteq Intent /\ IsFiniteSet(IntentsAt(p, v))
      <4>1. IntentsAt(p, v) \subseteq Intent
        BY DEF IntentsAt, IntentsOf
      <4> QED BY <4>1, ReservationIdsAreFinite, FS_Subset DEF Intent
    <3>2. \A i \in IntentsAt(p, v) : Consumed[i] = 0
      BY <1>2, <3>1 DEF Consumed, NoReservation
    <3> QED BY <3>1, <3>2, SumOfZeros
  <2> QED BY <1>2, <2>2, <2>3, <2>4 DEF AttributedAt
<1>6. \A v \in Venue : capital[v]["available"] >= 0 /\ capital[v]["receivable"] >= 0
  BY <1>2, LedgerAssumption
<1> QED BY <1>1, <1>3, <1>4, <1>5, <1>6 DEF FundsInv

LEMMA FundsStep == FundsInv /\ [ShadowNext]_shadowVars => FundsInv'
<1> SUFFICES ASSUME FundsInv, [ShadowNext]_shadowVars PROVE FundsInv'
  OBVIOUS
<1>1. OrderInv' /\ MoneyTypes'
  BY OrderStep, MoneyStep DEF FundsInv
<1>2. ASSUME NEW p \in Plan, ReservePlan(p) PROVE FundsInv'
  BY <1>1, <1>2, ReservePlanKeepsFunds
<1>3. ASSUME NEW p \in Plan, ReservePlanRollsBack(p) PROVE FundsInv'
  BY <1>1, <1>3, RollbackKeepsFunds
<1>9. ASSUME NEW p \in Plan, BeginUnwind(p) PROVE FundsInv'
  <2>1. /\ planLifecycle[p] \in {"PARTIALLY_HEDGED", "UNKNOWN", "LOCKED"}
        /\ planLifecycle' = [planLifecycle EXCEPT ![p] = "UNWINDING"]
        /\ UNCHANGED <<capital, reservation, order, deployedByVenue, lockedCapital>>
        /\ planLifecycle \in [Plan -> PlanLifecycle]
    BY <1>9 DEF BeginUnwind, SetLifecycle, ledgerVars, FundsInv, OrderInv, OrderTypes
  <2>2. Placed' /\ LockedFilled'
    BY <2>1 DEF FundsInv, Placed, LockedFilled
  <2>3. \A i \in Intent : /\ reservation'[i].consumed = reservation[i].consumed
                          /\ \A v \in Venue : HeldAt(v, i)' = HeldAt(v, i)
    BY <2>1 DEF HeldAt
  <2>4. \A q \in Plan : planLifecycle'[q] = "SETTLED" <=> planLifecycle[q] = "SETTLED"
    BY <2>1
  <2> QED BY <1>1, <2>1, <2>2, <2>3, <2>4, FundsUntouched
<1>4. ASSUME NEW p \in Plan, LockCapitalForResolution(p) PROVE FundsInv'
  BY <1>1, <1>4, LockKeepsFunds
<1>5. ASSUME NEW p \in Plan, NEW receivable \in [Venue -> Amount], SettlePlan(p, receivable)
      PROVE  FundsInv'
  BY <1>1, <1>5, SettleKeepsFunds
<1>6. ASSUME NEW i \in Intent, OrderCall(i) PROVE FundsInv'
  BY <1>1, <1>6, OrderCallTakes, TakesKeepsFunds
<1>7. ASSUME NEW v \in Venue, NEW a \in Amount, Recover(v, a) PROVE FundsInv'
  BY <1>1, <1>7, RecoverKeepsFunds
<1>8. CASE UNCHANGED shadowVars
  <2>1. /\ UNCHANGED <<capital, reservation, planLifecycle, order, deployedByVenue, lockedCapital>>
        /\ Placed' /\ LockedFilled'
    BY <1>8 DEF shadowVars, FundsInv, Placed, LockedFilled
  <2>2. \A i \in Intent : /\ reservation'[i].consumed = reservation[i].consumed
                          /\ \A v \in Venue : HeldAt(v, i)' = HeldAt(v, i)
    BY <2>1 DEF HeldAt
  <2> QED BY <1>1, <2>1, <2>2, FundsUntouched
<1> QED BY <1>2, <1>3, <1>4, <1>5, <1>6, <1>7, <1>8, <1>9 DEF ShadowNext, OrderCall

\* The engine and the ledger agree on where every unit of capital is.
THEOREM FundsInvariant == ShadowSpec => []FundsInv
BY FundsInit, FundsStep, PTL DEF ShadowSpec

\* What a venue has deployed and unresolved is what its plans deployed there and
\* have not settled, and that is what their intents consumed
\* (DeployedIsAttributed).
THEOREM CapitalIsAttributed == ShadowSpec => []DeployedIsAttributed
<1>1. FundsInv => DeployedIsAttributed
  BY DEF FundsInv
<1> QED BY <1>1, FundsInvariant, PTL

\* No bucket is negative: two buckets by the guards of the calls, the other
\* three because they are sums of what intents hold and plans deployed.
LEMMA BucketsAreNat ==
  ASSUME FundsInv, NEW v \in Venue
  PROVE  \A b \in Bucket : capital[v][b] \in Nat
<1>1. \A b \in Bucket : capital[v][b] \in Int
  BY DEF FundsInv, MoneyTypes
<1>2. capital[v]["reserved"] >= 0
  <2>1. \A i \in ReservationId : Held(v)[i] \in Nat
    BY HeldByVenue DEF Intent
  <2>2. SumFunctionOnSet(Held(v), ReservationId) \in Nat
    BY <2>1, ReservationIdsAreFinite, SumIsNat
  <2> QED BY <2>2 DEF FundsInv, ReservedIsBacked
<1>3. capital[v]["deployed"] >= 0 /\ capital[v]["unresolved"] >= 0
  <2>1. /\ AttributedAt(v) /\ IsFiniteSet(Unlocked) /\ IsFiniteSet(Unsettled)
        /\ \A p \in Unlocked \union Unsettled : DeployedAt(v)[p] \in Nat
    BY AttributionFacts
  <2>2. /\ SumFunctionOnSet(DeployedAt(v), Unlocked) \in Nat
        /\ SumFunctionOnSet(DeployedAt(v), Unsettled) \in Nat
    BY <2>1, SumIsNat
  <2> QED BY <2>1, <2>2 DEF AttributedAt
<1>4. capital[v]["available"] >= 0 /\ capital[v]["receivable"] >= 0
  BY DEF FundsInv
<1> QED BY <1>1, <1>2, <1>3, <1>4 DEF Bucket

\* The engine never overdraws the ledger it shares, although its lock and
\* settlement move capital by what the engine recorded and not by reservations
\* (NonNegativeBuckets).
THEOREM EngineNeverOverdraws == ShadowSpec => []NonNegativeBuckets
<1>1. FundsInv => NonNegativeBuckets
  BY BucketsAreNat DEF NonNegativeBuckets
<1> QED BY <1>1, FundsInvariant, PTL

\* The reserved bucket is what the plans' intents still hold, across rolled back
\* reservations, partial fills and reconciliations (ReservedIsBacked).
THEOREM EngineReservesAreBacked == ShadowSpec => []ReservedIsBacked
<1>1. FundsInv => ReservedIsBacked
  BY DEF FundsInv
<1> QED BY <1>1, FundsInvariant, PTL

\* lockCapitalForResolution and settle never throw "diverged" for a plan that is
\* LOCKED: the venue has what the plan deployed (NeverDiverges).
THEOREM PlansNeverDiverge == ShadowSpec => []NeverDiverges
<1>1. FundsInv => NeverDiverges
  <2> SUFFICES ASSUME FundsInv, NEW p \in Plan, NEW v \in Venue, planLifecycle[p] = "LOCKED"
               PROVE  IF lockedCapital[p]
                        THEN capital[v]["unresolved"] >= deployedByVenue[p][v]
                        ELSE capital[v]["deployed"] >= deployedByVenue[p][v]
    BY DEF NeverDiverges
  <2>1. /\ AttributedAt(v) /\ IsFiniteSet(Unlocked) /\ IsFiniteSet(Unsettled)
        /\ \A q \in Unlocked \union Unsettled : DeployedAt(v)[q] \in Nat
        /\ DeployedAt(v)[p] = deployedByVenue[p][v]
    BY AttributionFacts
  <2>2. CASE lockedCapital[p]
    <3>1. p \in Unsettled
      BY <2>2 DEF Unsettled
    <3>2. DeployedAt(v)[p] <= SumFunctionOnSet(DeployedAt(v), Unsettled)
      BY <2>1, <3>1, SummandIsAtMostSum
    <3>3. SumFunctionOnSet(DeployedAt(v), Unsettled) \in Nat /\ DeployedAt(v)[p] \in Nat
      BY <2>1, <3>1, SumIsNat
    <3> QED BY <2>1, <2>2, <3>2, <3>3 DEF AttributedAt
  <2>3. CASE ~lockedCapital[p]
    <3>1. p \in Unlocked
      BY <2>3 DEF Unlocked
    <3>2. DeployedAt(v)[p] <= SumFunctionOnSet(DeployedAt(v), Unlocked)
      BY <2>1, <3>1, SummandIsAtMostSum
    <3>3. SumFunctionOnSet(DeployedAt(v), Unlocked) \in Nat /\ DeployedAt(v)[p] \in Nat
      BY <2>1, <3>1, SumIsNat
    <3> QED BY <2>1, <2>3, <3>2, <3>3 DEF AttributedAt
  <2> QED BY <2>2, <2>3
<1> QED BY <1>1, FundsInvariant, PTL

-----------------------------------------------------------------------------
(* The engine and the silos *)

\* Each call, seen at one venue, is one of the moves SiloedCapital allows.
LEMMA VenueKeepsSilo ==
  ASSUME FundsInv, FundsInv', NonNegativeBuckets', [ShadowNext]_shadowVars, NEW v \in Venue
  PROVE  Silo!VenueStep(v)
<1> USE DEF Silo!VenueStep
<1>1. /\ \A b \in Bucket : capital[v][b] \in Nat /\ capital'[v][b] \in Nat
      /\ {"available", "reserved", "deployed", "unresolved", "receivable"} \subseteq Bucket
  <2>1. \A b \in Bucket : capital[v][b] \in Nat
    BY BucketsAreNat
  <2>2. \A b \in Bucket : capital'[v][b] \in Nat
    BY DEF FundsInv, MoneyTypes, NonNegativeBuckets
  <2> QED BY <2>1, <2>2 DEF Bucket
<1>2. CASE capital'[v] = capital[v]
  BY <1>2 DEF Silo!Keep
<1>3. ASSUME NEW p \in Plan, ReservePlan(p) PROVE Silo!VenueStep(v)
  <2>1. Silo!Hold(v) \/ Silo!Keep(v)
    BY <1>1, <1>3, ReserveMoves DEF Silo!Hold, Silo!Keep
  <2> QED BY <2>1
<1>4. ASSUME NEW i \in Intent, OrderCall(i) PROVE Silo!VenueStep(v)
  <2>1. PICK d \in Nat, rest \in Nat : Takes(i, d, rest)
    BY <1>4, OrderCallTakes
  <2>2. CASE v = VenueOf[i]
    <3>1. /\ capital'[v]["reserved"] = capital[v]["reserved"] - d - rest
          /\ capital'[v]["deployed"] = capital[v]["deployed"] + d
          /\ capital'[v]["available"] = capital[v]["available"] + rest
          /\ capital'[v]["unresolved"] = capital[v]["unresolved"]
          /\ capital'[v]["receivable"] = capital[v]["receivable"]
      BY <2>1, <2>2 DEF Takes
    <3>2. CASE d + rest = 0
      <4>1. d = 0 /\ rest = 0
        BY <3>2
      <4> QED BY <1>1, <3>1, <4>1 DEF Silo!Keep
    <3>3. CASE d + rest > 0
      <4>1. Silo!Unhold(v)
        BY <1>1, <3>1, <3>3 DEF Silo!Unhold
      <4> QED BY <4>1
    <3> QED BY <3>2, <3>3
  <2>3. CASE v # VenueOf[i]
    BY <1>2, <2>1, <2>3 DEF Takes
  <2> QED BY <2>2, <2>3
<1>5. ASSUME NEW p \in Plan, LockCapitalForResolution(p) PROVE Silo!VenueStep(v)
  <2>1. Silo!Keep(v)
    BY <1>1, <1>5, LockMoves DEF Silo!Keep
  <2> QED BY <2>1
<1>6. ASSUME NEW p \in Plan, NEW receivable \in [Venue -> Amount], SettlePlan(p, receivable)
      PROVE  Silo!VenueStep(v)
  <2>1. Silo!Settle(v) \/ Silo!Keep(v)
    BY <1>1, <1>6, SettleMoves DEF Silo!Settle, Silo!Keep
  <2> QED BY <2>1
<1>7. ASSUME NEW w \in Venue, NEW a \in Amount, Recover(w, a) PROVE Silo!VenueStep(v)
  <2>1. Silo!Recover(v) \/ Silo!Keep(v)
    BY <1>1, <1>7, RecoverMoves DEF Silo!Recover, Silo!Keep
  <2> QED BY <2>1
<1>8. ASSUME NEW p \in Plan, ReservePlanRollsBack(p) \/ BeginUnwind(p) PROVE Silo!VenueStep(v)
  BY <1>2, <1>8 DEF ReservePlanRollsBack, BeginUnwind, ledgerVars
<1>9. CASE UNCHANGED shadowVars
  BY <1>2, <1>9 DEF shadowVars
<1> QED BY <1>3, <1>4, <1>5, <1>6, <1>7, <1>8, <1>9 DEF ShadowNext, OrderCall

\* Every behaviour of the engine is one of SiloedCapital: whatever plans do, no
\* capital crosses between venues, and what fills spent comes back only through
\* settlement and recovery (KeepsSilos).
THEOREM EngineKeepsSilos == ShadowSpec => KeepsSilos
<1>1. ShadowInit => Silo!Init
  BY LedgerAssumption DEF ShadowInit, LedgerInit, Silo!Init, Bucket
<1>2. FundsInv /\ FundsInv' /\ NonNegativeBuckets' /\ [ShadowNext]_shadowVars
        => [Silo!Next]_(Silo!siloVars)
  BY VenueKeepsSilo DEF Silo!Next
<1> QED BY <1>1, <1>2, FundsInvariant, EngineNeverOverdraws, PTL
    DEF ShadowSpec, KeepsSilos, Silo!Spec

-----------------------------------------------------------------------------
(* Exposure and profit *)

\* Only reserving a plan registers one.
LEMMA OrdersKeepRegistered ==
  ASSUME FundsInv, NEW i \in Intent, OrderCall(i), NEW q \in Plan
  PROVE  Registered(q)' <=> Registered(q)
<1>1. /\ planLifecycle \in [Plan -> PlanLifecycle] /\ PlanOf[i] \in Plan
      /\ order[i] # "INTENT" => Registered(PlanOf[i])
  BY PlanAssumption DEF FundsInv, OrderInv, OrderTypes, IntentSound
<1>2. ASSUME NEW l, SetLifecycle(PlanOf[i], l), l # "ABSENT", Registered(PlanOf[i])
      PROVE  Registered(q)' <=> Registered(q)
  BY <1>1, <1>2 DEF SetLifecycle, Registered
<1>3. \A o : Refreshed(PlanOf[i], o) # "ABSENT"
  BY RefreshedFacts
<1>4. CASE Submit(i) \/ Acknowledge(i) \/ Reject(i) \/ Cancel(i) \/ MarkUnknown(i)
  <2>1. Registered(PlanOf[i])
    BY <1>1, <1>4 DEF Submit, Acknowledge, Reject, Cancel, MarkUnknown
  <2> QED BY <1>2, <1>4, <2>1 DEF Submit, Acknowledge, Reject, Cancel, MarkUnknown
<1>5. ASSUME NEW n \in 1..Quantity[i], NEW d \in Amount, Fill(i, n, d)
      PROVE  Registered(q)' <=> Registered(q)
  <2>1. Registered(PlanOf[i]) /\ SetLifecycle(PlanOf[i], Refreshed(PlanOf[i], order'))
    BY <1>1, <1>5 DEF Fill
  <2> QED BY <1>2, <1>3, <2>1
<1>6. ASSUME NEW s, NEW n \in 0..Quantity[i], NEW d \in Amount, ReconcileUnknown(i, s, n, d)
      PROVE  Registered(q)' <=> Registered(q)
  <2>1. Registered(PlanOf[i]) /\ SetLifecycle(PlanOf[i], Refreshed(PlanOf[i], order'))
    BY <1>1, <1>6 DEF ReconcileUnknown, CanReconcile
  <2> QED BY <1>2, <1>3, <2>1
<1> QED BY <1>4, <1>5, <1>6 DEF OrderCall

\* What plans that were never checked took is a natural number.
LEMMA UncheckedIsNat ==
  ASSUME NEW v, NEW S \in SUBSET Plan
  PROVE  IsFiniteSet(S) /\ SumFunctionOnSet([p \in Plan |-> PlanDebit(p, v)], S) \in Nat
<1>1. IsFiniteSet(S)
  BY PlanAssumption, FS_Subset
<1>2. \A p \in S : [q \in Plan |-> PlanDebit(q, v)][p] \in Nat
  BY PlanDebitIsNat
<1> QED BY <1>1, <1>2, SumIsNat

\* A step that registers no plan and puts nothing at risk stays within the limit.
LEMMA LimitKept ==
  ASSUME NEW v \in Venue, WithinLimit(v), AtRisk(v) \in Int, AtRisk(v)' \in Int,
         AtRisk(v)' <= AtRisk(v), \A p \in Plan : Registered(p)' <=> Registered(p)
  PROVE  WithinLimit(v)'
<1> DEFINE S == {p \in Plan : Registered(p) /\ v \notin DOMAIN CertificateCapital[p]}
<1>1. S' = S
  OBVIOUS
<1>2. Unchecked(v)' = Unchecked(v) /\ Unchecked(v) \in Nat
  <2>1. SumFunctionOnSet([p \in Plan |-> PlanDebit(p, v)], S) \in Nat
    BY UncheckedIsNat
  <2> QED BY <1>1, <2>1 DEF Unchecked
<1>3. MaxCapital[v] \in Nat
  BY PlanAssumption
<1>4. \A p \in Plan : v \in DOMAIN CertificateCapital[p] => Shortfall(p, v) \in Int
  BY PlanAssumption, PlanDebitIsNat DEF Shortfall
<1>5. CASE AtRisk(v) <= MaxCapital[v] + Unchecked(v)
  BY <1>2, <1>3, <1>5 DEF WithinLimit
<1>6. ASSUME NEW p \in Plan, Registered(p), v \in DOMAIN CertificateCapital[p],
             AtRisk(v) <= MaxCapital[v] + Unchecked(v) + Shortfall(p, v)
      PROVE  WithinLimit(v)'
  <2>1. Shortfall(p, v)' = Shortfall(p, v) /\ Registered(p)'
    BY <1>6 DEF Shortfall
  <2>2. AtRisk(v)' <= MaxCapital[v] + Unchecked(v)' + Shortfall(p, v)
    BY <1>2, <1>3, <1>4, <1>6
  <2> QED BY <1>6, <2>1, <2>2 DEF WithinLimit
<1> QED BY <1>5, <1>6 DEF WithinLimit

\* Only reserving a plan adds to the capital at risk, by the plan's debit: a
\* certificate that names the venue was measured against all that is at risk, and
\* a plan whose certificate does not name it joins those nobody checks there.
LEMMA ReserveWithinLimit ==
  ASSUME FundsInv, NEW v \in Venue, WithinLimit(v), NEW p \in Plan, ReservePlan(p)
  PROVE  WithinLimit(v)'
<1> DEFINE S == {q \in Plan : Registered(q) /\ v \notin DOMAIN CertificateCapital[q]}
           debit == [q \in Plan |-> PlanDebit(q, v)]
<1>1. /\ \A b \in Bucket : capital[v][b] \in Int
      /\ {"reserved", "deployed", "unresolved"} \subseteq Bucket
      /\ MaxCapital[v] \in Nat
      /\ planLifecycle \in [Plan -> PlanLifecycle]
  BY PlanAssumption DEF FundsInv, OrderInv, OrderTypes, MoneyTypes, Bucket
<1>2. AtRisk(v)' = AtRisk(v) + PlanDebit(p, v) /\ PlanDebit(p, v) \in Nat /\ AtRisk(v) \in Int
  BY <1>1, ReserveMoves DEF AtRisk
<1>3. ~Registered(p) /\ Registered(p)' /\ \A q \in Plan : q # p => (Registered(q)' <=> Registered(q))
  BY <1>1 DEF ReservePlan, SetLifecycle, Registered
<1>4. SumFunctionOnSet(debit, S) \in Nat /\ SumFunctionOnSet(debit, S') \in Nat /\ IsFiniteSet(S')
  BY UncheckedIsNat
<1>5. CASE v \in DOMAIN CertificateCapital[p]
  <2>1. AtRisk(v) + CertificateCapital[p][v] <= MaxCapital[v]
    BY <1>5 DEF ReservePlan, RiskAllows
  <2>2. CertificateCapital[p][v] \in Nat
    BY <1>5, PlanAssumption
  <2>3. Unchecked(v)' \in Nat
    BY <1>4 DEF Unchecked
  <2>4. AtRisk(v)' <= MaxCapital[v] + Unchecked(v)' + Shortfall(p, v)
    BY <1>1, <1>2, <2>1, <2>2, <2>3 DEF Shortfall
  <2>5. Shortfall(p, v)' = Shortfall(p, v)
    BY DEF Shortfall
  <2> QED BY <1>3, <1>5, <2>4, <2>5 DEF WithinLimit
<1>6. CASE v \notin DOMAIN CertificateCapital[p]
  <2>1. S' = S \union {p} /\ p \notin S
    BY <1>3, <1>6
  <2>2. \A q \in S' : debit[q] \in Int
    BY PlanDebitIsNat
  <2>3. SumFunctionOnSet(debit, S') = PlanDebit(p, v) + SumFunctionOnSet(debit, S)
    <3>1. S' \ {p} = S /\ p \in S' /\ debit[p] = PlanDebit(p, v)
      BY <2>1
    <3> HIDE DEF S, debit
    <3> QED BY <1>4, <2>2, <3>1, SumWithout
  <2>4. Unchecked(v)' = Unchecked(v) + PlanDebit(p, v) /\ Unchecked(v) \in Nat
    BY <1>2, <1>4, <2>3 DEF Unchecked
  <2>5. CASE AtRisk(v) <= MaxCapital[v] + Unchecked(v)
    BY <1>1, <1>2, <2>4, <2>5 DEF WithinLimit
  <2>6. ASSUME NEW q \in Plan, Registered(q), v \in DOMAIN CertificateCapital[q],
               AtRisk(v) <= MaxCapital[v] + Unchecked(v) + Shortfall(q, v)
        PROVE  WithinLimit(v)'
    <3>1. Shortfall(q, v) \in Int
      BY <2>6, PlanAssumption, PlanDebitIsNat DEF Shortfall
    <3>2. Shortfall(q, v)' = Shortfall(q, v) /\ Registered(q)'
      BY <1>3, <2>6 DEF Shortfall
    <3>3. AtRisk(v)' <= MaxCapital[v] + Unchecked(v)' + Shortfall(q, v)
      BY <1>1, <1>2, <2>4, <2>6, <3>1
    <3> QED BY <2>6, <3>2, <3>3 DEF WithinLimit
  <2> QED BY <2>5, <2>6 DEF WithinLimit
<1> QED BY <1>5, <1>6

LEMMA ExposureStep ==
  ASSUME FundsInv, FundsInv', ExposureWithinLimit, [ShadowNext]_shadowVars
  PROVE  ExposureWithinLimit'
<1> SUFFICES ASSUME NEW v \in Venue PROVE WithinLimit(v)'
  BY DEF ExposureWithinLimit
<1>1. /\ \A b \in Bucket : capital[v][b] \in Int
      /\ {"reserved", "deployed", "unresolved"} \subseteq Bucket
      /\ AtRisk(v) \in Int /\ AtRisk(v)' \in Int /\ WithinLimit(v)
      /\ planLifecycle \in [Plan -> PlanLifecycle]
  BY DEF FundsInv, OrderInv, OrderTypes, MoneyTypes, Bucket, AtRisk, ExposureWithinLimit
<1>2. ASSUME capital'[v] = capital[v], \A q \in Plan : Registered(q)' <=> Registered(q)
      PROVE  WithinLimit(v)'
  <2>1. AtRisk(v)' <= AtRisk(v)
    BY <1>1, <1>2 DEF AtRisk
  <2> QED BY <1>1, <1>2, <2>1, LimitKept
<1>3. ASSUME NEW p \in Plan, ReservePlan(p) PROVE WithinLimit(v)'
  BY <1>1, <1>3, ReserveWithinLimit
<1>4. ASSUME NEW i \in Intent, OrderCall(i) PROVE WithinLimit(v)'
  <2>1. PICK d \in Nat, rest \in Nat : Takes(i, d, rest)
    BY <1>4, OrderCallTakes
  <2>2. \A q \in Plan : Registered(q)' <=> Registered(q)
    BY <1>4, OrdersKeepRegistered
  <2>3. CASE v = VenueOf[i]
    <3>1. AtRisk(v)' <= AtRisk(v)
      BY <1>1, <2>1, <2>3 DEF Takes, AtRisk
    <3> QED BY <1>1, <2>2, <3>1, LimitKept
  <2>4. CASE v # VenueOf[i]
    BY <1>2, <2>1, <2>2, <2>4 DEF Takes
  <2> QED BY <2>3, <2>4
<1>5. ASSUME NEW p \in Plan, LockCapitalForResolution(p) PROVE WithinLimit(v)'
  <2>1. AtRisk(v)' <= AtRisk(v)
    BY <1>1, <1>5, LockMoves DEF AtRisk
  <2>2. \A q \in Plan : Registered(q)' <=> Registered(q)
    BY <1>5 DEF LockCapitalForResolution, Registered
  <2> QED BY <1>1, <2>1, <2>2, LimitKept
<1>6. ASSUME NEW p \in Plan, NEW receivable \in [Venue -> Amount], SettlePlan(p, receivable)
      PROVE  WithinLimit(v)'
  <2>1. AtRisk(v)' <= AtRisk(v)
    BY <1>1, <1>6, SettleMoves DEF AtRisk
  <2>2. \A q \in Plan : Registered(q)' <=> Registered(q)
    BY <1>1, <1>6 DEF SettlePlan, SetLifecycle, Registered
  <2> QED BY <1>1, <2>1, <2>2, LimitKept
<1>7. ASSUME NEW w \in Venue, NEW a \in Amount, Recover(w, a)
      PROVE  WithinLimit(v)'
  <2>1. AtRisk(v)' <= AtRisk(v)
    BY <1>1, <1>7, RecoverMoves DEF AtRisk
  <2>2. \A q \in Plan : Registered(q)' <=> Registered(q)
    BY <1>7 DEF Recover, engineVars, Registered
  <2> QED BY <1>1, <2>1, <2>2, LimitKept
<1>8. ASSUME NEW p \in Plan, ReservePlanRollsBack(p) \/ BeginUnwind(p)
      PROVE  WithinLimit(v)'
  BY <1>1, <1>2, <1>8
     DEF ReservePlanRollsBack, BeginUnwind, ledgerVars, engineVars, SetLifecycle, Registered
<1>9. CASE UNCHANGED shadowVars
  BY <1>2, <1>9 DEF shadowVars, Registered
<1> QED BY <1>3, <1>4, <1>5, <1>6, <1>7, <1>8, <1>9 DEF ShadowNext, OrderCall

\* The capital at risk at a venue exceeds the policy's limit by no more than
\* what one certificate falls short of its plan's debits, beside the debits of
\* plans whose certificates do not name the venue; the limit itself is checked
\* only when a plan opens (ExposureWithinLimit).
THEOREM ExposureStaysWithinLimit == ShadowSpec => []ExposureWithinLimit
<1>1. ShadowInit => ExposureWithinLimit
  <2> SUFFICES ASSUME ShadowInit, NEW v \in Venue PROVE WithinLimit(v)
    BY DEF ExposureWithinLimit
  <2>1. AtRisk(v) = 0 /\ MaxCapital[v] \in Nat
    BY PlanAssumption DEF ShadowInit, LedgerInit, Bucket, AtRisk
  <2>2. Unchecked(v) \in Nat
    BY UncheckedIsNat DEF Unchecked
  <2> QED BY <2>1, <2>2 DEF WithinLimit
<1>2. FundsInv /\ FundsInv' /\ ExposureWithinLimit /\ [ShadowNext]_shadowVars
        => ExposureWithinLimit'
  BY ExposureStep
<1> QED BY <1>1, <1>2, FundsInvariant, PTL DEF ShadowSpec

\* Realized PnL changes only when a LOCKED plan settles, by what the plan is to
\* receive less what it deployed (PnlOnlyThroughSettlement).
THEOREM PnlMovesOnSettlement == ShadowSpec => PnlOnlyThroughSettlement
<1> DEFINE Booked(v) ==
       realizedPnl'[v] # realizedPnl[v] =>
         \E p \in Plan :
           /\ planLifecycle[p] = "LOCKED" /\ planLifecycle'[p] = "SETTLED"
           /\ realizedPnl'[v] - realizedPnl[v] =
                capital'[v]["receivable"] - capital[v]["receivable"]
                  - deployedByVenue[p][v]
<1>1. FundsInv /\ [ShadowNext]_shadowVars => [\A v \in Venue : Booked(v)]_shadowVars
  <2> SUFFICES ASSUME FundsInv, [ShadowNext]_shadowVars, NEW v \in Venue PROVE Booked(v)
    OBVIOUS
  <2>1. ASSUME NEW p \in Plan, NEW receivable \in [Venue -> Amount], SettlePlan(p, receivable)
        PROVE  Booked(v)
    <3>1. /\ planLifecycle[p] = "LOCKED" /\ planLifecycle'[p] = "SETTLED"
      BY <2>1 DEF SettlePlan, SetLifecycle, FundsInv, OrderInv, OrderTypes
    <3>2. /\ realizedPnl[v] \in Int /\ capital[v]["receivable"] \in Int
          /\ deployedByVenue[p][v] \in Nat
      BY DEF FundsInv, MoneyTypes, Bucket
    <3>3. PICK n \in Nat :
            /\ capital'[v]["receivable"] = capital[v]["receivable"] + n
            /\ realizedPnl'[v] = realizedPnl[v] + n - deployedByVenue[p][v]
      BY <2>1, SettleMoves
    <3>4. realizedPnl'[v] - realizedPnl[v] =
            capital'[v]["receivable"] - capital[v]["receivable"] - deployedByVenue[p][v]
      BY <3>2, <3>3
    <3> QED BY <3>1, <3>4
  <2>2. ASSUME NEW i \in Intent, OrderCall(i) PROVE Booked(v)
    BY <2>2, OrderCallTakes DEF Takes
  <2>3. ASSUME NEW p \in Plan, \/ ReservePlan(p) \/ ReservePlanRollsBack(p)
                               \/ BeginUnwind(p) \/ LockCapitalForResolution(p)
        PROVE  Booked(v)
    BY <2>3 DEF ReservePlan, ReservePlanRollsBack, BeginUnwind, LockCapitalForResolution,
                ledgerVars
  <2>4. ASSUME NEW w \in Venue, NEW a \in Amount, Recover(w, a) PROVE Booked(v)
    BY <2>4 DEF Recover, RecoverReceivable
  <2>5. CASE UNCHANGED shadowVars
    BY <2>5 DEF shadowVars
  <2> QED BY <2>1, <2>2, <2>3, <2>4, <2>5 DEF ShadowNext, OrderCall
<1> QED BY <1>1, FundsInvariant, PTL DEF ShadowSpec, PnlOnlyThroughSettlement
=============================================================================
