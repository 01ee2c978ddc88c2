-------------------------- MODULE DeterministicBook --------------------------
(***************************************************************************)
(* One order book of packages/market-state/src/book.ts.                    *)
(*                                                                         *)
(* apply(event) is one action per way its handler can end: a snapshot is   *)
(* taken over or throws, a delta is accepted, ignored as a duplicate, or   *)
(* invalidates the book.  A price level is a side and a price; size 0      *)
(* stands for a level the book does not have.  generationHash and          *)
(* stateHash are injective in what they hash (SHA-256 is taken to be       *)
(* collision free), so an identity is the record of what was hashed.       *)
(* This module has no next-state relation: BookIdentity and GeminiBookFeed *)
(* supply the events.                                                      *)
(***************************************************************************)
EXTENDS Integers

CONSTANTS
  Price, Size,      \* fixed-point prices and sizes; 0 \in Size
  TickSize,         \* tick sizes snapshots may carry
  None,             \* undefined
  MaxGeneration     \* bound: snapshots a book takes over

ASSUME BookAssumption ==
  /\ Price \subseteq Nat
  /\ Size \subseteq Nat /\ 0 \in Size
  /\ TickSize \subseteq Nat
  /\ MaxGeneration \in Nat
  /\ None \notin Nat

Side == {"BID", "ASK"}
PriceLevel == [price : Price, size : Size]
Place == Side \X Price

BookSnapshot == [sequence : Nat, tickSize : TickSize,
                 bids : SUBSET PriceLevel, asks : SUBSET PriceLevel]

\* A delta's changes say the new size of the places it names.
BookDelta == [previousSequence : Nat, sequence : Nat,
              changes : UNION {[S -> Size] : S \in SUBSET Place}]

BookLifecycle == {"EMPTY", "SNAPSHOT_VALID", "APPLYING_DELTAS", "STALE",
                  "GAP_DETECTED", "REBUILDING"}

VARIABLES lifecycle, generation, sequence, tickSize, levels

bookVars == <<lifecycle, generation, sequence, tickSize, levels>>

BookTypeOK ==
  /\ lifecycle \in BookLifecycle
  /\ generation \in 0..MaxGeneration
  /\ sequence \in Nat \cup {None}
  /\ tickSize \in TickSize \cup {None}
  /\ levels \in [Place -> Size]

BookInit ==
  /\ lifecycle = "EMPTY"
  /\ generation = 0
  /\ sequence = None
  /\ tickSize = None
  /\ levels = [x \in Place |-> 0]

-----------------------------------------------------------------------------
Valid == lifecycle \in {"SNAPSHOT_VALID", "APPLYING_DELTAS"}

ValidLevel(price, tick) == tick > 0 /\ price % tick = 0

\* levelsToMap does not throw.  Levels of size 0 are checked, then skipped.
WellFormed(side, tick) ==
  /\ \A l \in side : ValidLevel(l.price, tick)
  /\ \A l, m \in side : l.price = m.price /\ l.size > 0 /\ m.size > 0 => l = m

LevelsToMap(side) ==
  [p \in Price |->
     IF \E l \in side : l.price = p /\ l.size > 0
       THEN (CHOOSE l \in side : l.price = p /\ l.size > 0).size ELSE 0]

\* Deviation: a valid book takes a snapshot without entering rebuild, and
\* keeps its generation.
TakeSnapshotInPlace(s) ==
  /\ WellFormed(s.bids, s.tickSize) /\ WellFormed(s.asks, s.tickSize)
  /\ generation < MaxGeneration
  /\ generation' = IF Valid THEN generation ELSE generation + 1
  /\ levels' = [x \in Place |-> IF x[1] = "BID" THEN LevelsToMap(s.bids)[x[2]]
                                                ELSE LevelsToMap(s.asks)[x[2]]]
  /\ sequence' = s.sequence
  /\ tickSize' = s.tickSize
  /\ lifecycle' = "SNAPSHOT_VALID"

\* A snapshot of a book that is not valid (a valid one throws, unchanged).
TakeSnapshot(s) ==
  /\ ~Valid
  /\ WellFormed(s.bids, s.tickSize) /\ WellFormed(s.asks, s.tickSize)
  /\ generation < MaxGeneration
  /\ generation' = generation + 1
  /\ levels' = [x \in Place |-> IF x[1] = "BID" THEN LevelsToMap(s.bids)[x[2]]
                                                ELSE LevelsToMap(s.asks)[x[2]]]
  /\ sequence' = s.sequence
  /\ tickSize' = s.tickSize
  /\ lifecycle' = "SNAPSHOT_VALID"

\* levelsToMap throws.  The bids are assigned before the asks are checked.
SnapshotThrows(s) ==
  /\ ~Valid
  /\ ~(WellFormed(s.bids, s.tickSize) /\ WellFormed(s.asks, s.tickSize))
  /\ levels' = [x \in Place |->
       IF x[1] = "BID" /\ WellFormed(s.bids, s.tickSize)
         THEN LevelsToMap(s.bids)[x[2]] ELSE levels[x]]
  /\ UNCHANGED <<lifecycle, generation, sequence, tickSize>>

\* Deviation: only the step from the previous sequence is checked.
FollowsAnyTick(d) == d.previousSequence = sequence /\ d.sequence > sequence

\* The delta continues the book's sequence and every change is on its tick.
Follows(d) ==
  /\ d.previousSequence = sequence /\ d.sequence > sequence
  /\ \A x \in DOMAIN d.changes : ValidLevel(x[2], tickSize)

DuplicateDelta(d) ==
  /\ Valid /\ d.sequence = sequence
  /\ UNCHANGED bookVars

\* Deviation: a change is added to the level instead of replacing it.
AcceptRelativeDelta(d) ==
  /\ Valid /\ d.sequence # sequence
  /\ Follows(d)
  /\ levels' = [x \in Place |->
       IF x \in DOMAIN d.changes THEN levels[x] + d.changes[x] ELSE levels[x]]
  /\ sequence' = d.sequence
  /\ lifecycle' = "APPLYING_DELTAS"
  /\ UNCHANGED <<generation, tickSize>>

AcceptDelta(d) ==
  /\ Valid /\ d.sequence # sequence
  /\ Follows(d)
  /\ levels' = [x \in Place |->
       IF x \in DOMAIN d.changes THEN d.changes[x] ELSE levels[x]]
  /\ sequence' = d.sequence
  /\ lifecycle' = "APPLYING_DELTAS"
  /\ UNCHANGED <<generation, tickSize>>

RejectDelta(d) ==
  /\ Valid => d.sequence # sequence /\ ~Follows(d)
  /\ lifecycle' = "GAP_DETECTED"
  /\ UNCHANGED <<generation, sequence, tickSize, levels>>

ApplyDelta(d) == DuplicateDelta(d) \/ AcceptDelta(d) \/ RejectDelta(d)

MarkStale ==
  /\ lifecycle' = "STALE"
  /\ UNCHANGED <<generation, sequence, tickSize, levels>>

BeginRebuild ==
  /\ lifecycle' = "REBUILDING"
  /\ UNCHANGED <<generation, sequence, tickSize, levels>>

-----------------------------------------------------------------------------
\* A valid book knows its sequence and tick and holds only prices on that
\* tick, although a snapshot that throws half way leaves the bids of one tick
\* beside the tick and the asks of another.
ValidBookIsAligned ==
  Valid =>
    /\ sequence # None /\ tickSize # None
    /\ \A x \in Place : levels[x] > 0 => ValidLevel(x[2], tickSize)
=============================================================================
