---------------------------- MODULE GeminiBookFeed ----------------------------
(***************************************************************************)
(* A Gemini depth stream replayed into a book: the venue, the decoder of   *)
(* packages/venue-gemini/src/index.ts and the loop of book-desk.ts that    *)
(* applies what the decoder returns.                                       *)
(*                                                                         *)
(* Every event at the venue has a number; history[n] is the venue's book   *)
(* after event n.  A message covers the events U..u.  An image says the    *)
(* whole book and has U = u, an update says the new size of every level    *)
(* the events U..u touched, and has U = u when it covers one event.  The   *)
(* messages of a stream may be lost, repeated, overtaken by one another,   *)
(* and may overlap.                                                        *)
(*                                                                         *)
(* A message does not say which of the two it is, and the decoder does not *)
(* ask: without a predecessor U = u is a snapshot, with one every message  *)
(* is a delta.  misread is a history variable, read by no action: in which *)
(* of the two ways the book was given a message for what it is not.        *)
(***************************************************************************)
EXTENDS DeterministicBook, Sequences

CONSTANTS
  GeminiTick,         \* the tick size the decoder gives every snapshot
  MaxEvents,          \* bound: events at the venue
  SingleEventUpdates  \* the venue sends updates with U = u

ASSUME FeedAssumption ==
  GeminiTick \in TickSize /\ MaxEvents \in Nat \ {0} /\ SingleEventUpdates \in BOOLEAN

VARIABLES
  history,            \* the venue's books by event number
  last,               \* the decoder's #sequences entry of this instrument
  misread             \* how the book was built from what is not

feedVars == <<lifecycle, generation, sequence, tickSize, levels, history, last, misread>>

MessageKind == {"IMAGE", "UPDATE"}
Misreading == {"UPDATE_AS_BOOK", "IMAGE_AS_CHANGES"}

FeedTypeOK ==
  /\ BookTypeOK
  /\ history \in Seq([Place -> Size]) /\ Len(history) \in 1..MaxEvents
  /\ last \in Nat \cup {None}
  /\ misread \subseteq Misreading

FeedInit ==
  /\ BookInit
  /\ history \in {<<b>> : b \in [Place -> Size]}
  /\ last = None
  /\ misread = {}

VenueEvent(x, size) ==
  /\ Len(history) < MaxEvents
  /\ history[Len(history)][x] # size
  /\ history' = Append(history, [history[Len(history)] EXCEPT ![x] = size])
  /\ UNCHANGED <<bookVars, last, misread>>

-----------------------------------------------------------------------------
(* Messages the venue may have sent *)

Levels(b, side) ==
  {[price |-> p, size |-> b[<<side, p>>]] : p \in {q \in Price : b[<<side, q>>] > 0}}

AsSnapshot(u, book) ==
  [sequence |-> u, tickSize |-> GeminiTick,
   bids |-> Levels(book, "BID"), asks |-> Levels(book, "ASK")]

\* The levels the events first..u touched: some book before u differs from u's.
Touched(first, u) ==
  {x \in Place : \E n \in (first - 1)..(u - 1) : history[n][x] # history[u][x]}

\* The levels a message names: an image those the book has, an update the
\* touched ones, also those that have gone.
Named(kind, first, u) ==
  IF kind = "IMAGE" THEN {x \in Place : history[u][x] > 0} ELSE Touched(first, u)

\* What a message says, read as a whole book and read as changes.
AsBook(kind, first, u) ==
  [x \in Place |-> IF x \in Named(kind, first, u) THEN history[u][x] ELSE 0]

AsDelta(kind, first, u) ==
  [previousSequence |-> last, sequence |-> u,
   changes |-> [x \in Named(kind, first, u) |-> history[u][x]]]

CanSend(kind, first, u) ==
  /\ u <= Len(history)
  /\ \/ kind = "IMAGE" /\ first = u
     \/ kind = "UPDATE" /\ first \in 2..u /\ (first = u => SingleEventUpdates)

-----------------------------------------------------------------------------
(* GeminiRealtimeBookDecoder.decode, and the book it feeds *)

\* The snapshot throws: the replay is abandoned, with its decoder and book.
ReplayFails(s) ==
  /\ ~Valid
  /\ ~(WellFormed(s.bids, s.tickSize) /\ WellFormed(s.asks, s.tickSize))
  /\ lifecycle' = "EMPTY" /\ generation' = 0 /\ sequence' = None
  /\ tickSize' = None /\ levels' = [x \in Place |-> 0]
  /\ last' = None
  /\ misread' = {}

\* A message without a predecessor is a snapshot if U = u.
DecodeFirst(kind, first, u) ==
  LET s == AsSnapshot(u, AsBook(kind, first, u)) IN
  IF first = u
    THEN \/ /\ TakeSnapshot(s)
            /\ last' = u
            /\ misread' = IF kind = "UPDATE" THEN {"UPDATE_AS_BOOK"} ELSE {}
         \/ ReplayFails(s)
    ELSE MarkStale /\ UNCHANGED <<last, misread>>

\* A message after the last one is a delta.  An image names every level of the
\* book: what was missing is there again.
Chain(kind, first, u) ==
  /\ last' = u
  /\ ApplyDelta(AsDelta(kind, first, u))
  /\ misread' = IF kind = "IMAGE" THEN {"IMAGE_AS_CHANGES"} ELSE misread

\* Deviation: the range may skip one event.
DecodeWithinGap(kind, first, u) ==
  IF first > last + 2 THEN last' = None /\ MarkStale /\ UNCHANGED misread
                      ELSE Chain(kind, first, u)

\* Deviation: the decoder notices the gap and does not tell the book.
DecodeGapQuietly(kind, first, u) ==
  IF first > last + 1 THEN last' = None /\ UNCHANGED <<bookVars, misread>>
                      ELSE Chain(kind, first, u)

\* A message newer than the last is a delta, U = u or not, unless there is a gap.
DecodeNext(kind, first, u) ==
  IF first > last + 1 THEN last' = None /\ MarkStale /\ UNCHANGED misread
                      ELSE Chain(kind, first, u)

\* A message arrives.  One that is not newer than the last is ignored.
Receive(kind, first, u) ==
  /\ CanSend(kind, first, u)
  /\ IF last = None THEN DecodeFirst(kind, first, u)
                    ELSE u > last /\ DecodeNext(kind, first, u)
  /\ UNCHANGED history

FeedNext ==
  \/ \E x \in Place, size \in Size : VenueEvent(x, size)
  \/ \E kind \in MessageKind, first, u \in 1..MaxEvents : Receive(kind, first, u)

FeedSpec == FeedInit /\ [][FeedNext]_feedVars

-----------------------------------------------------------------------------
\* Whatever messages were lost, repeated, overtaken or overlapped, a valid book
\* differs from the venue's book after the event it names in two ways only: it
\* lacks levels, and then it was built from an update of one event that came
\* when no sequence was held; or it has levels the venue no longer has, and then
\* an image came in between and was decoded as a delta.  A size is never an old
\* one, and a book without such a message is the venue's.
ValidBookIsFaithful ==
  Valid => \A x \in Place :
    levels[x] # history[sequence][x] =>
      \/ levels[x] = 0 /\ "UPDATE_AS_BOOK" \in misread
      \/ history[sequence][x] = 0 /\ "IMAGE_AS_CHANGES" \in misread

\* README.md:168: "stale or gapped books ... fail closed".  A valid book that was
\* rebuilt after a gap is the venue's book after the event it names.
RebuiltBookIsFaithful == Valid /\ generation > 1 => levels = history[sequence]

\* Decoder and book keep the sequence separately.  While the book is valid they
\* agree, so the decoder never sends a snapshot to a valid book (apply throws)
\* and a delta it chains to its own last message chains to the book's.
DecoderFollowsBook == Valid => last = sequence
=============================================================================
