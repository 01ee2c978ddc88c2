----------------------------- MODULE BookIdentity -----------------------------
(***************************************************************************)
(* A consumer that binds a decision to a book (captureBookIdentity) and    *)
(* asks later if the book is still the one it saw (evaluateBookIdentity),  *)
(* while the book receives arbitrary events.                               *)
(***************************************************************************)
EXTENDS DeterministicBook

CONSTANTS Snapshots, Deltas   \* the events that may arrive

ASSUME EventAssumption == Snapshots \subseteq BookSnapshot /\ Deltas \subseteq BookDelta

VARIABLE binding              \* the identity captured last, or None

identityVars == <<lifecycle, generation, sequence, tickSize, levels, binding>>

\* generationHash and stateHash of a projection with a snapshot behind it.
Identity == [generation |-> generation, sequence |-> sequence, levels |-> levels]

BookIdentityBinding == [generation : Nat, sequence : Nat, levels : [Place -> Size]]

IdentityTypeOK == BookTypeOK /\ binding \in BookIdentityBinding \cup {None}

IdentityInit == BookInit /\ binding = None

\* evaluateBookIdentity
Verdict(b) ==
  IF ~Valid THEN "BOOK_NOT_VALID"
  ELSE IF generation = 0 THEN "IDENTITY_UNAVAILABLE"
  ELSE IF b.generation # generation THEN "GENERATION_CHANGED"
  ELSE IF b # Identity THEN "STATE_CHANGED"
  ELSE "MATCH"

\* captureBookIdentity
Capture ==
  /\ Valid
  /\ binding' = Identity
  /\ UNCHANGED bookVars

IdentityNext ==
  \/ Capture
  \/ /\ \/ \E s \in Snapshots : TakeSnapshot(s) \/ SnapshotThrows(s)
        \/ \E d \in Deltas : ApplyDelta(d)
        \/ MarkStale
        \/ BeginRebuild
     /\ UNCHANGED binding

IdentitySpec == IdentityInit /\ [][IdentityNext]_identityVars

-----------------------------------------------------------------------------
\* A binding that stopped matching never matches again: not after the book is
\* rebuilt to the same levels, not after the changes are undone by later
\* deltas, and not after a snapshot that threw half way.
BindingNeverRevives ==
  [][binding # None /\ binding' = binding /\ Verdict(binding) # "MATCH"
       => Verdict(binding)' # "MATCH"]_identityVars
=============================================================================
