---------------------------- MODULE SiloedCapital ----------------------------
(***************************************************************************)
(* What the ledger promises about each venue's capital, without            *)
(* reservations: capital is free, held, spent or due.  Held capital can go *)
(* back, spent capital cannot: it leaves only through a settlement, which  *)
(* replaces it by whatever is due, and what is due is then recovered.      *)
(* Venues are silos: a step moves capital inside venues, never between.    *)
(***************************************************************************)
EXTENDS Integers

CONSTANTS Venue, InitialCapital

VARIABLES free, held, spent, due

siloVars == <<free, held, spent, due>>

Init ==
  /\ free = InitialCapital
  /\ held  = [v \in Venue |-> 0]
  /\ spent = [v \in Venue |-> 0]
  /\ due   = [v \in Venue |-> 0]

Keep(v) ==
  /\ free'[v] = free[v] /\ held'[v] = held[v]
  /\ spent'[v] = spent[v] /\ due'[v] = due[v]

Hold(v) ==
  /\ free'[v] >= 0 /\ free'[v] < free[v]
  /\ held'[v] = held[v] + free[v] - free'[v]
  /\ spent'[v] = spent[v] /\ due'[v] = due[v]

\* Some held capital is spent and some goes back.
Unhold(v) ==
  /\ held'[v] >= 0 /\ held'[v] < held[v]
  /\ spent'[v] >= spent[v] /\ free'[v] >= free[v]
  /\ spent'[v] - spent[v] + free'[v] - free[v] = held[v] - held'[v]
  /\ due'[v] = due[v]

Settle(v) ==
  /\ spent'[v] >= 0 /\ spent'[v] < spent[v]
  /\ due'[v] >= due[v]
  /\ free'[v] = free[v] /\ held'[v] = held[v]

Recover(v) ==
  /\ due'[v] >= 0 /\ due'[v] < due[v]
  /\ free'[v] = free[v] + due[v] - due'[v]
  /\ held'[v] = held[v] /\ spent'[v] = spent[v]

VenueStep(v) == Keep(v) \/ Hold(v) \/ Unhold(v) \/ Settle(v) \/ Recover(v)

Next == \A v \in Venue : VenueStep(v)

Spec == Init /\ [][Next]_siloVars
=============================================================================
