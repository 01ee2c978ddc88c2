----------------------------- MODULE MCExecution -----------------------------
(***************************************************************************)
(* The shadow engine, the validation of a plan, the search for the size of *)
(* a complete set and the identity of an order book, for TLC.              *)
(*                                                                         *)
(* The four share no variable, so they are explored side by side: machine  *)
(* says which of them moves in a behaviour, and the others rest.  The      *)
(* state graph is the disjoint union of theirs, and a formula about one    *)
(* holds here when it holds of that one alone.                             *)
(***************************************************************************)
EXTENDS ShadowExecution, PlanValidation, CompleteSetCompiler, BookIdentity

CONSTANTS a, b, c, d, p1, p2

VARIABLE machine

-----------------------------------------------------------------------------
(* Shadow engine: two plans that meet at venue a and compete for the       *)
(* capital of venue b.                                                     *)

MCVenue == {a, b}
MCPlan == {p1, p2}
MCInitialCapital == [v \in MCVenue |-> IF v = a THEN 3 ELSE 2]
MCAmount == 0..2
MCPlanOf == <<p1, p1, p2, p2>>
MCVenueOf == <<a, b, a, b>>
MCQuantity == <<2, 1, 1, 1>>
MCMaxDebit == <<2, 2, 1, 1>>

\* p1's second leg waits for its first to fill, p2's legs are independent.
MCDependency ==
  {[before |-> 1, after |-> 2, condition |-> "PARTIAL_OR_FILLED"]}

\* p1's certificate requires less of venue b than p1's debit there, and p2's
\* names venue a only.
MCCertificateCapital ==
  [p \in MCPlan |-> IF p = p1 THEN [v \in MCVenue |-> IF v = a THEN 2 ELSE 1]
                              ELSE [v \in {a} |-> 1]]
MCMaxCapital == [v \in MCVenue |-> IF v = a THEN 2 ELSE 1]

-----------------------------------------------------------------------------
(* Plans: every list of four dependencies among three intents, every list  *)
(* of two that may also refer to a fourth id, every triple of ids, and     *)
(* every combination of signs of the amounts of one intent.                *)

MCId == {a, b, c, d}
MCOrderId == {a, b, c}

intent(x, o, q, s, p, m) ==
  [id |-> x, clientOrderId |-> o, quantity |-> q, quantityScale |-> s,
   limitPrice |-> p, maxDebit |-> m]

good(x, o) == intent(x, o, 1, 1, 0, 1)

lists(S, n) == UNION {[1..k -> [before : S, after : S]] : k \in 0..n}

three == <<good(a, a), good(b, b), good(c, c)>>

Empty == [intents |-> <<>>, dependencies |-> <<>>]

MCPlans ==
  {[intents |-> three, dependencies |-> e] : e \in lists({a, b, c}, 4)}
    \union
  {[intents |-> three, dependencies |-> e] : e \in lists({a, b, c, d}, 2)}
    \union
  {[intents |-> <<good(w[1], w[2]), good(w[3], w[4]), good(c, c)>>,
    dependencies |-> <<[before |-> a, after |-> b]>>]
      : w \in [1..4 -> {a, b, c}]}
    \union
  {[intents |-> <<intent(a, a, w[1], w[2], w[3], w[4])>>, dependencies |-> <<>>]
      : w \in [1..4 -> {-1, 0, 1}]}
    \union
  {Empty}

-----------------------------------------------------------------------------
(* Complete sets: three legs at two venues, in every assignment of ticks   *)
(* up to six.                                                              *)

TLeg(v, price, fee, tick, max) ==
  [venue |-> v, price |-> price, rate |-> fee[1], rateScale |-> 4, flat |-> fee[2],
   quantityTick |-> tick, maxQuantity |-> max]

Third == {TLeg(b, 1, <<0, 1>>, tick, max) : tick \in {1, 3, 4}, max \in {0, 12}}

MCTemplates ==
  {[scale |-> 2, legs |-> <<p, q, r>>] :
    p \in {TLeg(a, price, fee, tick, 24) : price \in {1, 3}, fee \in {<<1, 0>>, <<0, 3>>},
                                           tick \in {0, 1, 2, 6}},
    q \in {TLeg(v, price, <<1, 1>>, tick, 24) : v \in {a, b}, price \in {0, 2}, tick \in {2, 5}},
    r \in Third}

MCLimits ==
  {[v \in {a, b} |-> IF v = a THEN n ELSE m] : n \in {-1, 7, 25}, m \in {9, 40}}
    \union {[v \in {a} |-> 100]}

-----------------------------------------------------------------------------
(* Books: two prices, one off the wider of two ticks.  Snapshots include   *)
(* one that throws on its asks, one with a duplicate price; deltas include *)
(* off-tick batches, one that goes backwards, and one that undoes another. *)

MCPrice == {2, 3}
MCSize == 0..2
MCTickSize == {1, 2}

Lvl(p, s) == [price |-> p, size |-> s]
Snap(n, t, bids, asks) == [sequence |-> n, tickSize |-> t, bids |-> bids, asks |-> asks]
Changes(S, s) == [x \in S |-> s]
MCDelta(m, n, changes) == [previousSequence |-> m, sequence |-> n, changes |-> changes]

MCSnapshots ==
  {Snap(0, 2, {Lvl(2, 1)}, {}), Snap(0, 1, {Lvl(3, 1)}, {Lvl(2, 1)}),
   Snap(1, 2, {Lvl(2, 1)}, {Lvl(3, 1)}), Snap(1, 2, {}, {Lvl(2, 0), Lvl(2, 1)}),
   Snap(2, 1, {Lvl(2, 1), Lvl(2, 2)}, {})}

MCDeltas ==
  {MCDelta(m, n, changes) : m \in 0..2, n \in 0..2,
     changes \in {Changes({<<"BID", 2>>}, 0), Changes({<<"BID", 2>>}, 1),
                  Changes({<<"BID", 2>>, <<"ASK", 3>>}, 1)}}

-----------------------------------------------------------------------------
(* Side by side. *)

\* A call of the validation, and one of the search, that have returned.
PlanRests ==
  /\ plan = Empty /\ verdict = "INVALID" /\ incomingCount = [x \in {} |-> 0]
  /\ ready = {} /\ visited = 0 /\ done = {}

CompilerRests ==
  /\ template = CHOOSE t \in Templates : TRUE
  /\ limits = [v \in {a} |-> 100]
  /\ phase = "THROWN"
  /\ commonTick = 1 /\ maxUnits = 0 /\ lower = 0 /\ upper = 0

Init ==
  /\ ShadowInit /\ IdentityInit
  /\ \/ machine \in {"shadow", "identity"} /\ PlanRests /\ CompilerRests
     \/ machine = "plan" /\ PlanInit /\ CompilerRests
     \/ machine = "compiler" /\ PlanRests /\ CompilerInit

Next ==
  /\ UNCHANGED machine
  /\ \/ machine = "shadow" /\ ShadowNext /\ UNCHANGED <<planVars, compilerVars, identityVars>>
     \/ machine = "plan" /\ PlanNext /\ UNCHANGED <<shadowVars, compilerVars, identityVars>>
     \/ machine = "compiler" /\ CompilerNext /\ UNCHANGED <<shadowVars, planVars, identityVars>>
     \/ machine = "identity" /\ IdentityNext /\ UNCHANGED <<shadowVars, planVars, compilerVars>>

vars == <<machine, shadowVars, planVars, compilerVars, identityVars>>

Spec == Init /\ [][Next]_vars

\* Type invariant of the four modules: whatever was called, every variable has
\* the type its module states.
TypesOK == ShadowTypeOK /\ PlanTypeOK /\ CompilerTypeOK /\ IdentityTypeOK
=============================================================================
