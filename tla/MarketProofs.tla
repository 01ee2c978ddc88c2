----------------------------- MODULE MarketProofs -----------------------------
(***************************************************************************)
(* Theorems about plans and proposals, and about order books.              *)
(*                                                                         *)
(* Proofs about PlanValidation, for any plans over any ids, and about      *)
(* CompleteSetCompiler, for any legs, prices, fees, ticks and limits.      *)
(*                                                                         *)
(* PlanValidation: the walk accepts exactly the plans whose dependencies   *)
(* have no cycle.  The set of visited intents is closed under dependencies *)
(* and has no cycle; an intent that is not visited and not ready has a     *)
(* dependency among those not visited.  When nothing is ready, either      *)
(* every intent has been visited, or those left wait for each other.       *)
(*                                                                         *)
(* CompleteSetCompiler: the bisection keeps a number of ticks that fits    *)
(* and the first one beyond which it need not look; where they meet is the *)
(* proposal.  It is the largest because debits are rounded up to whole     *)
(* units and still never fall when the quantity grows, neither leg by leg  *)
(* nor summed over the legs of a venue.                                    *)
(*                                                                         *)
(* Proofs about the two uses of DeterministicBook, for any prices, sizes   *)
(* and ticks.                                                              *)
(*                                                                         *)
(* BookIdentity, for arbitrary snapshots and deltas: a bound identity that *)
(* stopped matching never matches again, and a valid book is on its tick.  *)
(* What makes it so is an order: the generation, then the sequence, of a   *)
(* book never goes down while it is valid, and a book that is not valid    *)
(* becomes valid only with a new generation.                               *)
(*                                                                         *)
(* GeminiBookFeed, for any number of events and whatever messages arrive:  *)
(* a book fed by the Gemini decoder differs from the venue's only in what  *)
(* a misread message left out or left in.                                  *)
(***************************************************************************)
EXTENDS PlanValidation, CompleteSetCompiler, BookIdentity, GeminiBookFeed, FiniteFolds

Walked == verdict \in {"WALKING", "ACCEPTED", "CYCLE"}

(* What the walk has established about the intents it visited. *)
WalkInv ==
  Walked =>
    /\ IdsAreUnique
    /\ DependenciesAreKnown
    /\ \A x \in Known : incomingCount[x] = Cardinality(EdgesInto(Known \ done, x))
    /\ ready = {x \in Known \ done : incomingCount[x] = 0}
    /\ visited = Cardinality(done)
    /\ \A k \in Edges : After(k) \in done => Before(k) \in done
    /\ Executable(done)

(* How the walk ends. *)
Answer ==
  /\ verdict = "UNREAD" => done = {} /\ visited = 0
  /\ verdict \in {"ACCEPTED", "CYCLE"} =>
       /\ ready = {}
       /\ verdict = "ACCEPTED" <=> done = Known

PlanInv == PlanTypeOK /\ WalkInv /\ Answer

-----------------------------------------------------------------------------
(* Lemmas about the dependencies *)

LEMMA EdgesAreFinite ==
  ASSUME PlanTypeOK, NEW S, NEW x
  PROVE  /\ IsFiniteSet(EdgesInto(S, x))
         /\ Cardinality(EdgesInto(S, x)) \in Nat
         /\ Cardinality(EdgesInto(S, x)) = 0 <=> EdgesInto(S, x) = {}
<1>1. PICK n \in Nat : Edges = 1..n
  BY DEF PlanTypeOK, Edges
<1>2. IsFiniteSet(Edges)
  BY <1>1, FS_Interval
<1>3. EdgesInto(S, x) \in SUBSET Edges
  BY DEF EdgesInto
<1> QED BY <1>2, <1>3, FS_Subset, FS_CardinalityType, FS_EmptySet

\* Removing an intent from the sources removes exactly its edges.
LEMMA CountOff ==
  ASSUME PlanTypeOK, NEW S, NEW i \in S, NEW x
  PROVE  Cardinality(EdgesInto(S \ {i}, x))
           = Cardinality(EdgesInto(S, x)) - Cardinality(EdgesInto({i}, x))
<1> DEFINE A == EdgesInto(S \ {i}, x)
           B == EdgesInto({i}, x)
<1>1. A \cup B = EdgesInto(S, x) /\ A \cap B = {}
  BY DEF EdgesInto
<1>2. IsFiniteSet(A) /\ IsFiniteSet(B) /\ Cardinality(A) \in Nat /\ Cardinality(B) \in Nat
  BY EdgesAreFinite
<1>3. Cardinality(A \cup B) = Cardinality(A) + Cardinality(B) - Cardinality(A \cap B)
  BY <1>2, FS_Union
<1>4. Cardinality(A \cap B) = 0
  BY <1>1, FS_EmptySet
<1>5. Cardinality(A \cup B) = Cardinality(EdgesInto(S, x))
  BY <1>1
<1> HIDE DEF A, B
<1>6. Cardinality(A) = Cardinality(A \cup B) - Cardinality(B)
  BY <1>2, <1>3, <1>4
<1> QED BY <1>5, <1>6 DEF A, B

LEMMA KnownIsFinite ==
  ASSUME PlanTypeOK
  PROVE  /\ IsFiniteSet(Known)
         /\ IdsAreUnique => Cardinality(Known) = Len(plan.intents)
<1> DEFINE D == 1..Len(plan.intents)
           f == [n \in D |-> plan.intents[n].id]
<1>1. plan.intents \in Seq(Intents) /\ Len(plan.intents) \in Nat /\ DOMAIN plan.intents = D
  BY DEF PlanTypeOK
<1>2. f \in Surjection(D, Known)
  BY <1>1 DEF Surjection, Known
<1>3. IsFiniteSet(D) /\ Cardinality(D) = Len(plan.intents)
  BY <1>1, FS_Interval
<1>4. IdsAreUnique => f \in Injection(D, Known)
  BY <1>1, <1>2 DEF Injection, IsInjective, Surjection, IdsAreUnique
<1>5. IsFiniteSet(Known) /\ (Cardinality(Known) = Cardinality(D) <=> f \in Injection(D, Known))
  BY <1>2, <1>3, FS_Surjection
<1> QED BY <1>3, <1>4, <1>5

-----------------------------------------------------------------------------
(* The invariant *)

LEMMA PlanInitHolds == PlanInit => PlanInv
<1> SUFFICES ASSUME PlanInit PROVE PlanInv
  OBVIOUS
<1>1. plan.intents \in Seq(Intents) /\ plan.dependencies \in Seq([before : Id, after : Id])
  BY PlansAssumption DEF PlanInit
<1>2. PlanTypeOK
  BY <1>1 DEF PlanInit, PlanTypeOK
<1> QED BY <1>2 DEF PlanInit, PlanInv, WalkInv, Walked, Answer

LEMMA SamePlan ==
  ASSUME plan' = plan
  PROVE  /\ Known' = Known /\ Edges' = Edges
         /\ IdsAreUnique' = IdsAreUnique /\ DependenciesAreKnown' = DependenciesAreKnown
         /\ \A k : Before(k)' = Before(k) /\ After(k)' = After(k)
         /\ \A S, x : EdgesInto(S, x)' = EdgesInto(S, x)
         /\ \A S : Executable(S)' = Executable(S)
  BY DEF Known, Edges, IdsAreUnique, DependenciesAreKnown, Before, After, EdgesInto, Executable

LEMMA ReadStep == PlanInv /\ ReadPlan => PlanInv'
<1> SUFFICES ASSUME PlanInv, ReadPlan PROVE PlanInv'
  OBVIOUS
<1> USE DEF PlanInv
<1>1. plan' = plan /\ done' = {} /\ visited' = 0 /\ verdict' = "WALKING" /\ done = {}
  BY DEF ReadPlan, Answer
<1>2. \A x \in Known : EdgesInto(Known, x) = EdgesInto(Known \ {}, x)
  OBVIOUS
<1>3. \A x \in Known : incomingCount'[x] = Cardinality(EdgesInto(Known, x))
  BY DEF ReadPlan, Incoming
<1>4. PlanTypeOK'
  <2>1. incomingCount' \in [Known -> Nat]
    BY EdgesAreFinite DEF ReadPlan, Incoming
  <2> QED BY <1>1, <2>1, SamePlan DEF PlanTypeOK, ReadPlan
<1>5. ready' = {x \in Known \ {} : incomingCount'[x] = 0}
  BY <1>3 DEF ReadPlan, Incoming
<1>6. Executable({})
  BY DEF Executable
<1>7. WalkInv'
  <2>1. IdsAreUnique' /\ DependenciesAreKnown'
    BY <1>1, SamePlan DEF ReadPlan
  <2>2. \A x \in Known' : incomingCount'[x] = Cardinality(EdgesInto(Known \ done, x))'
    BY <1>1, <1>2, <1>3, SamePlan
  <2>3. ready' = {x \in (Known \ done)' : incomingCount'[x] = 0}
    BY <1>1, <1>5, SamePlan
  <2>4. visited' = Cardinality(done')
    BY <1>1, FS_EmptySet
  <2>5. Executable(done)'
    BY <1>1, <1>6, SamePlan DEF Executable
  <2> QED BY <1>1, <2>1, <2>2, <2>3, <2>4, <2>5 DEF WalkInv
<1>8. Answer'
  BY <1>1 DEF Answer
<1> QED BY <1>4, <1>7, <1>8

\* The intents visited stay free of cycles: nothing visited before waits for
\* the intent that is visited now.
LEMMA VisitKeepsExecutable ==
  ASSUME NEW i, i \notin done, Executable(done),
         \A k \in Edges : After(k) \in done => Before(k) \in done,
         \A k \in Edges : After(k) = i => Before(k) \in done
  PROVE  Executable(done \cup {i})
<1> SUFFICES ASSUME NEW G \in SUBSET (done \cup {i}), G # {}
             PROVE  \E x \in G : EdgesInto(G, x) = {}
  BY DEF Executable
<1>1. CASE G \ {i} = {}
  <2>1. i \in G /\ G = {i}
    BY <1>1
  <2>2. EdgesInto(G, i) = {}
    BY <2>1 DEF EdgesInto
  <2> QED BY <2>1, <2>2
<1>2. CASE G \ {i} # {}
  <2>1. PICK x \in G \ {i} : EdgesInto(G \ {i}, x) = {}
    BY <1>2 DEF Executable
  <2>2. EdgesInto(G, x) = {}
    BY <2>1 DEF EdgesInto
  <2> QED BY <2>2
<1> QED BY <1>1, <1>2

LEMMA VisitStep == \A i \in Id : PlanInv /\ Visit(i) => PlanInv'
<1> SUFFICES ASSUME NEW i \in Id, PlanInv, Visit(i) PROVE PlanInv'
  OBVIOUS
<1> USE DEF PlanInv
<1>1. /\ plan' = plan /\ verdict' = "WALKING" /\ verdict = "WALKING"
      /\ done' = done \cup {i} /\ visited' = visited + 1
      /\ i \in ready /\ i \in Known /\ i \notin done /\ incomingCount[i] = 0
  BY DEF Visit, WalkInv, Walked
<1>2. /\ DependenciesAreKnown /\ IdsAreUnique /\ Executable(done)
      /\ \A x \in Known : incomingCount[x] = Cardinality(EdgesInto(Known \ done, x))
      /\ ready = {x \in Known \ done : incomingCount[x] = 0}
      /\ \A k \in Edges : After(k) \in done => Before(k) \in done
  BY <1>1 DEF WalkInv, Walked
<1>3. Known \ (done \cup {i}) = (Known \ done) \ {i} /\ i \in Known \ done
  BY <1>1
<1>4. \A x \in Known :
        incomingCount'[x] = Cardinality(EdgesInto(Known \ (done \cup {i}), x))
  <2> SUFFICES ASSUME NEW x \in Known
               PROVE incomingCount'[x] = Cardinality(EdgesInto(Known \ (done \cup {i}), x))
    OBVIOUS
  <2>1. incomingCount'[x] = incomingCount[x] - Cardinality(EdgesInto({i}, x))
    BY DEF Visit, Remaining
  <2>2. Cardinality(EdgesInto((Known \ done) \ {i}, x))
          = Cardinality(EdgesInto(Known \ done, x)) - Cardinality(EdgesInto({i}, x))
    BY <1>3, CountOff
  <2> QED BY <1>2, <1>3, <2>1, <2>2
<1>5. PlanTypeOK'
  <2>1. incomingCount' \in [Known -> Nat]
    <3>1. incomingCount' = [x \in Known |-> incomingCount'[x]]
      BY DEF Visit, Remaining
    <3>2. \A x \in Known : incomingCount'[x] \in Nat
      BY <1>4, EdgesAreFinite
    <3> QED BY <3>1, <3>2
  <2>2. Known' = Known
    BY <1>1, SamePlan
  <2>3. ready' \subseteq Known /\ done' \subseteq Known /\ visited' \in Nat
    BY <1>1 DEF Visit, Freed, PlanTypeOK
  <2> QED BY <1>1, <2>1, <2>2, <2>3 DEF PlanTypeOK
<1>6. \A k \in Edges : After(k) = i => Before(k) \in done
  <2>1. EdgesInto(Known \ done, i) = {}
    BY <1>1, <1>2, EdgesAreFinite
  <2> QED BY <1>2, <2>1 DEF EdgesInto, DependenciesAreKnown
<1>7. Executable(done \cup {i})
  BY <1>1, <1>2, <1>6, VisitKeepsExecutable
<1>8. ready' = {x \in Known \ (done \cup {i}) : incomingCount'[x] = 0}
  <2>1. \A x \in Known : incomingCount'[x] = incomingCount[x] - Cardinality(EdgesInto({i}, x))
                         /\ incomingCount[x] \in Nat
    BY DEF Visit, Remaining, PlanTypeOK
  <2>2. ASSUME NEW x \in ready \ {i}
        PROVE  x \in Known \ (done \cup {i}) /\ incomingCount'[x] = 0
    <3>1. x \in Known \ done /\ incomingCount[x] = 0
      BY <1>2, <2>2
    <3>2. incomingCount'[x] \in Nat /\ Cardinality(EdgesInto({i}, x)) \in Nat
      BY <3>1, <1>4, EdgesAreFinite
    <3> QED BY <2>1, <2>2, <3>1, <3>2
  <2>3. ASSUME NEW x \in Freed(i)
        PROVE  x \in Known \ (done \cup {i}) /\ incomingCount'[x] = 0
    <3>1. x \in Known /\ EdgesInto({i}, x) # {} /\ incomingCount'[x] = 0
      BY <2>3 DEF Freed, Visit
    <3>2. PICK k \in Edges : Before(k) = i /\ After(k) = x
      BY <3>1 DEF EdgesInto
    <3>3. x # i /\ x \notin done
      BY <1>1, <1>2, <3>2 DEF DependenciesAreKnown
    <3> QED BY <3>1, <3>3
  <2>4. ASSUME NEW x \in Known \ (done \cup {i}), incomingCount'[x] = 0
        PROVE  x \in (ready \ {i}) \cup Freed(i)
    <3>1. CASE EdgesInto({i}, x) = {}
      <4>1. Cardinality(EdgesInto({i}, x)) = 0
        BY <3>1, FS_EmptySet
      <4>2. incomingCount[x] = 0
        BY <2>1, <2>4, <4>1
      <4> QED BY <1>2, <2>4, <4>2
    <3>2. CASE EdgesInto({i}, x) # {}
      BY <2>4, <3>2 DEF Freed, Visit
    <3> QED BY <3>1, <3>2
  <2>5. ready' = (ready \ {i}) \cup Freed(i)
    BY DEF Visit
  <2> QED BY <2>2, <2>3, <2>4, <2>5
<1>9. visited' = Cardinality(done')
  <2>1. IsFiniteSet(done)
    BY KnownIsFinite, FS_Subset DEF PlanTypeOK
  <2>2. Cardinality(done \cup {i}) = Cardinality(done) + 1
    BY <1>1, <2>1, FS_AddElement
  <2>3. visited = Cardinality(done)
    BY <1>1 DEF WalkInv, Walked
  <2> QED BY <1>1, <2>2, <2>3
<1>10. WalkInv'
  <2>1. IdsAreUnique' /\ DependenciesAreKnown'
    BY <1>1, <1>2, SamePlan
  <2>2. \A x \in Known' : incomingCount'[x] = Cardinality(EdgesInto(Known \ done, x))'
    BY <1>1, <1>4, SamePlan DEF EdgesInto
  <2>3. ready' = {x \in (Known \ done)' : incomingCount'[x] = 0}
    BY <1>1, <1>8, SamePlan
  <2>4. \A k \in Edges' : After(k)' \in done' => Before(k)' \in done'
    BY <1>1, <1>2, <1>6, SamePlan
  <2>5. Executable(done)'
    BY <1>1, <1>7, SamePlan DEF Executable, EdgesInto
  <2> QED BY <1>9, <2>1, <2>2, <2>3, <2>4, <2>5 DEF WalkInv
<1>11. Answer'
  BY <1>1 DEF Answer
<1> QED BY <1>5, <1>10, <1>11

LEMMA ConcludeStep == PlanInv /\ Conclude => PlanInv'
<1> SUFFICES ASSUME PlanInv, Conclude PROVE PlanInv'
  OBVIOUS
<1> USE DEF PlanInv
<1>1. plan' = plan /\ UNCHANGED <<incomingCount, ready, visited, done>> /\ Walked /\ ready = {}
  BY DEF Conclude, Walked
<1>2. PlanTypeOK'
  BY <1>1, SamePlan DEF PlanTypeOK, Conclude
<1>3. WalkInv'
  BY <1>1, SamePlan DEF WalkInv, Executable, EdgesInto
<1>4. verdict' = "ACCEPTED" <=> done = Known
  <2>1. IsFiniteSet(Known) /\ Cardinality(Known) = Len(plan.intents)
    BY <1>1, KnownIsFinite DEF WalkInv
  <2>2. Cardinality(done) = Cardinality(Known) <=> done = Known
    BY <2>1, FS_Subset DEF PlanTypeOK
  <2>3. visited = Cardinality(done)
    BY <1>1 DEF WalkInv
  <2> QED BY <2>1, <2>2, <2>3 DEF Conclude
<1>5. Answer'
  BY <1>1, <1>4, SamePlan DEF Answer, Conclude
<1> QED BY <1>2, <1>3, <1>5

LEMMA PlanStep == PlanInv /\ [PlanNext]_planVars => PlanInv'
<1> SUFFICES ASSUME PlanInv, [PlanNext]_planVars PROVE PlanInv'
  OBVIOUS
<1>1. CASE RefusePlan
  <2>1. plan' = plan /\ verdict' = "INVALID" /\ UNCHANGED <<incomingCount, ready, visited, done>>
    BY <1>1 DEF RefusePlan
  <2>2. PlanTypeOK'
    BY <2>1, SamePlan DEF PlanInv, PlanTypeOK
  <2> QED BY <2>1, <2>2 DEF PlanInv, WalkInv, Walked, Answer
<1>2. CASE UNCHANGED planVars
  <2>1. plan' = plan /\ UNCHANGED <<verdict, incomingCount, ready, visited, done>>
    BY <1>2 DEF planVars
  <2> QED BY <2>1, SamePlan DEF PlanInv, PlanTypeOK, WalkInv, Walked, Answer, Executable, EdgesInto
<1> QED BY <1>1, <1>2, ReadStep, VisitStep, ConcludeStep DEF PlanNext

-----------------------------------------------------------------------------
(* Theorems *)

\* The walk's counts, its ready intents and the intents it visited.
THEOREM PlanInvariant == PlanSpec => []PlanInv
BY PlanInitHolds, PlanStep, PTL DEF PlanSpec

\* The variables of the validation keep their types (PlanTypeOK).
THEOREM PlanTypes == PlanSpec => []PlanTypeOK
<1>1. PlanInv => PlanTypeOK
  BY DEF PlanInv
<1> QED BY <1>1, PlanInvariant, PTL

\* What validateExecutionPlan returns can be executed in some order
\* (AcceptedIsExecutable).
THEOREM AcceptedPlansExecute == PlanSpec => []AcceptedIsExecutable
<1>1. PlanInv => AcceptedIsExecutable
  BY DEF PlanInv, AcceptedIsExecutable, WalkInv, Walked, Answer, DependenciesAreKnown
<1> QED BY <1>1, PlanInvariant, PTL

\* No plan without a cycle is refused for one, repeated dependencies included
\* (CycleIsReal).
THEOREM RefusedPlansHaveCycles == PlanSpec => []CycleIsReal
<1>1. ASSUME PlanInv, verdict = "CYCLE" PROVE ~Executable(Known)
  <2> DEFINE left == Known \ done
  <2>1. left # {}
    BY <1>1 DEF PlanInv, Answer, PlanTypeOK
  <2>2. \A x \in left : EdgesInto(left, x) # {}
    <3>1. \A x \in left : incomingCount[x] # 0
      BY <1>1 DEF PlanInv, WalkInv, Walked, Answer
    <3>2. \A x \in left : incomingCount[x] = Cardinality(EdgesInto(left, x))
      BY <1>1 DEF PlanInv, WalkInv, Walked
    <3> QED BY <1>1, <3>1, <3>2, EdgesAreFinite DEF PlanInv
  <2> QED BY <2>1, <2>2 DEF Executable
<1>2. PlanInv => CycleIsReal
  BY <1>1 DEF CycleIsReal
<1> QED BY <1>2, PlanInvariant, PTL

\* The walk counts off each dependency once (CountsAreExact).
THEOREM CountsStayExact == PlanSpec => []CountsAreExact
<1>1. PlanInv => CountsAreExact
  BY DEF PlanInv, CountsAreExact, WalkInv, Walked
<1> QED BY <1>1, PlanInvariant, PTL

-----------------------------------------------------------------------------
(* Arithmetic *)

LEMMA ProductIsMonotone ==
  ASSUME NEW m \in Int, NEW n \in Int, m <= n, NEW k \in Nat
  PROVE  m * k <= n * k
<1>1. (n - m) * k >= 0
  OBVIOUS
<1>2. (n - m) * k = n * k - m * k
  OBVIOUS
<1> QED BY <1>1, <1>2

LEMMA Division ==
  ASSUME NEW m \in Int, NEW d \in Nat \ {0}
  PROVE  m \div d \in Int /\ d * (m \div d) <= m /\ m < d * (m \div d) + d
OBVIOUS

LEMMA DivisionIsMonotone ==
  ASSUME NEW m \in Int, NEW n \in Int, m <= n, NEW d \in Nat \ {0}
  PROVE  m \div d <= n \div d
<1> DEFINE a == m \div d
           b == n \div d
<1>1. /\ a \in Int /\ b \in Int /\ d \in Int /\ d > 0
      /\ d * a <= m /\ n < d * b + d
  BY Division
<1> HIDE DEF a, b
<1>2. SUFFICES ASSUME a >= b + 1 PROVE FALSE
  BY <1>1 DEF a, b
<1>3. (b + 1) * d <= a * d
  BY <1>1, <1>2, ProductIsMonotone
<1>4. (b + 1) * d = d * b + d /\ a * d = d * a /\ d * a \in Int /\ d * b \in Int
  BY <1>1
<1> QED BY <1>1, <1>3, <1>4

\* divideCeil never falls when what it divides grows.
LEMMA DivideCeilIsMonotone ==
  ASSUME NEW m \in Int, NEW n \in Int, m <= n, NEW d \in Nat \ {0}
  PROVE  /\ DivideCeil(m, d) \in Int /\ DivideCeil(n, d) \in Int
         /\ DivideCeil(m, d) <= DivideCeil(n, d)
<1>1. -m \in Int /\ -n \in Int /\ -n <= -m
  OBVIOUS
<1>2. (-n) \div d <= (-m) \div d
  BY <1>1, DivisionIsMonotone
<1>3. (-n) \div d \in Int /\ (-m) \div d \in Int
  BY <1>1, Division
<1> QED BY <1>2, <1>3 DEF DivideCeil

-----------------------------------------------------------------------------
(* Debits *)

LEMMA TemplateLegFacts ==
  ASSUME CompilerTypeOK, NEW l \in Leg
  PROVE  /\ template.scale \in Nat \ {0}
         /\ template.legs[l].price \in Nat /\ template.legs[l].rate \in Nat
         /\ template.legs[l].rateScale \in Nat \ {0} /\ template.legs[l].flat \in Nat
         /\ template.legs[l].maxQuantity \in Int
<1>1. template.scale \in Nat \ {0} /\ template.legs[l] \in TemplateLegs
  BY TemplatesAssumption DEF CompilerTypeOK
<1> QED BY <1>1 DEF TemplateLegs

\* A leg's debit, its notional and its fee each rounded up, never falls when the
\* quantity grows.
LEMMA DebitIsMonotone ==
  ASSUME CompilerTypeOK, NEW l \in Leg, NEW m \in Nat, NEW n \in Nat, m <= n
  PROVE  /\ DebitAtQuantity(template, l, m) \in Int
         /\ DebitAtQuantity(template, l, n) \in Int
         /\ DebitAtQuantity(template, l, m) <= DebitAtQuantity(template, l, n)
<1> DEFINE leg == template.legs[l]
           x == DivideCeil(m * leg.price, template.scale)
           y == DivideCeil(n * leg.price, template.scale)
           u == DivideCeil(x * leg.rate, leg.rateScale)
           w == DivideCeil(y * leg.rate, leg.rateScale)
<1>1. /\ template.scale \in Nat \ {0} /\ leg.price \in Nat /\ leg.rate \in Nat
      /\ leg.rateScale \in Nat \ {0} /\ leg.flat \in Nat
  BY TemplateLegFacts
<1>2. /\ DebitAtQuantity(template, l, m) = x + leg.flat + u
      /\ DebitAtQuantity(template, l, n) = y + leg.flat + w
  BY DEF DebitAtQuantity
<1>3. x \in Int /\ y \in Int /\ x <= y
  <2>1. m * leg.price \in Int /\ n * leg.price \in Int /\ m * leg.price <= n * leg.price
    <3> HIDE DEF leg
    <3> QED BY <1>1, ProductIsMonotone
  <2> QED BY <1>1, <2>1, DivideCeilIsMonotone
<1> HIDE DEF x, y
<1>4. u \in Int /\ w \in Int /\ u <= w
  <2>1. x * leg.rate \in Int /\ y * leg.rate \in Int /\ x * leg.rate <= y * leg.rate
    <3> HIDE DEF leg
    <3> QED BY <1>1, <1>3, ProductIsMonotone
  <2> QED BY <1>1, <2>1, DivideCeilIsMonotone
<1> HIDE DEF u, w, leg
<1> QED BY <1>1, <1>2, <1>3, <1>4

\* What fits the silos at one quantity fits them at every smaller one.
LEMMA FittingIsMonotone ==
  ASSUME CompilerTypeOK, NEW m \in Nat, NEW n \in Nat, m <= n,
         CapitalFits(template, n, limits)
  PROVE  CapitalFits(template, m, limits)
<1> SUFFICES ASSUME NEW v \in Used(template)
             PROVE  /\ v \in DOMAIN limits /\ limits[v] >= 0
                    /\ Required(template, v, m) <= limits[v]
  BY DEF CapitalFits
<1>1. v \in DOMAIN limits /\ limits[v] >= 0 /\ Required(template, v, n) <= limits[v]
  BY DEF CapitalFits
<1>2. limits[v] \in Int
  BY <1>1, LimitsAssumption DEF CompilerTypeOK
<1> DEFINE S == LegsAt(template, v)
           f == Debits(template, m)
           g == Debits(template, n)
<1>3. IsFiniteSet(S) /\ S \subseteq Leg
  <2>1. S \subseteq Leg
    BY DEF LegsAt
  <2> QED BY <2>1, LegAssumption, FS_Subset
<1>4. \A l \in S : f[l] \in Int /\ g[l] \in Int /\ f[l] <= g[l]
  BY <1>3, DebitIsMonotone DEF Debits
<1> HIDE DEF S, f, g
<1>5. /\ SumFunctionOnSet(f, S) <= SumFunctionOnSet(g, S)
      /\ SumFunctionOnSet(f, S) \in Int /\ SumFunctionOnSet(g, S) \in Int
  BY <1>3, <1>4, SumIsMonotone, SumIsInt
<1>6. /\ Required(template, v, m) = SumFunctionOnSet(f, S)
      /\ Required(template, v, n) = SumFunctionOnSet(g, S)
  BY DEF Required, f, g, S
<1> QED BY <1>1, <1>2, <1>5, <1>6

\* The depth of the shallowest leg is a number.
LEMMA DepthIsInt == CompilerTypeOK => DepthBound \in Int
<1> SUFFICES ASSUME CompilerTypeOK PROVE DepthBound \in Int
  OBVIOUS
<1> DEFINE depth == [l \in Leg |-> template.legs[l].maxQuantity]
<1>1. \A l \in Leg : depth[l] \in Int
  BY TemplateLegFacts
<1>2. \E n \in Leg : \A k \in Leg : depth[n] <= depth[k]
  <2> HIDE DEF depth
  <2> QED BY <1>1, LegAssumption, LeastValue
<1>3. \E x \in {template.legs[l].maxQuantity : l \in Leg} :
        \A y \in {template.legs[l].maxQuantity : l \in Leg} : x <= y
  BY <1>2
<1> QED BY <1>1, <1>3 DEF DepthBound, Min

-----------------------------------------------------------------------------
(* The search *)

(* What the loop knows of its bounds. *)
BoundsInv ==
  phase \in {"SEARCH", "PROPOSED"} =>
    /\ lower > 0 => CapitalFits(template, lower * commonTick, limits)
    /\ upper < maxUnits => ~CapitalFits(template, (upper + 1) * commonTick, limits)

(* Where it ends. *)
EndInv == phase = "PROPOSED" => lower = upper /\ lower > 0

(* What the checks before it have read, and why a refusal is one: the depth is *)
(* below one tick, or one tick does not fit.                                   *)
ReadInv ==
  phase # "READ" /\ commonTick \in Nat \ {0} => maxUnits = DepthBound \div commonTick

RefusalInv ==
  phase = "THROWN" /\ commonTick \in Nat \ {0} /\ maxUnits > 0 =>
    ~CapitalFits(template, commonTick, limits)

SearchInv == CompilerTypeOK /\ BoundsInv /\ EndInv /\ ReadInv /\ RefusalInv

\* The middle lies above the lower bound and not above the upper.
LEMMA MiddleIsBetween ==
  ASSUME lower \in Nat, upper \in Nat, lower < upper
  PROVE  Middle \in Nat /\ lower < Middle /\ Middle <= upper
BY DEF Middle

LEMMA NextTick ==
  ASSUME NEW n \in Nat, NEW t \in Nat
  PROVE  (n + 1) * t = n * t + t
OBVIOUS

LEMMA ProductIsPositive ==
  ASSUME NEW n \in Nat \ {0}, NEW t \in Nat \ {0}
  PROVE  n * t > 0
OBVIOUS

LEMMA InitSearch == CompilerInit => SearchInv
BY DEF CompilerInit, SearchInv, CompilerTypeOK, BoundsInv, EndInv, ReadInv, RefusalInv

LEMMA NarrowSearch == SearchInv /\ Narrow => SearchInv'
<1> SUFFICES ASSUME SearchInv, Narrow PROVE SearchInv'
  OBVIOUS
<1>1. /\ lower \in Nat /\ upper \in Nat /\ maxUnits \in Nat /\ commonTick \in Nat \ {0}
      /\ lower < upper /\ upper <= maxUnits
  BY DEF SearchInv, CompilerTypeOK, Narrow
<1>2. Middle \in Nat /\ lower < Middle /\ Middle <= upper
  BY <1>1, MiddleIsBetween
<1>3. UNCHANGED <<template, limits, phase, commonTick, maxUnits>> /\ phase = "SEARCH"
  BY DEF Narrow
<1>6. ReadInv'
  BY <1>3 DEF SearchInv, ReadInv, DepthBound
<1>4. CASE CapitalFits(template, Middle * commonTick, limits)
             /\ lower' = Middle /\ UNCHANGED upper
  <2>1. CompilerTypeOK'
    BY <1>1, <1>2, <1>3, <1>4 DEF SearchInv, CompilerTypeOK
  <2>2. BoundsInv'
    BY <1>3, <1>4 DEF SearchInv, BoundsInv
  <2> QED BY <2>1, <2>2, <1>3, <1>6 DEF SearchInv, EndInv, RefusalInv
<1>5. CASE ~CapitalFits(template, Middle * commonTick, limits)
             /\ upper' = Middle - 1 /\ UNCHANGED lower
  <2>1. upper' + 1 = Middle /\ upper' \in Nat /\ lower' <= upper' /\ upper' <= maxUnits'
    BY <1>1, <1>2, <1>3, <1>5
  <2>2. CompilerTypeOK'
    BY <2>1, <1>1, <1>3, <1>5 DEF SearchInv, CompilerTypeOK
  <2>3. BoundsInv'
    BY <2>1, <1>3, <1>5 DEF SearchInv, BoundsInv
  <2> QED BY <2>2, <2>3, <1>3, <1>6 DEF SearchInv, EndInv, RefusalInv
<1> QED BY <1>4, <1>5 DEF Narrow

LEMMA ReadSearch == SearchInv /\ ReadLeg => SearchInv'
<1> SUFFICES ASSUME SearchInv, ReadLeg PROVE SearchInv'
  OBVIOUS
<1>1. /\ UNCHANGED <<template, limits>> /\ commonTick' = CommonTick
      /\ maxUnits' = IF commonTick' \in Nat \ {0} THEN DepthBound \div commonTick' ELSE 0
      /\ phase' = IF maxUnits' \in Nat \ {0} THEN "SEARCH" ELSE "THROWN"
      /\ lower' = 0 /\ upper' = maxUnits'
  BY DEF ReadLeg, Units
<1>2. DepthBound' = DepthBound /\ DepthBound \in Int
  BY <1>1, DepthIsInt DEF DepthBound, SearchInv
<1>3. maxUnits' \in Int
  BY <1>1, <1>2, Division
<1>4. phase' = "SEARCH" => commonTick' \in Nat \ {0}
  BY <1>1
<1>5. CompilerTypeOK'
  BY <1>1, <1>4 DEF SearchInv, CompilerTypeOK
<1>6. BoundsInv' /\ EndInv'
  BY <1>1 DEF BoundsInv, EndInv
<1>7. ReadInv' /\ RefusalInv'
  BY <1>1, <1>2, <1>3 DEF ReadInv, RefusalInv
<1> QED BY <1>5, <1>6, <1>7 DEF SearchInv

LEMMA ProposeSearch == SearchInv /\ Propose => SearchInv'
<1> SUFFICES ASSUME SearchInv, Propose PROVE SearchInv'
  OBVIOUS
<1>1. /\ UNCHANGED <<template, limits, commonTick, maxUnits, lower, upper>>
      /\ phase = "SEARCH" /\ phase' = IF lower = 0 THEN "THROWN" ELSE "PROPOSED"
      /\ lower \in Nat /\ upper \in Nat /\ lower = upper /\ maxUnits \in Nat
      /\ commonTick \in Nat
  BY DEF Propose, SearchInv, CompilerTypeOK
<1>2. CompilerTypeOK' /\ BoundsInv' /\ EndInv' /\ ReadInv'
  BY <1>1 DEF SearchInv, CompilerTypeOK, BoundsInv, EndInv, ReadInv, DepthBound
<1>3. RefusalInv'
  <2>1. (0 + 1) * commonTick = commonTick
    BY <1>1
  <2>2. CASE lower = 0 /\ maxUnits > 0
    <3>1. ~CapitalFits(template, (0 + 1) * commonTick, limits)
      BY <1>1, <2>2 DEF SearchInv, BoundsInv
    <3> QED BY <1>1, <2>1, <3>1 DEF RefusalInv
  <2>3. CASE lower # 0 \/ ~(maxUnits > 0)
    BY <1>1, <2>3 DEF RefusalInv
  <2> QED BY <2>2, <2>3
<1> QED BY <1>2, <1>3 DEF SearchInv

LEMMA StepSearch == SearchInv /\ [CompilerNext]_compilerVars => SearchInv'
<1> SUFFICES ASSUME SearchInv, [CompilerNext]_compilerVars PROVE SearchInv'
  OBVIOUS
<1>1. CASE ReadLeg
  BY <1>1, ReadSearch
<1>2. CASE Narrow
  BY <1>2, NarrowSearch
<1>3. CASE Propose
  BY <1>3, ProposeSearch
<1>4. CASE UNCHANGED compilerVars
  BY <1>4 DEF compilerVars, SearchInv, CompilerTypeOK, BoundsInv, EndInv, ReadInv, RefusalInv,
              DepthBound
<1> QED BY <1>1, <1>2, <1>3, <1>4 DEF CompilerNext

\* The bisection always knows a quantity that fits below, and one that does not
\* fit, or the depth of the legs, above.
THEOREM SearchIsSound == CompilerSpec => []SearchInv
<1> QED BY InitSearch, StepSearch, PTL DEF CompilerSpec

\* The bounds never cross and never leave the depth, whatever the ticks are.
THEOREM SearchTypes == CompilerSpec => []CompilerTypeOK
<1>1. SearchInv => CompilerTypeOK
  BY DEF SearchInv
<1> QED BY <1>1, SearchIsSound, PTL

\* A proposal is within the capital silo of every venue it uses, and the next
\* quantity on the common tick is not, or is beyond the depth of a leg.
THEOREM ProposalsAreTight == CompilerSpec => []ProposalIsTight
<1>1. SearchInv => ProposalIsTight
  <2> SUFFICES ASSUME SearchInv, phase = "PROPOSED" PROVE ProposalIsTight
    BY DEF ProposalIsTight
  <2>1. /\ lower \in Nat \ {0} /\ commonTick \in Nat \ {0} /\ upper = lower
        /\ CapitalFits(template, CommonQuantity, limits)
        /\ lower < maxUnits => ~CapitalFits(template, (lower + 1) * commonTick, limits)
    BY DEF SearchInv, CompilerTypeOK, BoundsInv, EndInv, CommonQuantity
  <2>2. CommonQuantity > 0 /\ (lower + 1) * commonTick = CommonQuantity + commonTick
    BY <2>1, NextTick, ProductIsPositive DEF CommonQuantity
  <2>3. \A v \in Used(template) :
           v \in DOMAIN limits /\ Required(template, v, CommonQuantity) <= limits[v]
    BY <2>1 DEF CapitalFits
  <2> QED BY <2>1, <2>2, <2>3 DEF ProposalIsTight
<1> QED BY <1>1, SearchIsSound, PTL

\* No quantity on the common tick and within the depth of every leg is larger
\* than the proposal and fits, and none fits when the template is refused
\* (ProposalIsLargest).
THEOREM ProposalsAreLargest == CompilerSpec => []ProposalIsLargest
<1>1. SearchInv => ProposalIsLargest
  <2> SUFFICES ASSUME SearchInv, phase \in {"PROPOSED", "THROWN"}, commonTick \in Nat \ {0},
                      NEW quantity \in 1..DepthBound, quantity % commonTick = 0,
                      CapitalFits(template, quantity, limits)
               PROVE  phase = "PROPOSED" /\ quantity <= CommonQuantity
    BY DEF ProposalIsLargest
  <2> DEFINE n == quantity \div commonTick
  <2>1. CompilerTypeOK /\ DepthBound \in Int
    BY DepthIsInt DEF SearchInv
  <2>2. quantity \in Nat /\ quantity > 0 /\ quantity <= DepthBound
    BY <2>1
  <2>3. n \in Nat \ {0} /\ quantity = n * commonTick
    BY <2>2
  <2>4. n <= maxUnits /\ maxUnits \in Int
    <3>1. maxUnits = DepthBound \div commonTick
      BY DEF SearchInv, ReadInv
    <3> QED BY <2>1, <2>2, <3>1, DivisionIsMonotone, Division
  <2> HIDE DEF n
  \* What fits at n ticks fits at any smaller number of them.
  <2>5. ASSUME NEW k \in Nat, k <= n PROVE CapitalFits(template, k * commonTick, limits)
    <3>1. k * commonTick \in Nat /\ k * commonTick <= n * commonTick
      BY <2>3, <2>5, ProductIsMonotone
    <3> QED BY <2>1, <2>2, <2>3, <3>1, FittingIsMonotone
  <2>6. phase = "PROPOSED"
    <3>1. CapitalFits(template, commonTick, limits)
      <4>1. CapitalFits(template, 1 * commonTick, limits)
        BY <2>3, <2>5
      <4>2. 1 * commonTick = commonTick
        OBVIOUS
      <4> QED BY <4>1, <4>2
    <3> QED BY <2>3, <2>4, <3>1 DEF SearchInv, RefusalInv
  <2>7. lower \in Nat /\ upper = lower
    BY <2>6 DEF SearchInv, CompilerTypeOK, EndInv
  <2>8. n <= lower
    <3> SUFFICES ASSUME lower + 1 <= n PROVE FALSE
      BY <2>3, <2>7
    <3>1. CapitalFits(template, (upper + 1) * commonTick, limits)
      BY <2>5, <2>7
    <3>2. upper < maxUnits
      BY <2>3, <2>4, <2>7
    <3> QED BY <2>6, <3>1, <3>2 DEF SearchInv, BoundsInv
  <2> QED BY <2>3, <2>6, <2>7, <2>8, ProductIsMonotone DEF CommonQuantity
<1> QED BY <1>1, SearchIsSound, PTL

-----------------------------------------------------------------------------

(* BookIdentity *)

\* The binding is not ahead of the book.
BindingIsPast ==
  binding # None =>
    /\ binding.generation <= generation
    /\ binding.generation = generation => sequence \in Nat /\ binding.sequence <= sequence

IdentityInv ==
  /\ IdentityTypeOK
  /\ ValidBookIsAligned
  /\ BindingIsPast

-----------------------------------------------------------------------------
\* levelsToMap takes only sizes and prices the snapshot names.
LEMMA LevelsToMapNames ==
  ASSUME NEW side \in SUBSET PriceLevel, NEW p \in Price
  PROVE  /\ LevelsToMap(side)[p] \in Size
         /\ LevelsToMap(side)[p] > 0 => \E l \in side : l.price = p
<1> DEFINE present == \E l \in side : l.price = p /\ l.size > 0
           found == CHOOSE l \in side : l.price = p /\ l.size > 0
<1>1. LevelsToMap(side)[p] = IF present THEN found.size ELSE 0
  BY DEF LevelsToMap
<1>2. CASE present
  <2>1. found \in side /\ found.price = p
    BY <1>2
  <2>2. found.size \in Size
    BY <2>1 DEF PriceLevel
  <2> QED BY <1>1, <1>2, <2>1, <2>2
<1>3. CASE ~present
  BY <1>1, <1>3, BookAssumption
<1> QED BY <1>2, <1>3

\* Every book step keeps the types and the alignment.
LEMMA SnapshotStep ==
  ASSUME NEW s \in Snapshots, BookTypeOK, TakeSnapshot(s)
  PROVE  BookTypeOK' /\ ValidBookIsAligned'
<1>1. /\ s.bids \in SUBSET PriceLevel /\ s.asks \in SUBSET PriceLevel
      /\ s.sequence \in Nat /\ s.tickSize \in TickSize
  BY EventAssumption DEF BookSnapshot
<1>2. \A x \in Place :
        /\ levels'[x] \in Size
        /\ levels'[x] > 0 => ValidLevel(x[2], s.tickSize)
  <2>1. TAKE x \in Place
  <2>2. PICK side \in Side, p \in Price : x = <<side, p>>
    BY DEF Place
  <2>3. PICK named \in {s.bids, s.asks} : levels'[x] = LevelsToMap(named)[p]
    BY <2>2 DEF TakeSnapshot
  <2>4. named \in SUBSET PriceLevel /\ WellFormed(named, s.tickSize)
    BY <1>1, <2>3 DEF TakeSnapshot
  <2> QED BY <2>2, <2>3, <2>4, LevelsToMapNames DEF WellFormed
<1>3. levels' \in [Place -> Size]
  BY <1>2 DEF TakeSnapshot
<1>4. generation' \in 0..MaxGeneration
  BY BookAssumption DEF TakeSnapshot, BookTypeOK
<1>5. sequence' = s.sequence /\ tickSize' = s.tickSize /\ lifecycle' = "SNAPSHOT_VALID"
  BY DEF TakeSnapshot
<1>6. BookTypeOK'
  BY <1>1, <1>3, <1>4, <1>5 DEF BookTypeOK, BookLifecycle
<1>7. s.sequence # None /\ s.tickSize # None
  BY <1>1, BookAssumption
<1>8. ValidBookIsAligned'
  BY <1>2, <1>5, <1>7 DEF ValidBookIsAligned
<1> QED BY <1>6, <1>8

LEMMA ThrowStep ==
  ASSUME NEW s \in Snapshots, BookTypeOK, SnapshotThrows(s)
  PROVE  BookTypeOK' /\ ~Valid' /\ UNCHANGED <<generation, sequence>>
<1>1. s.bids \in SUBSET PriceLevel
  BY EventAssumption DEF BookSnapshot
<1>2. \A x \in Place : levels'[x] \in Size
  <2>1. TAKE x \in Place
  <2>2. PICK side \in Side, p \in Price : x = <<side, p>>
    BY DEF Place
  <2>3. levels'[x] \in {LevelsToMap(s.bids)[p], levels[x]}
    BY <2>2 DEF SnapshotThrows
  <2> QED BY <1>1, <2>3, LevelsToMapNames DEF BookTypeOK
<1>3. levels' \in [Place -> Size]
  BY <1>2 DEF SnapshotThrows
<1> QED BY <1>3 DEF SnapshotThrows, BookTypeOK, Valid

LEMMA AcceptStep ==
  ASSUME NEW d \in Deltas, BookTypeOK, ValidBookIsAligned, AcceptDelta(d)
  PROVE  BookTypeOK' /\ ValidBookIsAligned'
<1>1. d.sequence \in Nat /\ d.changes \in UNION {[S -> Size] : S \in SUBSET Place}
  BY EventAssumption DEF BookDelta
<1>2. PICK S \in SUBSET Place : d.changes \in [S -> Size]
  BY <1>1
<1>3. \A x \in Place :
        /\ levels'[x] \in Size
        /\ levels'[x] > 0 => ValidLevel(x[2], tickSize)
  <2>1. TAKE x \in Place
  <2>2. levels'[x] = IF x \in S THEN d.changes[x] ELSE levels[x]
    BY <1>2 DEF AcceptDelta
  <2>3. CASE x \in S
    BY <1>2, <2>2, <2>3 DEF AcceptDelta, Follows
  <2>4. CASE x \notin S
    BY <2>2, <2>4 DEF AcceptDelta, BookTypeOK, ValidBookIsAligned
  <2> QED BY <2>3, <2>4
<1>4. levels' \in [Place -> Size]
  BY <1>3 DEF AcceptDelta
<1>5. /\ Valid /\ lifecycle' = "APPLYING_DELTAS" /\ sequence' = d.sequence
      /\ UNCHANGED <<generation, tickSize>>
  BY DEF AcceptDelta
<1>6. BookTypeOK'
  BY <1>1, <1>4, <1>5 DEF BookTypeOK, BookLifecycle
<1>7. sequence' # None /\ tickSize' # None
  BY <1>1, <1>5, BookAssumption DEF ValidBookIsAligned
<1>8. ValidBookIsAligned'
  BY <1>3, <1>5, <1>7 DEF ValidBookIsAligned
<1> QED BY <1>6, <1>8

\* What a step that is not Capture does to the book's place in the order.
LEMMA BookOrder ==
  ASSUME IdentityInv, IdentityNext, ~Capture
  PROVE  /\ BookTypeOK' /\ ValidBookIsAligned' /\ UNCHANGED binding
         /\ \/ generation' > generation
            \/ /\ generation' = generation
               /\ \/ UNCHANGED <<sequence, levels, lifecycle>>
                  \/ UNCHANGED sequence /\ ~Valid'
                  \/ sequence \in Nat /\ sequence' \in Nat /\ sequence' > sequence
<1>t. BookTypeOK /\ ValidBookIsAligned
  BY DEF IdentityInv, IdentityTypeOK
<1>u. UNCHANGED binding
  BY DEF IdentityNext
<1>1. ASSUME NEW s \in Snapshots, TakeSnapshot(s)
      PROVE  BookTypeOK' /\ ValidBookIsAligned' /\ generation' > generation
  <2>1. generation' > generation
    BY <1>1, <1>t, BookAssumption DEF TakeSnapshot, BookTypeOK
  <2> QED BY <2>1, <1>1, <1>t, SnapshotStep
<1>2. ASSUME NEW s \in Snapshots, SnapshotThrows(s)
      PROVE  BookTypeOK' /\ ~Valid' /\ UNCHANGED <<generation, sequence>>
  BY <1>2, <1>t, ThrowStep
<1>3. ASSUME NEW d \in Deltas, DuplicateDelta(d) PROVE UNCHANGED bookVars
  BY <1>3 DEF DuplicateDelta
<1>4. ASSUME NEW d \in Deltas, AcceptDelta(d)
      PROVE  /\ BookTypeOK' /\ ValidBookIsAligned' /\ generation' = generation
             /\ sequence \in Nat /\ sequence' \in Nat /\ sequence' > sequence
  <2>1. sequence \in Nat
    BY <1>4, <1>t DEF AcceptDelta, BookTypeOK, ValidBookIsAligned
  <2>2. d.sequence \in Nat
    BY EventAssumption DEF BookDelta
  <2>3. generation' = generation /\ sequence' \in Nat /\ sequence' > sequence
    BY <1>4, <2>1, <2>2 DEF AcceptDelta, Follows
  <2> QED BY <1>4, <1>t, <2>1, <2>3, AcceptStep
<1>5. ASSUME NEW d \in Deltas, RejectDelta(d)
      PROVE  BookTypeOK' /\ ~Valid' /\ UNCHANGED <<generation, sequence>>
  BY <1>5, <1>t DEF RejectDelta, BookTypeOK, BookLifecycle, Valid
<1>6. CASE MarkStale \/ BeginRebuild
  <2>1. BookTypeOK' /\ ~Valid' /\ UNCHANGED <<generation, sequence>>
    BY <1>6, <1>t DEF MarkStale, BeginRebuild, BookTypeOK, BookLifecycle, Valid
  <2> QED BY <2>1, <1>u DEF ValidBookIsAligned
<1>7. ~Valid' => ValidBookIsAligned'
  BY DEF ValidBookIsAligned
<1>8. CASE UNCHANGED bookVars
  BY <1>8, <1>t, <1>u DEF bookVars, BookTypeOK, ValidBookIsAligned, Valid
<1> QED BY <1>1, <1>2, <1>3, <1>4, <1>5, <1>6, <1>7, <1>8, <1>u DEF IdentityNext, ApplyDelta

LEMMA IdentityInitHolds == IdentityInit => IdentityInv
<1>1. [x \in Place |-> 0] \in [Place -> Size]
  BY BookAssumption
<1> QED BY <1>1, BookAssumption
  DEF IdentityInit, BookInit, IdentityInv, IdentityTypeOK, BookTypeOK, BookLifecycle,
      ValidBookIsAligned, BindingIsPast, Valid

LEMMA IdentityStep == IdentityInv /\ [IdentityNext]_identityVars => IdentityInv'
<1> SUFFICES ASSUME IdentityInv, [IdentityNext]_identityVars PROVE IdentityInv'
  OBVIOUS
<1>t. IdentityTypeOK /\ BookTypeOK /\ ValidBookIsAligned /\ BindingIsPast
  BY DEF IdentityInv, IdentityTypeOK
<1>1. CASE Capture
  <2>1. /\ UNCHANGED <<generation, sequence, tickSize, levels, lifecycle>>
        /\ binding' = [generation |-> generation, sequence |-> sequence, levels |-> levels]
        /\ sequence \in Nat /\ generation \in Nat
    BY <1>1, <1>t DEF Capture, Identity, bookVars, BookTypeOK, ValidBookIsAligned
  <2>2. binding' \in BookIdentityBinding
    BY <2>1, <1>t DEF BookIdentityBinding, BookTypeOK
  <2> QED BY <2>1, <2>2, <1>t
    DEF IdentityInv, IdentityTypeOK, BookTypeOK, ValidBookIsAligned, BindingIsPast, Valid
<1>2. CASE IdentityNext /\ ~Capture
  <2>1. BookTypeOK' /\ ValidBookIsAligned' /\ UNCHANGED binding
    BY <1>2, BookOrder
  <2>2. BindingIsPast'
    <3>1. SUFFICES ASSUME binding # None
          PROVE  /\ binding.generation <= generation'
                 /\ binding.generation = generation' =>
                      sequence' \in Nat /\ binding.sequence <= sequence'
      BY <2>1 DEF BindingIsPast
    <3>2. /\ binding.generation \in Nat /\ binding.sequence \in Nat
          /\ generation \in Nat /\ generation' \in Nat
      BY <3>1, <2>1, <1>t DEF IdentityTypeOK, BookTypeOK, BookIdentityBinding
    <3> QED BY <3>1, <3>2, <1>2, <1>t, BookOrder DEF BindingIsPast
  <2> QED BY <2>1, <2>2, <1>t DEF IdentityInv, IdentityTypeOK
<1>3. CASE UNCHANGED identityVars
  BY <1>3, <1>t DEF identityVars, IdentityInv, IdentityTypeOK, BookTypeOK, ValidBookIsAligned,
                    BindingIsPast, Valid
<1> QED BY <1>1, <1>2, <1>3

LEMMA NoRevivalStep ==
  ASSUME IdentityInv, IdentityNext, binding # None, binding' = binding,
         Verdict(binding) # "MATCH"
  PROVE  Verdict(binding)' # "MATCH"
<1> SUFFICES ASSUME Verdict(binding)' = "MATCH" PROVE FALSE
  OBVIOUS
<1>1. Valid' /\ binding = Identity'
  BY DEF Verdict
<1>2. /\ binding.generation = generation' /\ binding.sequence = sequence'
      /\ binding.levels = levels'
  BY <1>1 DEF Identity
<1>3. /\ binding.generation \in Nat /\ binding.sequence \in Nat /\ generation \in Nat
      /\ BindingIsPast
  BY DEF IdentityInv, IdentityTypeOK, BookTypeOK, BookIdentityBinding
<1>4. CASE UNCHANGED <<generation, sequence, levels, lifecycle>>
  BY <1>4, <1>1 DEF Verdict, Identity, Valid
<1>5. CASE Capture
  BY <1>5, <1>4 DEF Capture, bookVars
<1>6. CASE ~Capture
  <2>1. \/ generation' > generation
        \/ /\ generation' = generation
           /\ \/ UNCHANGED <<sequence, levels, lifecycle>>
              \/ UNCHANGED sequence /\ ~Valid'
              \/ sequence \in Nat /\ sequence' \in Nat /\ sequence' > sequence
    BY <1>6, BookOrder
  <2> QED BY <2>1, <1>1, <1>2, <1>3, <1>4 DEF BindingIsPast
<1> QED BY <1>5, <1>6

-----------------------------------------------------------------------------
\* The inductive invariant: types, alignment, and the binding is not ahead of
\* the book in the order of generations and sequences.
THEOREM IdentityInvariant == IdentitySpec => []IdentityInv
BY IdentityInitHolds, IdentityStep, PTL DEF IdentitySpec

\* A valid book has only prices on the tick of its snapshot, whatever batches
\* and half applied snapshots came before (ValidBookIsAligned).
THEOREM BookStaysAligned == IdentitySpec => []ValidBookIsAligned
<1>1. IdentityInv => ValidBookIsAligned
  BY DEF IdentityInv
<1> QED BY <1>1, IdentityInvariant, PTL

\* evaluateBookIdentity answers MATCH for a binding until it first does not,
\* and never again after that (BindingNeverRevives).
THEOREM ExpiredBindingStaysExpired == IdentitySpec => BindingNeverRevives
<1>1. IdentityInv /\ [IdentityNext]_identityVars =>
        [binding # None /\ binding' = binding /\ Verdict(binding) # "MATCH"
           => Verdict(binding)' # "MATCH"]_identityVars
  BY NoRevivalStep
<1> QED BY <1>1, IdentityInvariant, PTL DEF IdentitySpec, BindingNeverRevives

-----------------------------------------------------------------------------
(* GeminiBookFeed *)

FeedInv ==
  /\ FeedTypeOK
  /\ Valid => sequence \in 1..Len(history)
  /\ ValidBookIsFaithful
  /\ DecoderFollowsBook

-----------------------------------------------------------------------------
\* An image, taken over through levelsToMap, is the book it is an image of.
LEMMA ImageIsBook ==
  ASSUME NEW book \in [Place -> Size], NEW side \in Side, NEW p \in Price
  PROVE  LevelsToMap(Levels(book, side))[p] = book[<<side, p>>]
<1> DEFINE s == book[<<side, p>>]
           present == \E l \in Levels(book, side) : l.price = p /\ l.size > 0
           found == CHOOSE l \in Levels(book, side) : l.price = p /\ l.size > 0
<1>1. s \in Size /\ s \in Nat
  BY BookAssumption DEF Place
<1>2. LevelsToMap(Levels(book, side))[p] = IF present THEN found.size ELSE 0
  BY DEF LevelsToMap
<1>3. \A l \in Levels(book, side) : l.price = p => l.size = s
  <2>1. TAKE l \in Levels(book, side)
  <2>2. PICK q \in Price : l = [price |-> q, size |-> book[<<side, q>>]]
    BY <2>1 DEF Levels
  <2> QED BY <2>2
<1>4. CASE s > 0
  <2>1. [price |-> p, size |-> s] \in Levels(book, side)
    BY <1>4 DEF Levels
  <2>2. present
    BY <2>1, <1>4
  <2>3. found \in Levels(book, side) /\ found.price = p
    BY <2>2
  <2> QED BY <1>2, <1>3, <2>2, <2>3
<1>5. CASE ~(s > 0)
  <2>1. ~present
    BY <1>3, <1>5
  <2>2. s = 0
    BY <1>1, <1>5
  <2> QED BY <1>2, <2>1, <2>2
<1> QED BY <1>4, <1>5

LEMMA FeedInitHolds == FeedInit => FeedInv
<1> SUFFICES ASSUME FeedInit PROVE FeedInv
  OBVIOUS
<1>1. ~Valid
  BY DEF FeedInit, BookInit, Valid
<1>2. levels \in [Place -> Size]
  BY BookAssumption DEF FeedInit, BookInit
<1>3. PICK b \in [Place -> Size] : history = <<b>>
  BY DEF FeedInit
<1>4. history \in Seq([Place -> Size]) /\ Len(history) = 1
  BY <1>3
<1>5. MaxEvents \in Nat \ {0}
  BY FeedAssumption
<1> QED
  BY <1>1, <1>2, <1>4, <1>5, BookAssumption
  DEF FeedInv, FeedTypeOK, BookTypeOK, ValidBookIsFaithful, DecoderFollowsBook,
      FeedInit, BookInit, BookLifecycle

\* What a message says of a level it names is the venue's, and an update names
\* every level that differs from the book after any event its range follows.
LEMMA MessageSays ==
  ASSUME FeedTypeOK, NEW kind \in MessageKind, NEW first, NEW u, CanSend(kind, first, u),
         first \in Nat, u \in Nat \ {0}
  PROVE  /\ u \in 1..Len(history) /\ history[u] \in [Place -> Size]
         /\ AsBook(kind, first, u) \in [Place -> Size]
         /\ \A x \in Place : AsBook(kind, first, u)[x] # history[u][x] =>
              AsBook(kind, first, u)[x] = 0 /\ kind = "UPDATE"
         /\ Named(kind, first, u) \subseteq Place
         /\ AsDelta(kind, first, u).previousSequence = last
         /\ AsDelta(kind, first, u).sequence = u
         /\ DOMAIN AsDelta(kind, first, u).changes = Named(kind, first, u)
         /\ \A x \in Named(kind, first, u) :
              AsDelta(kind, first, u).changes[x] = history[u][x]
         /\ \A x \in Place \ Named(kind, first, u) :
              /\ kind = "IMAGE" => history[u][x] = 0
              /\ kind = "UPDATE" =>
                   \A n \in (first - 1)..(u - 1) : history[n][x] = history[u][x]
<1> DEFINE S == Named(kind, first, u)
<1>1. u \in 1..Len(history) /\ history[u] \in [Place -> Size]
  BY DEF CanSend, FeedTypeOK
<1>2. S \subseteq Place
  BY DEF Named, Touched
<1>3. \A x \in Place \ S :
        /\ kind = "IMAGE" => history[u][x] = 0
        /\ kind = "UPDATE" => \A n \in (first - 1)..(u - 1) : history[n][x] = history[u][x]
  <2>1. \A x \in Place : history[u][x] \in Size /\ history[u][x] \in Nat
    BY <1>1, BookAssumption
  <2>2. kind = "IMAGE" => \A x \in Place \ S : history[u][x] = 0
    BY <2>1 DEF Named
  <2>3. kind = "UPDATE" => \A x \in Place \ S : x \notin Touched(first, u)
    BY DEF Named
  <2> QED BY <2>2, <2>3 DEF Touched
<1>4. AsBook(kind, first, u) = [x \in Place |-> IF x \in S THEN history[u][x] ELSE 0]
  BY DEF AsBook
<1>5. /\ AsDelta(kind, first, u).previousSequence = last
      /\ AsDelta(kind, first, u).sequence = u
      /\ AsDelta(kind, first, u).changes = [x \in S |-> history[u][x]]
  BY DEF AsDelta
<1> HIDE DEF S
<1>6. AsBook(kind, first, u) \in [Place -> Size]
  BY <1>1, <1>4, BookAssumption
<1>7. \A x \in Place : AsBook(kind, first, u)[x] # history[u][x] =>
        AsBook(kind, first, u)[x] = 0 /\ kind = "UPDATE"
  BY <1>3, <1>4 DEF MessageKind
<1> QED BY <1>1, <1>2, <1>3, <1>5, <1>6, <1>7 DEF S

\* The book is no longer valid: nothing is said of it.
LEMMA InvalidIsFine ==
  ASSUME FeedInv, ~Valid', lifecycle' \in BookLifecycle, UNCHANGED history,
         UNCHANGED <<generation, sequence, tickSize, levels>>, UNCHANGED misread,
         last' \in Nat \cup {None}
  PROVE  FeedInv'
BY DEF FeedInv, FeedTypeOK, BookTypeOK, ValidBookIsFaithful, DecoderFollowsBook, Valid

LEMMA DecodeFirstStep ==
  ASSUME FeedInv, NEW kind \in MessageKind, NEW first \in 1..MaxEvents, NEW u \in 1..MaxEvents,
         CanSend(kind, first, u), DecodeFirst(kind, first, u), UNCHANGED history
  PROVE  FeedInv'
<1> DEFINE b == AsBook(kind, first, u)
           s == AsSnapshot(u, b)
<1>t. FeedTypeOK /\ BookTypeOK
  BY DEF FeedInv, FeedTypeOK
<1>0. first \in Nat /\ u \in Nat \ {0}
  BY FeedAssumption
<1>m. /\ u \in 1..Len(history) /\ history[u] \in [Place -> Size] /\ b \in [Place -> Size]
      /\ \A x \in Place : b[x] # history[u][x] => b[x] = 0 /\ kind = "UPDATE"
  BY <1>t, <1>0, MessageSays
<1>1. CASE TakeSnapshot(s) /\ last' = u
           /\ misread' = IF kind = "UPDATE" THEN {"UPDATE_AS_BOOK"} ELSE {}
  <2>1. /\ generation' \in 0..MaxGeneration /\ sequence' = u
        /\ tickSize' = GeminiTick /\ lifecycle' = "SNAPSHOT_VALID"
        /\ levels' = [x \in Place |-> IF x[1] = "BID" THEN LevelsToMap(s.bids)[x[2]]
                                                      ELSE LevelsToMap(s.asks)[x[2]]]
    BY <1>1, <1>t, BookAssumption DEF TakeSnapshot, AsSnapshot, BookTypeOK
  <2>2. \A x \in Place : levels'[x] = b[x]
    <3>1. TAKE x \in Place
    <3>2. PICK side \in Side, p \in Price : x = <<side, p>>
      BY DEF Place
    <3> HIDE DEF b
    <3>3. levels'[x] = LevelsToMap(Levels(b, side))[p]
      BY <2>1, <3>2 DEF AsSnapshot, Side
    <3> QED BY <3>2, <3>3, <1>m, ImageIsBook
  <2>3. levels' = b
    BY <2>1, <2>2, <1>m
  <2> HIDE DEF b
  <2>4. ValidBookIsFaithful'
    BY <1>1, <1>m, <2>1, <2>3 DEF ValidBookIsFaithful
  <2>5. DecoderFollowsBook' /\ (Valid' => sequence' \in 1..Len(history'))
    BY <1>1, <1>m, <2>1 DEF DecoderFollowsBook
  <2>6. FeedTypeOK'
    BY <1>1, <1>t, <1>0, <1>m, <2>1, <2>3, FeedAssumption
    DEF FeedTypeOK, BookTypeOK, BookLifecycle, Misreading
  <2> QED BY <2>4, <2>5, <2>6 DEF FeedInv
<1>2. CASE ReplayFails(s)
  <2>1. [x \in Place |-> 0] \in [Place -> Size]
    BY BookAssumption
  <2> QED
    BY <1>2, <1>t, <2>1, BookAssumption
    DEF ReplayFails, FeedInv, FeedTypeOK, BookTypeOK, BookLifecycle, Valid,
        ValidBookIsFaithful, DecoderFollowsBook
<1>3. CASE MarkStale /\ UNCHANGED <<last, misread>>
  BY <1>3, <1>t, InvalidIsFine DEF MarkStale, BookLifecycle, Valid, FeedTypeOK
<1> QED BY <1>1, <1>2, <1>3 DEF DecodeFirst

\* A delta is accepted.
LEMMA ChainStep ==
  ASSUME FeedInv, NEW kind \in MessageKind, NEW first \in 1..MaxEvents, NEW u \in 1..MaxEvents,
         CanSend(kind, first, u), last \in Nat, u > last, first <= last + 1,
         Chain(kind, first, u), AcceptDelta(AsDelta(kind, first, u)), UNCHANGED history
  PROVE  FeedInv'
<1> DEFINE d == AsDelta(kind, first, u)
           c == d.changes
           S == Named(kind, first, u)
<1>t. FeedTypeOK /\ BookTypeOK
  BY DEF FeedInv, FeedTypeOK
<1>0. first \in Nat /\ u \in Nat \ {0}
  BY FeedAssumption
<1>m. /\ u \in 1..Len(history) /\ history[u] \in [Place -> Size]
      /\ d.previousSequence = last /\ d.sequence = u
      /\ DOMAIN c = S /\ S \subseteq Place /\ \A x \in S : c[x] = history[u][x]
      /\ \A x \in Place \ S :
           /\ kind = "IMAGE" => history[u][x] = 0
           /\ kind = "UPDATE" =>
                \A n \in (first - 1)..(u - 1) : history[n][x] = history[u][x]
  BY <1>t, <1>0, MessageSays
<1>l. last' = u /\ misread' = IF kind = "IMAGE" THEN {"IMAGE_AS_CHANGES"} ELSE misread
  BY DEF Chain
<1>a. AcceptDelta(d)
  OBVIOUS
<1> HIDE DEF d, S
<1>1. /\ Valid /\ UNCHANGED <<generation, tickSize>> /\ sequence' = u
      /\ lifecycle' = "APPLYING_DELTAS"
      /\ levels' = [x \in Place |-> IF x \in S THEN c[x] ELSE levels[x]]
  BY <1>m, <1>a DEF AcceptDelta
<1>2. /\ last = sequence /\ last \in (first - 1)..(u - 1)
      /\ levels \in [Place -> Size]
      /\ \A x \in Place : levels[x] # history[last][x] =>
           \/ levels[x] = 0 /\ "UPDATE_AS_BOOK" \in misread
           \/ history[last][x] = 0 /\ "IMAGE_AS_CHANGES" \in misread
  BY <1>1, <1>0, <1>t DEF FeedInv, ValidBookIsFaithful, DecoderFollowsBook, BookTypeOK
<1>3. \A x \in Place :
        /\ levels'[x] \in Size
        /\ levels'[x] # history[u][x] =>
             \/ levels'[x] = 0 /\ "UPDATE_AS_BOOK" \in misread'
             \/ history[u][x] = 0 /\ "IMAGE_AS_CHANGES" \in misread'
  <2>1. TAKE x \in Place
  <2>2. CASE x \in S
    BY <2>2, <1>1, <1>m
  <2>3. CASE x \notin S /\ kind = "IMAGE"
    BY <2>3, <1>l, <1>1, <1>2, <1>m
  <2>4. CASE x \notin S /\ kind = "UPDATE"
    <3>1. history[last][x] = history[u][x] /\ levels'[x] = levels[x] /\ misread' = misread
      BY <2>4, <1>l, <1>1, <1>2, <1>m
    <3> QED BY <3>1, <1>2
  <2> QED BY <2>2, <2>3, <2>4 DEF MessageKind
<1>4. ValidBookIsFaithful'
  BY <1>1, <1>3 DEF ValidBookIsFaithful
<1>5. DecoderFollowsBook' /\ (Valid' => sequence' \in 1..Len(history'))
  BY <1>1, <1>l, <1>m DEF DecoderFollowsBook
<1>6. FeedTypeOK'
  <2>1. levels' \in [Place -> Size]
    BY <1>1, <1>3
  <2>2. misread' \subseteq Misreading
    BY <1>t, <1>l DEF FeedTypeOK, Misreading
  <2> QED BY <1>t, <1>l, <1>0, <1>1, <2>1, <2>2 DEF FeedTypeOK, BookTypeOK, BookLifecycle
<1> QED BY <1>4, <1>5, <1>6 DEF FeedInv

LEMMA DecodeNextStep ==
  ASSUME FeedInv, NEW kind \in MessageKind, NEW first \in 1..MaxEvents, NEW u \in 1..MaxEvents,
         CanSend(kind, first, u), last # None, u > last, DecodeNext(kind, first, u),
         UNCHANGED history
  PROVE  FeedInv'
<1> DEFINE d == AsDelta(kind, first, u)
<1>t. FeedTypeOK /\ BookTypeOK /\ last \in Nat /\ first \in Nat /\ u \in Nat
  BY FeedAssumption DEF FeedInv, FeedTypeOK
<1>1. CASE last' = None /\ MarkStale /\ UNCHANGED misread
  BY <1>1, <1>t, InvalidIsFine DEF MarkStale, BookLifecycle, Valid
<1>2. CASE first <= last + 1 /\ Chain(kind, first, u) /\ RejectDelta(d)
  <2>1. FeedTypeOK'
    BY <1>2, <1>t
    DEF Chain, RejectDelta, FeedTypeOK, BookTypeOK, BookLifecycle, Misreading
  <2>2. ~Valid'
    BY <1>2 DEF RejectDelta, Valid
  <2> QED BY <2>1, <2>2 DEF FeedInv, ValidBookIsFaithful, DecoderFollowsBook
<1>3. CASE DuplicateDelta(d)
  <2>1. sequence = u /\ Valid
    BY <1>3 DEF DuplicateDelta, AsDelta
  <2> QED BY <2>1, <1>t DEF FeedInv, DecoderFollowsBook
<1>4. CASE first <= last + 1 /\ Chain(kind, first, u) /\ AcceptDelta(d)
  BY <1>4, <1>t, ChainStep
<1>5. first <= last + 1 <=> ~(first > last + 1)
  BY <1>t
<1> QED BY <1>1, <1>2, <1>3, <1>4, <1>5 DEF DecodeNext, Chain, ApplyDelta

LEMMA FeedStep == FeedInv /\ [FeedNext]_feedVars => FeedInv'
<1> SUFFICES ASSUME FeedInv, [FeedNext]_feedVars PROVE FeedInv'
  OBVIOUS
<1>t. FeedTypeOK /\ BookTypeOK
  BY DEF FeedInv, FeedTypeOK
<1>1. ASSUME NEW x \in Place, NEW size \in Size, VenueEvent(x, size) PROVE FeedInv'
  <2>1. Len(history) \in Nat \ {0} /\ history[Len(history)] \in [Place -> Size]
    BY <1>t, FeedAssumption DEF FeedTypeOK
  <2> DEFINE b == [history[Len(history)] EXCEPT ![x] = size]
  <2>2. b \in [Place -> Size]
    BY <2>1
  <2>3. history' = Append(history, b)
    BY <1>1 DEF VenueEvent
  <2> HIDE DEF b
  <2>4. /\ history' \in Seq([Place -> Size]) /\ Len(history') = Len(history) + 1
        /\ \A n \in 1..Len(history) : history'[n] = history[n]
    BY <2>1, <2>2, <2>3, <1>t DEF FeedTypeOK
  <2>5. UNCHANGED <<bookVars, last, misread>> /\ Len(history) < MaxEvents
    BY <1>1 DEF VenueEvent
  <2> QED
    BY <2>1, <2>4, <2>5, <1>t, FeedAssumption
    DEF FeedInv, FeedTypeOK, BookTypeOK, bookVars, Valid, ValidBookIsFaithful,
        DecoderFollowsBook
<1>2. ASSUME NEW kind \in MessageKind, NEW first \in 1..MaxEvents, NEW u \in 1..MaxEvents,
             Receive(kind, first, u)
      PROVE  FeedInv'
  BY <1>2, DecodeFirstStep, DecodeNextStep DEF Receive
<1>3. CASE UNCHANGED feedVars
  BY <1>3 DEF feedVars, FeedInv, FeedTypeOK, BookTypeOK, Valid, ValidBookIsFaithful,
              DecoderFollowsBook
<1> QED BY <1>1, <1>2, <1>3 DEF FeedNext

\* The inductive invariant: while the book is valid, the decoder's and the
\* book's sequence agree and the book differs from the venue's at that event
\* where a message was misread, and nowhere else.
THEOREM FeedInvariant == FeedSpec => []FeedInv
BY FeedStep, FeedInitHolds, PTL DEF FeedSpec

\* Every book that says it is valid is the venue's book after the event it names,
\* but for the levels a misread message left out or left in: none of its sizes is
\* an old one (ValidBookIsFaithful), whether or not updates come with U = u.
THEOREM FeedIsFaithful == FeedSpec => []ValidBookIsFaithful
<1>1. FeedInv => ValidBookIsFaithful
  BY DEF FeedInv
<1> QED BY <1>1, FeedInvariant, PTL

\* README.md:168: a gapped book fails closed.  A valid book to which no message
\* was given for what it is not is the venue's book after the event it names.
THEOREM WellReadBookIsTheVenues ==
  FeedSpec => [](Valid /\ misread = {} => levels = history[sequence])
<1>1. FeedInv => (Valid /\ misread = {} => levels = history[sequence])
  <2>1. SUFFICES ASSUME FeedInv, Valid, misread = {} PROVE levels = history[sequence]
    OBVIOUS
  <2>2. levels \in [Place -> Size] /\ history[sequence] \in [Place -> Size]
    BY <2>1 DEF FeedInv, FeedTypeOK, BookTypeOK
  <2>3. \A x \in Place : levels[x] = history[sequence][x]
    BY <2>1 DEF FeedInv, ValidBookIsFaithful
  <2> QED BY <2>2, <2>3
<1> QED BY <1>1, FeedInvariant, PTL

\* The decoder never hands a snapshot to a book that would throw on it, and
\* never chains a delta to a message the book did not apply.
THEOREM DecoderAndBookAgree == FeedSpec => []DecoderFollowsBook
<1>1. FeedInv => DecoderFollowsBook
  BY DEF FeedInv
<1> QED BY <1>1, FeedInvariant, PTL
=============================================================================
