---------------------------- MODULE PlanValidation ----------------------------
(***************************************************************************)
(* validateExecutionPlan (packages/execution/src/plan.ts): what the shadow *)
(* engine asks of a plan before it reserves capital for it.  Simple checks *)
(* first, then Kahn's walk over the dependencies: an intent is ready once  *)
(* every dependency on it has been counted off, and the plan is accepted   *)
(* when as many intents were visited as there are.                         *)
(*                                                                         *)
(* The dependencies are a list, so an edge may be in it twice, and is then *)
(* counted twice.  The order in which ready intents are taken is left      *)
(* open: the code takes the oldest.                                        *)
(***************************************************************************)
EXTENDS Integers, Sequences, FiniteSets

CONSTANTS
  Id,       \* ids of intents and of what dependencies refer to
  OrderId,  \* client order ids
  Plans     \* the plans that are validated

\* An intent's quantity, quantityScale, limitPrice and maxDebit.
Intents == [id : Id, clientOrderId : OrderId, quantity : Int,
            quantityScale : Int, limitPrice : Int, maxDebit : Int]

ASSUME PlansAssumption ==
  \A p \in Plans : /\ DOMAIN p = {"intents", "dependencies"}
                   /\ p.intents \in Seq(Intents)
                   /\ p.dependencies \in Seq([before : Id, after : Id])

VARIABLES
  plan,           \* the plan
  verdict,        \* "UNREAD", "WALKING", "ACCEPTED", "INVALID" or "CYCLE"
  incomingCount,  \* intent id -> dependencies on it not counted off yet
  ready,          \* intent ids that wait to be visited
  visited,        \* how many were visited
  done            \* the ids that were visited, of which the code keeps the number

planVars == <<plan, verdict, incomingCount, ready, visited, done>>

Known == {plan.intents[n].id : n \in DOMAIN plan.intents}

Edges == DOMAIN plan.dependencies

Before(k) == plan.dependencies[k].before
After(k) == plan.dependencies[k].after

\* The edges from the intents S to the intent x.
EdgesInto(S, x) == {k \in Edges : Before(k) \in S /\ After(k) = x}

-----------------------------------------------------------------------------
\* No two intents share an id or a client order id.
IdsAreUnique ==
  \A m, n \in DOMAIN plan.intents : m # n =>
    /\ plan.intents[m].id # plan.intents[n].id
    /\ plan.intents[m].clientOrderId # plan.intents[n].clientOrderId

\* (Empty ids, refused with these, are left out.)
AmountsAreValid ==
  \A n \in DOMAIN plan.intents :
    /\ plan.intents[n].quantity > 0
    /\ plan.intents[n].quantityScale > 0
    /\ plan.intents[n].limitPrice >= 0
    /\ plan.intents[n].maxDebit > 0

\* Deviation: a dependency may refer to an intent of another plan.
LoopsAreAbsent == \A k \in Edges : Before(k) # After(k)

DependenciesAreKnown ==
  \A k \in Edges :
    /\ Before(k) \in Known
    /\ After(k) \in Known
    /\ Before(k) # After(k)

\* Deviation: a repeated dependency is counted once.
DistinctIncoming(x) == Cardinality({Before(k) : k \in EdgesInto(Known, x)})

Incoming(x) == Cardinality(EdgesInto(Known, x))

PlanInit ==
  /\ plan \in Plans
  /\ verdict = "UNREAD"
  /\ incomingCount = [x \in Known |-> 0]
  /\ ready = {} /\ visited = 0 /\ done = {}

RefusePlan ==
  /\ verdict = "UNREAD"
  /\ ~ (plan.intents # <<>> /\ IdsAreUnique /\ AmountsAreValid /\ DependenciesAreKnown)
  /\ verdict' = "INVALID"
  /\ UNCHANGED <<plan, incomingCount, ready, visited, done>>

ReadPlan ==
  /\ verdict = "UNREAD"
  /\ plan.intents # <<>>
  /\ IdsAreUnique
  /\ AmountsAreValid
  /\ DependenciesAreKnown
  /\ verdict' = "WALKING"
  /\ incomingCount' = [x \in Known |-> Incoming(x)]
  /\ ready' = {x \in Known : Incoming(x) = 0}
  /\ UNCHANGED <<plan, visited, done>>

Remaining(i) ==
  [x \in Known |-> incomingCount[x] - Cardinality(EdgesInto({i}, x))]

\* Deviation: a successor is ready although one dependency on it is open.
FreedEarly(i) == {x \in Known : EdgesInto({i}, x) # {} /\ Remaining(i)[x] <= 1}

\* The intents that the visit of i makes ready.
Freed(i) == {x \in Known : EdgesInto({i}, x) # {} /\ Remaining(i)[x] = 0}

Visit(i) ==
  /\ verdict = "WALKING"
  /\ i \in ready
  /\ visited' = visited + 1
  /\ done' = done \union {i}
  /\ incomingCount' = Remaining(i)
  /\ ready' = (ready \ {i}) \union Freed(i)
  /\ UNCHANGED <<plan, verdict>>

\* Deviation: the walk is believed without the count.
ConcludeUnread ==
  /\ verdict = "WALKING" /\ ready = {}
  /\ verdict' = "ACCEPTED"
  /\ UNCHANGED <<plan, incomingCount, ready, visited, done>>

Conclude ==
  /\ verdict = "WALKING" /\ ready = {}
  /\ verdict' = IF visited # Len(plan.intents) THEN "CYCLE" ELSE "ACCEPTED"
  /\ UNCHANGED <<plan, incomingCount, ready, visited, done>>

PlanNext == RefusePlan \/ ReadPlan \/ Conclude \/ \E i \in Id : Visit(i)

PlanSpec == PlanInit /\ [][PlanNext]_planVars

-----------------------------------------------------------------------------
(* Properties *)

PlanTypeOK ==
  /\ plan.intents \in Seq(Intents)
  /\ plan.dependencies \in Seq([before : Id, after : Id])
  /\ verdict \in {"UNREAD", "WALKING", "ACCEPTED", "INVALID", "CYCLE"}
  /\ incomingCount \in [Known -> Nat]
  /\ ready \subseteq Known
  /\ done \subseteq Known
  /\ visited \in Nat

\* Some intent of every group of intents waits for none of the group: the
\* dependencies among S have no cycle.
Executable(S) ==
  \A G \in SUBSET S : G # {} => \E x \in G : EdgesInto(G, x) = {}

\* A plan that is accepted can be executed: whatever of its intents are left,
\* one of them waits for none of the others, and no dependency waits for an
\* intent outside the plan.  The engine refuses an intent whose dependency is
\* not met, so a group of intents that wait for each other would keep the
\* capital of the plan reserved for ever.
AcceptedIsExecutable ==
  verdict = "ACCEPTED" =>
    /\ Executable(Known)
    /\ \A k \in Edges : Before(k) \in Known /\ After(k) \in Known

\* A plan refused for a cycle has one, also when the same dependency is listed
\* more than once.
CycleIsReal == verdict = "CYCLE" => ~Executable(Known)

\* While the walk goes on, what it counted off is exact: an intent's count is
\* the number of dependencies on it whose first intent is still to be visited,
\* and the number of visits is that of the intents visited.
CountsAreExact ==
  verdict = "WALKING" =>
    /\ \A x \in Known : incomingCount[x] = Cardinality(EdgesInto(Known \ done, x))
    /\ visited = Cardinality(done)
=============================================================================
