--------------------------- MODULE SemanticReview ---------------------------
(***************************************************************************)
(* The semantic review scheduler and the review desk it dispatches to.     *)
(*                                                                         *)
(* A proposal is reviewed in a scope: what its contracts mean, and the     *)
(* claims read from its evidence.  Proposals over the same contracts have  *)
(* one scope as long as they have no claims, and then only one of them,    *)
(* the canonical one, is reviewed by itself; the others are DUPLICATE_SCOPE *)
(* jobs.  An operator may have any proposal reviewed by hand.  reconcile   *)
(* brings the jobs in line with the proposals, their scopes and the        *)
(* reviews that passed; it is called by every tick, by every projection    *)
(* and after a manual review, and every job it writes is checked against   *)
(* the contract of a stored job: a record that breaks it throws.           *)
(*                                                                         *)
(* Proposals are numbered in the order in which the scheduler prefers      *)
(* them.  Jobs, and reviews that have ended, are durable.                  *)
(***************************************************************************)
EXTENDS Integers, FiniteSets, FiniteSetsExt

CONSTANTS
    Proposals,     \* a set of numbers
    Contract,      \* the contracts a proposal is about
    Automatic,     \* the contracts whose proposals are admitted to review
    None,
    MaxAttempts,   \* maxAttempts
    Slots,         \* concurrencyLimit of the scheduler and of the desk
    ClaimsReturn,  \* whether evidence may say again what it said before
    MaxTerms,      \* bound: changes of what a contract means
    MaxClaims,     \* bound: claim sets of a proposal
    MaxChanges,    \* bound: changes of claims
    MaxManual,     \* bound: manual reviews
    MaxCrashes     \* bound: crashes of the process

ASSUME ConstantsAssumption ==
    /\ Proposals \subseteq Nat /\ IsFiniteSet(Proposals)
    /\ MaxAttempts \in 1..10 /\ Slots \in 1..8
    /\ {MaxTerms, MaxClaims} \subseteq Nat

VARIABLES
    terms,    \* the current meaning of every contract
    claims,   \* the claim set of every proposal, 0 for none
    job,      \* the job of every proposal
    active,   \* the lease this process waits for, per proposal
    running,  \* the reviews the desk has under way: proposal and scope
    passed,   \* the reviews that passed
    asked,    \* reviews the scheduler has asked for, per proposal and scope
    bounds    \* what was spent of the bounds

vars == <<terms, claims, job, active, running, passed, asked, bounds>>

\* deriveSemanticReviewScope
ScopeOf(p, version, set) ==
    [contract |-> Contract[p], terms |-> version, claims |-> set,
     of |-> IF set = 0 THEN None ELSE p]

Scope(p) == ScopeOf(p, terms[Contract[p]], claims[p])

Passed(p, scope) == <<p, scope>> \in passed

PassedNow(p) == Passed(p, Scope(p))

Admitted(p) == Contract[p] \in Automatic

Terminal == {"PASS", "EXHAUSTED", "RESEARCH_ONLY", "DUPLICATE_SCOPE"}

Statuses == {"PENDING", "LEASED", "RETRY_WAIT"} \union Terminal

\* SemanticReviewScopeRecord and SemanticReviewJobRecord, as far as they are modelled.
ReviewScope == [contract : {Contract[p] : p \in Proposals}, terms : Nat, claims : Nat,
                of : Proposals \union {None}]

ReviewJob == [status : Statuses, scope : ReviewScope, attempts : Nat,
              dup : Proposals \union {None}, outcome : ReviewScope \union {None},
              lapsed : BOOLEAN]

ASSUME NoneAssumption == None \notin Proposals \union ReviewJob \union ReviewScope

Init ==
    /\ terms = [c \in {Contract[p] : p \in Proposals} |-> 1]
    /\ claims = [p \in Proposals |-> 0]
    /\ job = [p \in Proposals |-> None]
    /\ active = [p \in Proposals |-> None]
    /\ running = {} /\ passed = {}
    /\ asked = [r \in {} |-> 0]
    /\ bounds = [changes |-> 0, manual |-> 0, crashes |-> 0]

-----------------------------------------------------------------------------
(* What a job becomes. *)

Fresh(p, status, dup) ==
    [status |-> status, scope |-> Scope(p), attempts |-> 0, dup |-> dup,
     outcome |-> None, lapsed |-> FALSE]

\* Deviation: the outcome of the review is not recorded.
CompletedBare(j) ==
    [j EXCEPT !.status = "PASS", !.dup = None, !.lapsed = FALSE]

Completed(j) ==
    [j EXCEPT !.status = "PASS", !.dup = None, !.outcome = j.scope,
              !.lapsed = FALSE]

Exhausted(j) == [j EXCEPT !.status = "EXHAUSTED", !.lapsed = FALSE]

Waiting(j) == [j EXCEPT !.status = "RETRY_WAIT", !.lapsed = FALSE]

\* assertSemanticReviewJobRecord, as far as the writes below may break it.
Storable(j) ==
    /\ j.attempts <= MaxAttempts
    /\ j.dup # None => j.status = "DUPLICATE_SCOPE"
    /\ (j.status = "PASS" /\ j.scope.claims # 0) => j.outcome = j.scope

-----------------------------------------------------------------------------
(* reconcile *)

\* A review that passed in the scope of a job completes it.
Fulfilled(p) ==
    /\ job[p] # None
    /\ Passed(p, job[p].scope)
    /\ job[p].status = "PASS" => job[p].outcome # job[p].scope

Observed == [p \in Proposals |->
               IF Fulfilled(p) THEN Completed(job[p]) ELSE job[p]]

\* How much a proposal deserves to be the one its scope is reviewed for.
Rank(J, p) ==
    IF PassedNow(p) THEN 0
    ELSE IF J[p] = None THEN 3
    ELSE CASE J[p].status = "PASS" -> 0
           [] J[p].status = "LEASED" -> 1
           [] J[p].status = "DUPLICATE_SCOPE" -> 3
           [] OTHER -> 2

\* Deviation: a proposal is its own canonical one.
OwnCanonical(J, p) == p

\* Deviation: the first proposal of a scope, whatever was done for others.
FirstOfScope(J, p) == Min({q \in Proposals : Scope(q) = Scope(p)})

\* The canonical proposal of p's scope.
CanonicalOf(J, p) ==
    LET group == {q \in Proposals : Scope(q) = Scope(p)}
    IN  Min({q \in group : \A r \in group : Rank(J, q) <= Rank(J, r)})

\* The job that is reviewed instead of p's.
DuplicateOf(J, p) ==
    IF /\ Admitted(p) /\ CanonicalOf(J, p) # p /\ ~PassedNow(p)
       /\ J[p] # None => J[p].status # "PASS"
    THEN CanonicalOf(J, p) ELSE None

Created(p, dup) ==
    IF PassedNow(p) THEN Completed(Fresh(p, "PASS", None))
    ELSE IF ~Admitted(p) THEN Fresh(p, "RESEARCH_ONLY", None)
    ELSE Fresh(p, IF dup = None THEN "PENDING" ELSE "DUPLICATE_SCOPE", dup)

\* Deviation: a job keeps its attempts when its scope changes.
ReopenedSpent(p, j, dup) == [Created(p, dup) EXCEPT !.attempts = j.attempts]

\* A job whose scope changed starts over.
Reopened(p, j, dup) == Created(p, dup)

Kept(p, j, dup) ==
    LET kept == [j EXCEPT !.scope = Scope(p), !.dup = dup]
    IN  IF Storable(kept) THEN kept ELSE None

\* What becomes of p's job; None when reconcile throws at it.
Decided(J, p) ==
    LET j == J[p]
        dup == DuplicateOf(J, p)
    IN  IF j = None THEN Created(p, dup)
        ELSE IF j.scope # Scope(p) /\ j.status # "LEASED" /\ ~PassedNow(p)
        THEN Reopened(p, j, dup)
        ELSE IF PassedNow(p) /\ j.status # "PASS"
        THEN IF j.scope = Scope(p) THEN Completed(j) ELSE None
        ELSE IF ~Admitted(p) /\ j.status \notin {"PASS", "LEASED", "RESEARCH_ONLY"}
        THEN [j EXCEPT !.status = "RESEARCH_ONLY", !.dup = None,
                       !.outcome = None, !.lapsed = FALSE]
        ELSE IF Admitted(p) /\ dup = None /\ j.status = "DUPLICATE_SCOPE"
        THEN [j EXCEPT !.status = "PENDING", !.dup = None]
        ELSE IF dup # None /\ j.status \notin {"PASS", "LEASED", "DUPLICATE_SCOPE"}
        THEN [j EXCEPT !.status = "DUPLICATE_SCOPE", !.dup = dup,
                       !.outcome = None, !.lapsed = FALSE]
        ELSE Kept(p, j, dup)

Decisions(J) == [p \in Proposals |-> Decided(J, p)]

\* A lease that ran out, and that this process does not wait for.
Lapsed(p, j) == j.status = "LEASED" /\ j.lapsed /\ active[p] = None

\* Deviation: a lease of the last attempt is left alone.
RecoveredUnspent(p, j) ==
    IF ~Lapsed(p, j) \/ j.attempts >= MaxAttempts THEN j
    ELSE IF Passed(p, j.scope) THEN Completed(j)
    ELSE Waiting(j)

\* recoverExpiredLeases
Recovered(p, j) ==
    IF ~Lapsed(p, j) THEN j
    ELSE IF Passed(p, j.scope) THEN Completed(j)
    ELSE IF j.attempts >= MaxAttempts THEN Exhausted(j)
    ELSE Waiting(j)

\* The proposals at which reconcile throws.
Throwing(decided) == {p \in Proposals : decided[p] = None}

\* The jobs after reconcile: those before the one it throws at are written,
\* and leases are recovered only when it does not throw.
Reconciled(J, decided) ==
    [p \in Proposals |->
       IF Throwing(decided) = {} THEN Recovered(p, decided[p])
       ELSE IF p < Min(Throwing(decided)) THEN decided[p] ELSE J[p]]

Reconciling ==
    \E J \in {Observed} : \E decided \in {Decisions(J)} :
       job' = Reconciled(J, decided)

\* Any caller but the tick.
Reconcile ==
    /\ Reconciling
    /\ UNCHANGED <<terms, claims, active, running, passed, asked, bounds>>

-----------------------------------------------------------------------------
(* tick and dispatch *)

Waits(a) == {p \in Proposals : a[p] # None}

\* Deviation: the desk's other reviews are not counted.
AvailableHere == Slots - Cardinality(Waits(active))

\* The slots the scheduler and the desk have left; a tick is allowed as many
\* requests.
Available == Slots - Max({Cardinality(Waits(active)), Cardinality(running)})

Due(J) ==
    {p \in Proposals :
        /\ \/ J[p].status = "PENDING"
           \/ J[p].status = "RETRY_WAIT" /\ J[p].lapsed
        /\ active[p] = None}

\* The first n of a set of numbers.
FirstOf(S, n) == {x \in S : Cardinality({y \in S : y < x}) < n}

\* Deviation: the attempt is not counted.
LeasedFree(j) == [j EXCEPT !.status = "LEASED", !.lapsed = FALSE]

Leased(j) ==
    [j EXCEPT !.status = "LEASED", !.attempts = @ + 1, !.lapsed = FALSE]

\* Jobs are dispatched in order, up to one whose lease cannot be stored: that
\* throws out of the tick.
Dispatched(J) ==
    LET chosen == FirstOf(Due(J), Available)
    IN  {p \in chosen : \A q \in chosen : q <= p => Storable(Leased(J[q]))}

Asked(p, J) == IF <<p, J[p].scope>> \in DOMAIN asked
               THEN asked[<<p, J[p].scope>>] ELSE 0

Tick ==
    \E J0 \in {Observed} : \E decided \in {Decisions(J0)} :
    \E J \in {Reconciled(J0, decided)} :
    \E sent \in {IF Throwing(decided) = {} /\ Available > 0
                 THEN Dispatched(J) ELSE {}} :
      LET begun == {<<p, J[p].scope>> : p \in sent}
      IN  /\ job' = [p \in Proposals |-> IF p \in sent THEN Leased(J[p]) ELSE J[p]]
          /\ active' = [p \in Proposals |-> IF p \in sent THEN job'[p] ELSE active[p]]
          \* a manual review of the same scope that is under way is joined
          /\ running' = running \union begun
          /\ asked' = [r \in DOMAIN asked \union begun |->
                         IF r \in begun THEN Asked(r[1], J) + 1 ELSE asked[r]]
          /\ UNCHANGED <<terms, claims, passed, bounds>>

\* Time passes a lease or a retry delay.
Lapse(p) ==
    /\ job[p] # None /\ job[p].status \in {"LEASED", "RETRY_WAIT"}
    /\ ~job[p].lapsed
    /\ job' = [job EXCEPT ![p].lapsed = TRUE]
    /\ UNCHANGED <<terms, claims, active, running, passed, asked, bounds>>

-----------------------------------------------------------------------------
(* The review desk. *)

\* How a review ends: it passes, or fails with one of the retry policies.
Ends == {"PASS", "STANDARD_RETRY", "ONE_RETRY", "NO_RETRY"}

\* shouldRetry
Retried(end, attempts) ==
    /\ attempts < MaxAttempts
    /\ end # "NO_RETRY"
    /\ end = "STANDARD_RETRY" \/ attempts < 2

\* The job is written from the lease the continuation kept, whatever was
\* written to it in the meantime.
AfterEnd(lease, end) ==
    IF end = "PASS" THEN Completed(lease)
    ELSE IF Retried(end, lease.attempts) THEN Waiting(lease)
    ELSE Exhausted(lease)

Finish(r, end) ==
    /\ r \in running
    /\ running' = running \ {r}
    /\ passed' = IF end = "PASS" THEN passed \union {r} ELSE passed
    /\ LET p == r[1] IN
       IF active[p] # None /\ active[p].scope = r[2]
       THEN /\ job' = [job EXCEPT ![p] = AfterEnd(active[p], end)]
            /\ active' = [active EXCEPT ![p] = None]
       ELSE UNCHANGED <<job, active>>
    /\ UNCHANGED <<terms, claims, asked, bounds>>

\* POST /api/v1/semantic-reviews/runs: a review in the current scope.  Before
\* its answer is waited for the projection is built, which reconciles.
Manual(p) ==
    /\ bounds.manual < MaxManual
    /\ ~PassedNow(p) /\ <<p, Scope(p)>> \notin running
    /\ Cardinality(running) < Slots
    /\ running' = running \union {<<p, Scope(p)>>}
    /\ Reconciling
    /\ bounds' = [bounds EXCEPT !.manual = @ + 1]
    /\ UNCHANGED <<terms, claims, active, passed, asked>>

-----------------------------------------------------------------------------
(* The world. *)

\* A contract is given another meaning: every bundle about it is captured
\* anew, in a corpus that never was before.
Reword(c) ==
    /\ terms[c] < MaxTerms
    /\ terms' = [terms EXCEPT ![c] = @ + 1]
    /\ UNCHANGED <<claims, job, active, running, passed, asked, bounds>>

\* Every requirement of a proposal has a claim, for the first time or another
\* one than before.
Enrich(p, set) ==
    /\ bounds.changes < MaxChanges
    /\ set # claims[p]
    /\ ClaimsReturn \/ set > claims[p]
    /\ claims' = [claims EXCEPT ![p] = set]
    /\ bounds' = [bounds EXCEPT !.changes = @ + 1]
    /\ UNCHANGED <<terms, job, active, running, passed, asked>>

\* The process ends, maybe between the record of a review that passed and the
\* job it was for.
Crash ==
    /\ bounds.crashes < MaxCrashes
    /\ bounds' = [bounds EXCEPT !.crashes = @ + 1]
    /\ active' = [p \in Proposals |-> None]
    /\ running' = {}
    /\ passed' \in {passed} \union {passed \union {r} : r \in running}
    /\ UNCHANGED <<terms, claims, job, asked>>

Next ==
    \/ Tick \/ Reconcile \/ Crash
    \/ \E p \in Proposals :
         \/ Lapse(p) \/ Manual(p)
         \/ \E set \in 1..MaxClaims : Enrich(p, set)
    \/ \E r \in running, end \in Ends : Finish(r, end)
    \/ \E c \in DOMAIN terms : Reword(c)

Spec == Init /\ [][Next]_vars

(***************************************************************************)
(* The timer ticks, time passes, and a review ends, by its policy at the   *)
(* latest.                                                                 *)
(***************************************************************************)
Fairness ==
    /\ WF_vars(Tick)
    /\ \A p \in Proposals :
         /\ WF_vars(Lapse(p))
         /\ WF_vars(\E r \in running : r[1] = p /\ \E end \in Ends : Finish(r, end))

FairSpec == Spec /\ Fairness

-----------------------------------------------------------------------------
\* Every stored job satisfies the contract it is checked against when it is
\* loaded, and a lease that is waited for has a review under way.
TypeOK ==
    /\ \A p \in Proposals : job[p] # None =>
         /\ job[p].status \in Statuses
         /\ job[p].scope.contract = Contract[p]
         /\ Storable(job[p])
         /\ (job[p].status = "DUPLICATE_SCOPE") = (job[p].dup # None)
         /\ job[p].status = "PASS" => Passed(p, job[p].outcome)
    /\ \A p \in Waits(active) : <<p, active[p].scope>> \in running
    /\ Cardinality(running) <= Slots

\* The scheduler asks for no more reviews of a proposal in one scope than its
\* attempts allow, across failures, expired leases, crashes and changes of
\* what the proposal is about, as long as no scope returns.
BudgetIsBounded == \A r \in DOMAIN asked : asked[r] <= MaxAttempts

\* A scope is reviewed for one proposal only: "Unchanged contract-semantic review
\* scope is owned by [the canonical job]; automatic reviewer request withheld"
\* (semantic-review-scheduler.ts:348).
OneReviewPerScope ==
    \A p, q \in Waits(active) :
        job[p].status = "LEASED" /\ job[q].status = "LEASED"
            /\ job[p].scope = job[q].scope => p = q

\* A review of contract c passed, and c was given another meaning since.
Reworded(c) == \E r \in passed : r[2].contract = c /\ r[2].terms < terms[c]

\* Two jobs of one scope are never under automatic review at once, however
\* claims, manual reviews, expired leases and crashes change which of them is
\* the canonical one, as long as no contract is reworded after a review of it
\* passed: a passed job is reopened whoever is the canonical one.
OneReviewUntilReworded ==
    \A p, q \in Waits(active) :
        job[p].status = "LEASED" /\ job[q].status = "LEASED"
            /\ job[p].scope = job[q].scope => p = q \/ Reworded(Contract[p])

\* A scope that was reviewed, by a job or by hand, for one of the proposals in
\* it is not reviewed again for another one.
NoRedundantReview ==
    [][\A p \in {x \in Proposals : active[x] = None /\ active'[x] # None} :
         \A q \in Proposals \ {p} :
            Scope(q) = active'[p].scope => ~Passed(q, active'[p].scope)]_vars

\* A lease that nothing waits for any more is given up ("recovers an expired
\* SQLite lease and retains the result across restart",
\* semantic-review-scheduler.test.ts:1221).
LeasesEnd ==
    \A p \in Proposals :
        (job[p] # None /\ job[p].status = "LEASED" /\ active[p] = None)
            ~> ~(job[p] # None /\ job[p].status = "LEASED" /\ active[p] = None)

\* Once the proposals stop changing, a review that passed in the current
\* scope of a proposal is its result ("reconciles a passed review without
\* spending another request", semantic-review-scheduler.test.ts:369).
PassIsObserved ==
    <>[](\A p \in Proposals : PassedNow(p) =>
           job[p] # None /\ job[p].status = "PASS" /\ job[p].outcome = Scope(p))

\* Once the proposals stop changing, every job of an admitted proposal is
\* settled in its current scope: reviewed, given up, or the duplicate of one
\* that is ("The next bounded tick retries durable jobs when capacity is
\* available.", server.ts:10698).
EveryJobSettles ==
    <>[](\A p \in Proposals :
           /\ job[p] # None /\ job[p].status \in Terminal
           /\ job[p].scope = Scope(p)
           /\ job[p].dup # None =>
                /\ job[job[p].dup].scope = Scope(p)
                /\ job[job[p].dup].status \in {"PASS", "EXHAUSTED"})
=============================================================================
