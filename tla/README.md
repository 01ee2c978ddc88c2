# Auto-Prediction: a TLA+ model of its trading core and its research schedulers

Auto-Prediction looks for propositions that several prediction markets price
inconsistently, verifies that a portfolio of positions pays in every resolution,
and rehearses ("shadows") its execution with exact capital accounting. Around that
core a control plane runs AI agents under leases, budgets and retries, and keeps
what they find in SQLite. This directory holds TLA+ modules of the parts where
state, order, rounding and failure matter, TLC configurations that check them on
small instances, and TLAPS proofs of the main safety results for every value of
the constants.

```
tlc -workers 2 -config MCExecution.cfg MCExecution     # one run
tlapm SearchLeaseProofs.tla                            # one proof module
```

Paths below are relative to the repository (`src/` in `PROJECT.json`).
`PROJECT.json` names every part of the system (`components`), the lines each
definition models (`map`), the runs, for each property a deviation of the code that
breaks it (`mutants`), what is hard to test in this code and where (`hazards`), and
the theorems.

## 1. The system and its parts

### Trading core (`packages/`)

| Part | State | Operations | Interaction |
|---|---|---|---|
| Capital ledger, `capital/src/ledger.ts` | five buckets and realized PnL per venue, reservations by id | `reserve`, `consume`, `release`, `markUnresolved`, `recognizeSettlement`, `recoverReceivable` | one ledger is shared by all plans of an engine |
| Shadow execution engine, `execution/src/shadow-engine.ts`, `order-machine.ts` | plans with lifecycle, deployed debits, lock; an order machine per intent | `reservePlan`, `submit`, `acknowledge`, `reject`, `fill`, `cancel`, `markUnknown`, `reconcileUnknown`, `beginUnwind`, `lockCapitalForResolution`, `settlePlan` | driven by venue reports in any order; asks the risk governor, calls the ledger |
| Plan validation, `execution/src/plan.ts` | none (Kahn's walk while it runs) | `validateExecutionPlan` | the engine reserves only what it accepts |
| Opportunity compiler and verifier, `opportunity/src/` | none (a bisection while it runs) | `proposeCompleteSetCandidate`, `verifyArbitrageCandidate` | propose sizes and compute what is certain |
| Exact promotion and certificate shadow, `control-plane/src/exact-promotion.ts`, `execution/src/` | certificate, shadow position | simulate, promote, verify, replay, observe | each stage rounds for itself and the next one checks it |
| Exchange simulator, `execution/src/exchange-simulator.ts` | none | order book and AMM orders | prices what the promotion replays |
| Liquidity, `liquidity/src/` | none | `buildHedgeCurve`, `generateShadowMakerQuote` | |
| Order book, `market-state/src/book.ts` | lifecycle, generation, sequence, tick, levels | snapshot, delta, tick change, `markStale`, `close`, identity | certificates are bound to its identity |
| Gemini feed, `venue-gemini/src/index.ts`, `book-desk.ts` | last sequence per instrument | decode, replay loop | applies a depth stream to a book |
| Opportunity lifecycle, `execution/src/opportunity-lifecycle.ts`, `control-plane/src/opportunity-lifecycle-desk.ts` | journal per case, table of journals, policies | materialize, simulate, verify, approve, shadow, observe, expire | HTTP handlers; answers 409 when a save fails |

### Control plane (`packages/control-plane/src/`)

| Part | State | Operations | Interaction |
|---|---|---|---|
| Search lease scheduler, `search-lease-scheduler.ts`, with its tables | records, corpora, lanes that run, lanes that wait | `begin`, both lanes, `retryDeep`, `resumeDeepWork`, closing of issued leases | called by the issue scheduler; awaits AI lanes; writes the store |
| Search issue scheduler, `search-issue-scheduler.ts` | issues with due times, active leases | ticks, requests, completion, notification | issues leases, tells the attention outbox |
| Attention outbox, `search-attention-outbox.ts` | messages, deliveries, leases on deliveries | enqueue, tick, webhook answers, acknowledgement | webhooks with retries and dead letters |
| Catalog observation, `catalog-observation.ts`, `catalog-refresh-scheduler.ts` | latest result per source, rows of raw observations | refresh, evidence, pruning | asks venues; what it stores is evidence |
| Agent campaigns, `agent-campaign-dispatcher.ts`, `agent-runtime-adapter.ts` | campaign revisions, runs, recorded and reserved invocations | activate, pause, revise, tick, open, invoke, finish | several runs interleave at awaits under one budget |
| Semantic review scheduler, `semantic-review-scheduler.ts` | job per proposal, reviews | reconcile, tick, dispatch, lease expiry, manual review | bounded ticks, retries, canonical proposal per scope |
| Investigation desk, market archaeologist desk, discovery ledger (`investigation-desk.ts`, `market-archaeologist.ts`, `discovery-ledger.ts`) | records in memory and rows with a retention of their own | begin, completion, failure, publication | each run is to be done once per task |
| Evidence acquisition, `evidence-acquisition-scheduler.ts` | job per document scope, leases, captures | reconcile, expiry, fetch, capture, operator request | budgets of attempts |
| Live projection, `server.ts`, `apps/studio/src/data/studio-projection.tsx` | revision, cache, saved snapshot, invalidations; view and ETag of a page | mutate, build, serve, announce, refresh, reconnect | one server thread, any number of pages |

Not modelled: the HTTP routing and read-only projections, the command line and the
studio's rendering (I/O and views), the domain types and parsers, evidence hashing,
the other venue adapters, the chaos suite (a test harness), the tables not named above,
and the research schedulers that repeat the lease, retry and restart pattern of the
modelled ones over other records. `PROJECT.json` lists each with its reason, and
what a part that is "partly" modelled leaves out.

### What is hard here

* *Order of reports.* Fills, cancellations, UNKNOWN and its reconciliation reach an
  order in any sequence, for several legs of several plans that share capital.
* *Calls that partly succeed.* `reservePlan` reserves leg by leg and undoes that when
  a later leg fails; a snapshot assigns bids before it validates asks; a handler
  changes memory and then fails to save.
* *Interleaving at awaits.* Between two awaits code runs alone, at an await anything
  may run: a duplicate looked up before an await, a budget checked before a call,
  a projection built while the state changes.
* *Crash and restart* between any two writes, with memory and table bounded by
  different retention rules.
* *Limits.* Slots, budgets of attempts and invocations, retentions, windows.
* *Unreliable delivery.* Ranges of a depth stream, webhook calls, invalidation events.
* *Rounding.* Simulation, promotion, verifier, replay, compiler and curves round for
  themselves, some up and some to a tick.

### What makes each part correct

* Money: capital is conserved per venue and never crosses between venues, no bucket
  becomes negative although the code subtracts without comparing, the engine's own
  records and the ledger agree on where every unit is.
* Execution: a plan is LOCKED only when each leg is filled; a reservation is open
  exactly while its order may fill; a proposal fits the capital and no larger one does;
  what a certificate promises can be replayed and is kept.
* Books: a valid book is the venue's at its sequence; an identity that stopped matching
  never matches again.
* Schedulers: work is given out once, attempts and slots stay within limits across
  crashes, unfinished work is never lost and ends, what is shown was stored.
* Pages: what is served as live is current, and a page ends up showing the last state.

## 2. Modules

| Module | Models |
|---|---|
| `SiloedCapital` | the abstract promise of the ledger: capital stays in its venue |
| `CapitalLedger` | `ledger.ts`; implements `SiloedCapital` |
| `ShadowExecution` | engine, order machines and the governor's capital checks over `CapitalLedger` |
| `PlanValidation`, `CompleteSetCompiler` | the two algorithms, one loop iteration a step |
| `DeterministicBook` | `book.ts`: state and events |
| `BookIdentity`, `GeminiBookFeed` | two uses of it: a consumer with a captured identity, and the Gemini feed |
| `ExchangeSimulation`, `ExchangeSimulator` | orders on books and pools as operators, and one call of them |
| `ExactPromotion` | simulation, promotion, verifier, replay and observation over `ExchangeSimulation` |
| `HedgeQuote` | curves and quotes |
| `OpportunityLifecycle`, `OpportunityDesk` | the lifecycle's methods and its replay validator, kept apart as in the code; the desk, its table and handlers |
| `Selection` | the `filter` of lists and tables, as a function that can be proved about |
| `LeaseStore`, `SearchLease` | lease tables with both retentions and `#persist`; the scheduler |
| `SearchIssueScheduler`, `CatalogObservation`, `AttentionOutbox` | the parts of those names |
| `AgentCampaign` | dispatcher with the parts of runtime and substrate it calls |
| `SemanticReview`, `InvestigationDesk`, `MarketArchaeologistDesk`, `DiscoveryDesk`, `EvidenceAcquisition` | the parts of those names |
| `StudioStream` | live projection, cache, events and pages |
| `MCExecution`, `MCMarket`, `MCSearch`, `MCResearch`, `MCAgentWork`, `MCStudioStream` | instances for TLC |
| `FiniteFolds` | theorems about sums over finite sets, least elements, and filtered and joined sequences |
| `ShadowExecutionProofs` | theorems about `CapitalLedger` and `ShadowExecution` |
| `MarketProofs` | theorems about `PlanValidation`, `CompleteSetCompiler`, `BookIdentity`, `GeminiBookFeed` |
| `AgentWorkProofs` | theorems about `AgentCampaign` and `OpportunityDesk` |
| `SearchLeaseProofs`, `StudioStreamProofs` | theorems about `SearchLease` with `LeaseStore`, and about `StudioStream` |
| `SearchProofs` | theorems about `SearchIssueScheduler`, `AttentionOutbox`, `CatalogObservation`, as `MCSearch` composes them |
| `ResearchProofs` | theorems about `InvestigationDesk`, `MarketArchaeologistDesk`, `DiscoveryDesk`, `SemanticReview`, as `MCResearch` composes them |

The modules share the conventions that follow. A call that throws and changes nothing
is a disabled action; one that throws and changes something is an action of its own
(`ReservePlanRollsBack`, `BeginRefused`, failed saves). Amounts and prices are integers:
the code's are `bigint`, so there is no width to model. Numbers that bound an instance
(`MaxCrashes`, `MaxEvents`, `MaxClock`, ...) are constants and are marked as bounds
where they are declared. Where code persists and then updates its list in the same
turn with the same record, one variable stands for both and says who still has
it.

Definitions whose comment begins with "Deviation" are no part of a specification.
Each is a plausible mistake in one operation (a dropped guard, a wrong order, a missing
reset) next to the operation itself. With it in place of the operation TLC finds the
paired property violated, which shows that the property depends on what the code does
there.

**Side by side.** Parts that share no state are explored in one run: a variable
`machine` chooses which of them moves, and the others rest in an initial state. The state
graph is the disjoint union of theirs, so an invariant holds exactly when it holds of
each part alone, and no part profits from the presence of another. Parts that do share
state (engine and ledger; scheduler and store; desk, table and lifecycle; server and
page) are composed by extension and interleave.

### How state and actions correspond to the code

* `CapitalLedger`: `capital[v][b]` is a bucket. `Consume` and `Release` subtract from
  the reserved bucket without comparing, like the code, so that non-negative buckets are a
  result and no guard.
* `ShadowExecution`: the ledger's ids are the intents `<plan>:<intent>` in the order
  in which `reservePlan` takes them; `DebitUpTo` is what it has asked of a venue when
  it comes to a leg. Of `evaluateOpening` the capital limits are exact, and its other
  reasons (clock, book age, quarantine) are a reason for the step not to happen.
* `PlanValidation` takes any ready intent where the code takes the oldest.
* `GeminiBookFeed`: a message may be received any number of times after the events it
  covers, which is loss, repetition, reordering and overlap without a channel. It does
  not say whether it is a whole book or an update, and the decoder goes by the numbers:
  without a predecessor `U = u` is a snapshot; with one, every newer message is a
  delta, or a gap that marks the book stale, whether `U = u` or not. So an update of one
  event may be taken for a book (`DecodeFirst`) and a whole book for changes (`Chain`);
  the history variable `misread` remembers which of the two the present book has seen.
* `SearchLease`: `fast` is the await at which `#execute` is, `task` the place of a lease
  in the deep lane, `race` what a queued lease waits for with `Promise.race`, and `todo`
  the leases that the running piece of code has still to deal with. While `todo` is not
  empty only a crash comes between. `failExpiredIssued` has no clock: it may close any
  issued lease that nobody runs. Two history variables, read by no action: `overlooked`
  holds the leases of the same signature that a lookup of duplicates could not see,
  `halted` the unfinished leases that the code has left behind, with the branch that
  does it.
* `OpportunityDesk`: the entry in memory changes first and is saved afterwards; a
  refused save leaves the change in memory.
* `EvidenceAcquisition`: times are relative to the present, so no clock needs a bound; a
  fetch that hangs is recovered by its lease only.
* `SemanticReview`: `Manual` contains the `reconcile` that the projection runs
  afterwards. Jobs are checked against the contract of a stored job, and a record
  that breaks it makes the step throw.
* `StudioStream`: a projection is the version of the state it was derived from; two are
  equal exactly when their ETags are. With `TornBodies` a connection may end inside a
  response body; the history variable `torn` says that a page's ETag is of such a body.

## 3. Runs

| Run | Module, configuration | Distinct states | Properties |
|---|---|---|---|
| `execution` | `MCExecution` | 67,993 | `TypesOK`, `LockedPlanIsHedged`, `ReservationFollowsOrder`, `DeployedIsAttributed`, `ExposureWithinLimit`, `KeepsSilos`, `RolledBackPlanStaysAbsent`; `AcceptedIsExecutable`; `ProposalIsTight`, `ProposalIsLargest`; `ValidBookIsAligned` |
| `market` | `MCMarket` | 218,137 | `ValidBookIsFaithful`; `ReservedIsBacked`; `WalkIsBest`, `RoundTripGainsNothing`; `CertifiedCanBeReplayed`, `PositionKeepsCertificate`; `CurveIsBest` |
| `agent_work` | `MCAgentWork` | 1,522,019 | `SlotsAreRespected`, `RunningIsRecorded`, `UnfinishedIsScheduled`, `OnlyUnseenRepeats`; `OnceRespected` |
| `campaign_and_desk` | `MCAgentWork`, `MCCampaignDesk` | 1,315,177 | `OverspendIsBounded`; `EntriesCanBeSaved`, `AnswersAreStored` |
| `signature_repeated` | `MCAgentWork`, `MCSignatureRepeated` | violated | `OneInvestigationPerSignature` |
| `agent_campaign_budget` | `MCAgentWork`, `MCCampaignBudget` | violated | `BudgetIsRespected` |
| `search` | `MCSearch` | 595,117 | `CountedOnce`, `OneLeasePerIssue`; `EvidenceKeepsItsSource`; `RequestsAreBounded` |
| `reviews_reworded` | `MCResearch`, `MCReviewsReworded` | violated | `OneReviewPerScope` |
| `research` | `MCResearch` | 864,882 | `OneReviewUntilReworded`; `MemoryIsDurable`; `ShownPassWasStored`; `LedgerAgreesWithTable`; `FetchesAreBounded` |
| `agent_work_live` | `MCAgentWork`, `MCAgentWorkLive` | 146,594 | `DeepWorkEnds`, `MembersAreAttempted` |
| `studio_stream` | `MCStudioStream` | 1,099,959 | `LiveAnswersAreCurrent`, `LiveNeverGoesBack` |
| `studio_stream_live` | `MCStudioStream`, `MCStudioStreamLive` | 138,156 | `LatestIsShown` |

Each property is stated in words above its definition.

### Instances, and why they are enough

* `execution`. Two plans of two legs meet at both venues and compete for the capital of
  one; one leg has quantity 2 for partial fills and one waits for another. Two plans are
  the smallest case in which one could take what the other deployed. One certificate
  requires less than its plan takes at a venue and the other does not name one, so the
  limit is really overrun. Plans of three intents with every list of up to four dependencies contain every cycle up to length
  three, repeated edges and ids that do not exist. Complete sets have three legs at
  two venues in many combinations of price, fee and tick (up to 6), so that common
  ticks are not a leg's own.
  Books have one price on and one off the wider tick and two generations.
* `market`. Four venue events give a gap between two overlapping ranges, and two
  generations a book that recovers; updates cover one event or more. Of the ledger, any
  sequence of calls on two reservations. Orders meet books of two levels at prices that do
  not divide the scale, and pools up to 9 by 9. Promotions have two legs at one venue
  or two and a state in which both win.
* `agent_work`. Three leases (two on one snapshot) for two signatures, two slots in
  each lane, so that leases wait together and wake together; price enrichment between
  the lookup of duplicates and its use; retention two, so that store and list forget; a
  switch for the deep lane; a crash at any point. Of a campaign that gives every task
  once, three revisions change the members while a run is prepared; a batch may be
  refused and the process restart. `signature_repeated` has the leases only, one
  signature, and neither a crash nor forgetting.
* `campaign_and_desk`. Three runs of a campaign, two at a time, interleave their
  invocations. Two cases compete for one journal of the table.
* `search`. One issue over two snapshots; two sources with one row each; two messages
  of which one is kept. Each has one refused save or failure, and one restart. No corpus
  identity returns (`CorpusReturns = FALSE`, see section 4).
* `research`. Two proposals of one scope, which is the smallest case of a duplicate, with a
  claim set that separates them, a rewording, a manual review, lapsed leases and a
  crash, in every order; four investigations and three runs of the archaeologist for two
  kept records; two discovery requests beside two fast lanes; two scopes of evidence of
  which one must stay current. `reviews_reworded` is the same instance.
* `studio_stream`. One page; pages share only the server's cache and builds, and a
  request of its own may already join the build of an earlier one. Bodies may be torn
  here; in `studio_stream_live` they may not, because after a torn body the last state
  is really not shown until another change comes (section 4).

Symmetry is used where its members are interchangeable and only for invariants. A
`CHOOSE` over a symmetric set (`DuplicateOf`) is over at most one element there, by
`SlotsAreRespected`.

`CHECK_DEADLOCK FALSE` stands where the instance really stops: plans settled, events
used up, leases, runs, messages and restarts spent.

### Fairness

All of it is weak, and nothing is assumed of crashes, requests, operators or switches.

* `agent_work_live`, leases: code that runs runs on (`Interrupt`, `MakePending`,
  `LaunchDeep`); both lanes return, because the agents are aborted at a timeout and the
  enrichment is a bounded fetch; a continuation of a settled promise runs (`Wake`); the
  issue scheduler, while enabled, closes expired leases at every tick (`FailIssued`).
* `agent_work_live`, campaign: a run at an await goes on (`RunStep`), the timer of the
  dispatcher fires (`Tick`), the interval of a scheduled campaign passes.
* `studio_stream_live`: callbacks and timers of the server run, requests and events
  arrive, an `EventSource` opens again by itself. No single request fails
  (`MaxFailures = 0`) and no body is torn; connections and the process are lost.

## 4. Where code and its documents or tests disagree

Three are kept as runs. `agent_campaign_budget`: `onProgress` releases
the reservation of a completed invocation (`agent-campaign-dispatcher.ts:551`), and the
`finally` of `#execute` releases one more (`:570`). With two runs at once the
reservation of the run that is still calling disappears, and one more invocation
passes the check. `campaign_and_desk` and the theorem `OverspendIsAtMostConcurrency` say
how much it can be: no more than the other runs in flight.

`signature_repeated`: a prior signature "creates a duplicate link and consumes no pi
call" (`docs/design/ai-discovery-and-control-plane.md:171`; the test at
`search-lease-scheduler.test.ts:489` runs the leases one after the other). The
fast lane looks for a duplicate at `search-lease-scheduler.ts:2284`, awaits
`enrichPrices` at `:2312` and does not look again: two leases that wait for prices at the
same time do not see each other, and pi is called for both. `OnlyUnseenRepeats`, checked by
`agent_work` and proved, says that nothing else repeats a signature but this and a lease
that the bounded list has forgotten.

`reviews_reworded`: a test says that one canonical job is reviewed for an unchanged
symmetric scope (`semantic-review-scheduler.test.ts:691`), and a duplicate's diagnostic
that the request was withheld (`semantic-review-scheduler.ts:348`). When both proposals of
a contract passed, one by its job and one by hand or both before, and the contract then
is captured with another meaning, both are in one new scope that has no review.
`duplicateOfJobId` (`:987`) is null for a job whose status is PASS, also when it passed in the
old scope, so `reconcile` reopens both as PENDING and one tick asks for both reviews.
`OneReviewUntilReworded`, checked by `research` and proved, says that nothing else brings two
jobs of one scope under review at once.

The following were found with TLC on small instances of the modules, where the property
named is stated. They are not runs of this project; the deviations of the code they
quote can be read at the line.

| Property, module | Where | What happens |
|---|---|---|
| `UnreconciledPlanIsUnknown`, `ShadowExecution` | `shadow-engine.ts:128` | a plan with an UNKNOWN leg is reported SUBMITTING, ACKNOWLEDGED or FAILED as soon as another leg moves |
| `RebuiltBookIsFaithful`, `GeminiBookFeed` | `venue-gemini/src/index.ts:394` | stale or gapped books "fail closed" (`README.md:168`), but after a gap an update of one event (`U = u`) is taken for a whole book |
| `ExposureWithinLimit` with `Shortfall` and `Unchecked` zero, `ShadowExecution` | `governor.ts:90` | the limit is compared with what the certificate requires and not with the debits that are reserved, at no venue that the certificate does not name |
| `UnresolvedHasCorpus`, `SearchLease` | `operational-store.ts:7208` | the store prunes a failed record and its corpus while the list keeps the lease; a retry records it again without a corpus, and a restart cannot resume it |
| `StoredLeaseIsKnown`, `SearchLease` | `search-lease-scheduler.ts:2950` | the list counts unresolved leases against its limit, the store does not: a stored result is unknown, and issuing it again is refused |
| `AnnouncedVerificationHappens`, `OpportunityDesk` | `server.ts:9572` | a simulated case announces an exact verification that no handler can start |
| `DeliveriesSettle`, `AttentionOutbox` | `search-attention-outbox.ts:780` | a due delivery of a trimmed message throws at every tick and blocks those behind it |
| `RestartSucceeds`, `AttentionOutbox` | `search-attention-outbox.ts:505` | messages and deliveries are trimmed by different times; a restart saves a delivery that the store deletes at once, and throws |
| `PassedIsNotRepeated`, `InvestigationDesk` | `investigation-desk.ts:411` | a passed task whose row is retained is run again |
| `PassedIsNotRepeated`, `MarketArchaeologistDesk` | `market-archaeologist.ts:1067` | memory forgets a report that the table holds; the run is repeated and refused |
| `IssuesAreReleased`, `SearchIssueScheduler` | `search-issue-scheduler.ts:1613` | a lease whose end cannot be saved keeps its issue and a slot of its family |
| `FailuresAreNoticed`, `SearchIssueScheduler` | `search-issue-scheduler.ts:1615` | a failed lease whose callback a crash cut off is never notified |
| `CountedOnce`, `SearchIssueScheduler` with `CorpusReturns` | `search-issue-scheduler.ts:1624` | a lease replayed after another corpus is counted again |
| `LastSuccessSurvives`, `CatalogObservation` | `catalog-observation.ts:679` | rows kept as evidence fill what a restart loads |
| `ObservationIsRecorded`, `ExactPromotion` | `certificate-shadow.ts:465` | an observation with a leg at another venue is thrown away instead of recorded as changed scope; only callers of the library can reach it |
| `DemandIsSettled`, `EvidenceAcquisition` | `evidence-acquisition-scheduler.ts:487` | one scope with more than 100 requirements makes every later tick throw |
| `BudgetIsBounded`, `EvidenceAcquisition` with a small retention | `evidence-acquisition-scheduler.ts:817` | a pruned job is created anew with no attempts |
| `LiveIsShown` without its exception, `StudioStream` | `studio-projection.tsx:275` | the ETag is taken before the body has been read: a torn body is later answered 304 and shown as live |
| `LeasesEnd`, `PassIsObserved`, `EveryJobSettles`, `NoRedundantReview`, `SemanticReview` | `semantic-review-scheduler.ts:1169`, `:1106`, `:1130`, `:960` | a manual review or changed claims bring jobs into states whose record is refused, so that `reconcile` or a tick throws for ever; one rank makes a scope be reviewed twice |

## 5. Proofs

Every theorem is for all values of the constants that satisfy the named assumptions of
the modules; these say what a type or a constructor of the code enforces (positive
limits, natural amounts, distinct markers). Each safety theorem has the shape
`Init => IInv`, `IInv /\ [Next]_vars => IInv'`, one lemma or step per action, and follows
from the inductive invariant `IInv`; TLC checked the inductive invariants before they
were proved.

**`FiniteFolds`.** The engine and the compiler add up over sets. The fold of the
community modules takes elements in an order nobody chooses, and the provers have no
induction over data. Strict inclusion is well founded on the subsets of a finite set: if
a claim about sums fails for a subset, it fails for one all of whose proper subsets satisfy it
(`MinimalSubset`, from the library's facts about finite sets). `SumRecursion` and
`SumWithout` (any summand may be taken out), `SumOfChange`, `SumOfParts` and
`SumIsMonotone` rest on that.

**`ShadowExecutionProofs`.** *Ledger.* Conservation is inductive; non-negative buckets are not,
because `consume` subtracts what *one* reservation holds. The invariant `LedgerInv` adds
`ReservedIsBacked`: the reserved bucket is the sum over all reservations of what they
hold. `LedgerKeepsSilos` is the refinement of `SiloedCapital`, step by step.

*Engine.* `OrderInv` relates each order, its reservation and its
plan's lifecycle; that LOCKED implies filled legs needs that each of the five methods
which assign a lifecycle without looking at other orders has an order that is not
filled, and that a filled order moves no more. `FundsInv` adds where the capital is:
what a venue has reserved is the sum over its intents, what it has deployed or
unresolved the sum over its plans, and a plan's own record is the sum over its legs.
Lock and settlement move a plan's capital by the engine's record and not by
reservations, so only these equalities keep the buckets from going negative
(`EngineNeverOverdraws`) and the "diverged" checks from throwing (`PlansNeverDiverge`).
`CapitalIsAttributed`, `EngineReservesAreBacked`, `EngineKeepsSilos` (the whole engine
implements `SiloedCapital`), `PnlMovesOnSettlement` and `ExposureStaysWithinLimit`
follow. Neither the engine nor the governor compares what a certificate requires with the
debits of the plan, and the theorem assumes nothing of the two: beyond the limit go the
debits at venues that certificates do not name, and what one certificate falls short by.
That it is not the sum of several is the point: the next plan is measured against
what is really at risk.

**`MarketProofs`.** *Plans and proposals.* The walk accepts exactly the plans without a cycle: visited
intents are closed under dependencies and acyclic, and when nothing is ready those
left wait for each other. The bisection keeps a size that fits and one beyond which
nothing does; `ProposalsAreLargest` needs that debits, rounded up, never fall when the
quantity grows, neither for a leg nor summed over the legs of a venue. That the common
tick is the least one is not part of it (see below, what is only model-checked).

*Books.* A captured identity is never ahead of the book in the order of
generation and sequence, and a step that changes the book of a matching identity moves
forward. `FeedInv` says of every level of a valid book that it is the venue's or one of
the two misreadings explains it, and that decoder and book agree. It is inductive because
an update that overlaps what was applied changes nothing it should not (a level outside
it has not changed over its range), and because a whole book read as changes names every
level there is: it puts back what an earlier update, read as a book, had left out.
`FeedIsFaithful` and `DecoderAndBookAgree` follow for any messages, and
`WellReadBookIsTheVenues`: a book that has seen no misreading is exactly the venue's.

**`AgentWorkProofs`.** *Campaigns.* `Executes` ties a run that executes to its PREPARED record;
hence the campaign's concurrency bounds the calls in flight, and the overspend. A task
of a campaign that gives each task once is in at most one run, over revisions, refused
batches and restarts.

*Opportunities.* Methods and replay validator are two encodings of the
protocol: a method used in the state it expects appends an event that the validator
accepts and moves where the validator computes. Memory, table and answers of a case
are then three prefixes of one history, whence `EntriesStayStorable` and
`AnswersStayStored`.

**`SearchLeaseProofs`.** `LeaseInv` says that what the process does with a lease is what
its record says: a fast lane runs for an ISSUED record, a queued or woken lease is
PENDING, a running one RUNNING, all of them in the list, and of the leases still to be
dealt with only the first may have ended its stage, for a retry within its budget. It is
inductive because both retention rules take terminal records only: whatever the process is
busy with has a record that is not terminal, so no `#persist` for another lease touches
it (`BusyKeep`), and what a restart finds unfinished is still a row. The lemmas about
`Only` (what the code's `filter` keeps), `Reverse` and prefixes make this exact for the
sequences of the two sides. `SlotsStayRespected`, `RunningStaysRecorded`,
`PendingKeepsBudget`, `UnfinishedIsStored` and the action property
`FastLaneNeverRunsAgain` follow, for any number of leases, slots, crashes and any
retention.

`HistoryInv` adds what the history variables are for. `ClaimInv`: of two leases with one
claim on a signature (recorded, or found and not recorded while prices are fetched) one
looked for duplicates and could not see the other; `InvestigationsRepeatOnlyUnseen`
follows. `WorkInv` says where unfinished work is: a RUNNING stage is run by this process,
a PENDING one is woken, waits for a lane that is still in use, or is among what the
running code still deals with, unless it was left behind; `UnfinishedStaysScheduled`
follows. Both hold with enrichment, with any retention and any use of the switch.

**`SearchProofs`.** *Issues.* A tick reads an issue's lease before an await and records
it afterwards. `LeasesInv` therefore speaks of the leases a tick still has to record: each
is the only one of its issue that can be open, whence `OneLeaseHolds`. `CountInv` says that
the counters of an issue are the number of its counted leases and that these come in the
order of their snapshots, so that the one comparison the code makes, with the last of
them, is enough; `CountHolds` assumes `CorpusReturns = FALSE`, without which it is false
(section 4). `LimitsHold` bounds leases per scheduler, family and share. *Outbox.*
`OutboxInv` is a budget: three requests for every delivery enqueued, one for each attempt
not recorded, and what is under way or was read before the await is part of it;
`OutboxHolds`. *Catalog.* Retention deletes no row that evidence refers to (`CatalogHolds`).

**`ResearchProofs`.** Memory and table of a desk are bounded lists that forget different
records. Where their order does not matter they are compared element by element:
`ShownStaysStored` (reports of the archaeologist; an upsert may keep another row than the
one that was answered) and `LedgerStaysInAgreement`. For `MemoryStaysDurable` it does:
what has completed in memory is a beginning of the table, because the record of the active
investigation is the front of the list until it is replaced there (`ActiveIsFirst`).
*Reviews.* `ReviewInv` says of every scope in sight that its proposal has or had it, that a
passed job keeps the review that passed, and that of two leased jobs that wait and may
share a scope the contract was reworded. `DueFacts` is the core: a proposal that is
dispatched is the canonical one of its scope or has passed before, and the canonical
one has the lowest rank, which a leased job also has; `ReconciledFacts` shows that a
`reconcile` that throws half way leaves jobs that are sound all the same.
`ScopesAreReviewedOnce` follows, for any proposals, slots, attempts and changes.

**`StudioStreamProofs`.** `StreamInv` relates what a build read to what was announced: a
snapshot lags the state by no more changes than are still to be announced, as long as its
revision is current, and a request that waits does so for a build that has read, or will
read, every change announced when it came. `LiveAnswersStayCurrent` and `CacheStaysCurrent`
follow for any number of pages, changes, restarts and failures. Pages outlive the server:
`PageInv` says of every view a page shows, or the server saved, that nothing older can be
served as live any more. `LiveViewsNeverGoBack` (an action property) and
`LiveIsOnlyTheShown` follow, torn bodies included: after one, and until the next body
arrives, a page may show an older view as live, and that is the only case. What it shows
never goes back all the same.

### Only model-checked, and why

* Liveness (`DeepWorkEnds`, `MembersAreAttempted`, `LatestIsShown`): out of the prover's
  reach, as is `ENABLED`.
* `WalkIsBest`, `RoundTripGainsNothing`, `CertifiedCanBeReplayed`,
  `PositionKeepsCertificate`, `CurveIsBest`: recursion over levels, whose result for
  every input needs induction over data. The same holds for the Euclidean algorithm in
  the compiler's common tick. `CurveIsBest` allows one unit of rounding for every
  further level, and `CertifiedCanBeReplayed` leaves out legs that cost nothing, for
  which the replay asks for another model.
* `FetchesAreBounded`: one tick of the evidence scheduler folds over its jobs in the order
  of a sequence built from a set, recursively.
* `TypesOK` of `execution` says of every part of `MCExecution` that its variables have the
  types the proofs start from; for `ShadowExecution` `TypesAreKept` proves it.
* Of `SemanticReview`, that every stored record keeps to its contract (`TypeOK`) and that the
  attempts in a scope are bounded (`BudgetIsBounded`), which no run lists: TLC finds both to
  hold in the instance of `research`.

## 6. What a reader should not conclude

* The properties of section 3 without a theorem are checked for the instances named
  there and for nothing larger.
* A valid book of the feed may lack levels after an update of one event was taken for a
  book, and have levels that are gone if a whole book came later. The adapter does
  not tell the two apart.
* `OnlyUnseenRepeats` and `UnfinishedIsScheduled` name their exceptions; they do not say
  that a signature is investigated once or that every stage is run.
* The governor's venue limit is no bound on the capital at risk, unless certificates
  cover their debits: `ExposureWithinLimit` says by how much it may be exceeded.
* An acknowledged message of the outbox may be displaced by a later delivery;
  `RequestsAreBounded` is about requests, not about what the operator still sees.
* The lease scheduler's liveness is checked with the deep lane always on. A pending
  lease waits for the next restart when it is switched off.
* An operator's retry starts a new budget of fetches: `FetchesAreBounded` says that
  each budget is kept, not that a scope is fetched a bounded number of times in all.

## 7. Plan

1. `AgentCampaign`: that a reservation belongs to one run, and where the release at
   the end breaks it.
2. `EvidenceAcquisition`: the tick as a fold whose order is given, so that
   `FetchesAreBounded` can be proved.
3. `SemanticReview`: the probability-case repairs that share its jobs, and a proof of
   `BudgetIsBounded`.
4. The venue feeds with state of their own (Polymarket, Limitless) over
   `DeterministicBook`, and the research schedulers not modelled yet.
