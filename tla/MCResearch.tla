----------------------------- MODULE MCResearch -----------------------------
(***************************************************************************)
(* Who asks models and fetches documents for a search, for TLC: the        *)
(* scheduler of semantic reviews, the desks of investigations and of the   *)
(* market archaeologist, the discovery ledger and the scheduler that       *)
(* acquires evidence.                                                      *)
(*                                                                         *)
(* They are explored side by side: machine says which of them moves in a   *)
(* behaviour, and the others rest in an initial state.  The reviews keep   *)
(* their names; the variables of the others have a prefix where they would *)
(* meet.                                                                   *)
(***************************************************************************)
EXTENDS SemanticReview, TLC

CONSTANTS
    Tasks, Scopes, DeskRecords, MaxInvestigations, MaxFailedSaves, MaxRestarts,
    Runs, RunAttempts, RunFailedSaves,
    Requests, LeaseTasks, RequestTasks, LeaseScope, MaxRuns, MaxFailures,
    r1, r2

VARIABLES
    machine,
    records, recordRows, investigating, started, failedSaves, deskRestarts,
    reports, reportRows, archaeologists, attempts, working, stored, reportFailedSaves,
    reportRestarts,
    runs, runRows, pending, flights, requests, startedRuns, committed, failures, runRestarts,
    jobs, fetches, table, demand, asks, buildRestarts, spent

investigationVars ==
    <<records, recordRows, investigating, started, failedSaves, deskRestarts>>

archaeologyVars ==
    <<reports, reportRows, archaeologists, attempts, working, stored, reportFailedSaves,
      reportRestarts>>

discoveryVars ==
    <<runs, runRows, pending, flights, requests, startedRuns, committed, failures, runRestarts>>

evidenceVars == <<jobs, fetches, table, demand, asks, buildRestarts, spent>>

Investigation ==
    INSTANCE InvestigationDesk WITH
        Retention <- DeskRecords, rows <- recordRows, active <- investigating,
        restarts <- deskRestarts

Archaeology ==
    INSTANCE MarketArchaeologistDesk WITH
        Retention <- DeskRecords, ConcurrencyLimit <- Slots, MaxAttempts <- RunAttempts,
        MaxFailedSaves <- RunFailedSaves,
        records <- reports, rows <- reportRows, active <- archaeologists,
        failedSaves <- reportFailedSaves, restarts <- reportRestarts

Discovery ==
    INSTANCE DiscoveryDesk WITH
        Retention <- DeskRecords, rows <- runRows, started <- startedRuns,
        restarts <- runRestarts

\* Two scopes: the first must stay current, the second is historical.  A build
\* fetches each on one of two routes or not at all.
Jobs == {1, 2}
Tables == {<<r1, r1>>, <<r2, r1>>, <<r1, None>>}

Evidence ==
    INSTANCE EvidenceAcquisition WITH
        Current <- {1}, Concurrency <- 1, PerTick <- 2, LeaseTime <- 1, RetryDelay <- 1,
        FreshFor <- 1, Retention <- 2, MaxRequirements <- 1, MaxDemand <- <<1, 2>>,
        MaxRequests <- 1, active <- fetches, requests <- asks, restarts <- buildRestarts

ASSUME InvestigationAssumption ==
    /\ Investigation!RetentionAssumption /\ Investigation!NoneAssumption
    /\ Investigation!BoundAssumption
ASSUME ArchaeologyAssumption ==
    /\ Archaeology!RetentionAssumption /\ Archaeology!ConcurrencyAssumption
    /\ Archaeology!AttemptsAssumption
ASSUME DiscoveryAssumption ==
    /\ Discovery!RetentionAssumption /\ Discovery!TasksAssumption
    /\ Discovery!ScopesAssumption /\ Discovery!NoneAssumption
ASSUME EvidenceAssumption == Evidence!AcquisitionAssumption

\* Two proposals over the same contracts, and one over contracts that are not
\* admitted to automatic review.
MCContract == <<"a", "a", "b">>

-----------------------------------------------------------------------------
(* Side by side. *)

EvidenceRests == table = [j \in Jobs |-> r1]

ResearchInit ==
    /\ machine \in {"reviews", "investigation", "archaeology", "discovery", "evidence"}
    /\ Init /\ Investigation!Init /\ Archaeology!Init /\ Discovery!Init /\ Evidence!Init
    /\ machine # "evidence" => EvidenceRests

ResearchNext ==
    /\ UNCHANGED machine
    /\ \/ /\ machine = "reviews" /\ Next
          /\ UNCHANGED <<investigationVars, archaeologyVars, discoveryVars, evidenceVars>>
       \/ /\ machine = "investigation" /\ Investigation!Next
          /\ UNCHANGED <<vars, archaeologyVars, discoveryVars, evidenceVars>>
       \/ /\ machine = "archaeology" /\ Archaeology!Next
          /\ UNCHANGED <<vars, investigationVars, discoveryVars, evidenceVars>>
       \/ /\ machine = "discovery" /\ Discovery!Next
          /\ UNCHANGED <<vars, investigationVars, archaeologyVars, evidenceVars>>
       \/ /\ machine = "evidence" /\ Evidence!Next
          /\ UNCHANGED <<vars, investigationVars, archaeologyVars, discoveryVars>>

ResearchSpec ==
    /\ ResearchInit
    /\ [][ResearchNext]_<<machine, vars, investigationVars, archaeologyVars, discoveryVars,
                          evidenceVars>>

-----------------------------------------------------------------------------
(* What the instances promise. *)

\* What the desk of investigations shows as completed is what a restart would
\* bring back.
MemoryIsDurable == Investigation!MemoryIsDurable

\* A report of the archaeologist that is shown as passed was committed.
ShownPassWasStored == Archaeology!ShownPassWasStored

\* The discovery ledger shows nothing that was not stored, and what both retain
\* for a task is the same.
LedgerAgreesWithTable == Discovery!LedgerAgreesWithTable

\* Between captures, new routes and retries of an operator a scope is fetched
\* no more often than its attempts allow.
FetchesAreBounded == Evidence!BudgetIsBounded
=============================================================================
