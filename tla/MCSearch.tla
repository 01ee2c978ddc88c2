------------------------------ MODULE MCSearch ------------------------------
(***************************************************************************)
(* What a search runs on and reports to, for TLC: the scheduler of search  *)
(* issues, the desk that observes catalogs and the outbox of messages.     *)
(*                                                                         *)
(* They are explored side by side: machine says which of them moves in a   *)
(* behaviour, and the others rest in their initial state.  The scheduler   *)
(* keeps its names; the variables of the other two have a prefix where     *)
(* they would meet them.                                                   *)
(***************************************************************************)
EXTENDS SearchIssueScheduler

CONSTANTS
    Source, CatalogRetention, MaxAge, Interval, CatalogMaxClock,
    Messages, LeaseWindow, OutboxRetention, PerTick, RetryDelay, TieWinner, OutboxMaxClock,
    MaxFailedSaves, Acknowledges, NoDelivery

VARIABLES
    machine,
    catalogClock, latest, diagnostic, pending, catalogRefreshing, startedAt, nextRefreshAt,
    lastResult, catalogRows, evidence, catalogRestarts,
    outboxClock, activation, occurred, occurredAt, messages, messageRows, deliveries,
    outboxPhase, outboxDue, posts, enqueued, unrecorded, answered, failedSaves, outboxRestarts

catalogVars ==
    <<catalogClock, latest, diagnostic, pending, catalogRefreshing, startedAt, nextRefreshAt,
      lastResult, catalogRows, evidence, catalogRestarts>>

outboxVars ==
    <<outboxClock, activation, occurred, occurredAt, messages, messageRows, deliveries,
      outboxPhase, outboxDue, posts, enqueued, unrecorded, answered, failedSaves,
      outboxRestarts>>

Catalog ==
    INSTANCE CatalogObservation WITH
        Retention <- CatalogRetention, MaxClock <- CatalogMaxClock,
        clock <- catalogClock, refreshing <- catalogRefreshing, rows <- catalogRows,
        restarts <- catalogRestarts

Outbox ==
    INSTANCE AttentionOutbox WITH
        Retention <- OutboxRetention, MaxClock <- OutboxMaxClock,
        clock <- outboxClock, rows <- messageRows, phase <- outboxPhase, due <- outboxDue,
        restarts <- outboxRestarts

ASSUME CatalogAssumption ==
    Catalog!RetentionAssumption /\ Catalog!SourceAssumption /\ Catalog!TimeAssumption
ASSUME OutboxAssumption ==
    /\ Outbox!MessagesAssumption /\ Outbox!RetentionAssumption /\ Outbox!PerTickAssumption
    /\ Outbox!RetryAssumption /\ Outbox!ClockAssumption /\ Outbox!WindowAssumption
    /\ Outbox!NoDeliveryAssumption

MCFamily == <<"a">>
MCPriority == <<3>>
MCRetryDelay == <<1, 2, 2>>

-----------------------------------------------------------------------------
(* Side by side. *)

SearchInit ==
    /\ machine \in {"issues", "catalog", "outbox"}
    /\ Init /\ Catalog!Init /\ Outbox!Init

SearchNext ==
    /\ UNCHANGED machine
    /\ \/ machine = "issues" /\ Next /\ UNCHANGED <<catalogVars, outboxVars>>
       \/ machine = "catalog" /\ Catalog!Next /\ UNCHANGED <<vars, outboxVars>>
       \/ machine = "outbox" /\ Outbox!Next /\ UNCHANGED <<vars, catalogVars>>

SearchSpec == SearchInit /\ [][SearchNext]_<<machine, vars, catalogVars, outboxVars>>

-----------------------------------------------------------------------------
(* What the instances promise. *)

\* Evidence keeps its raw observation, however many newer ones arrive.
EvidenceKeepsItsSource == Catalog!EvidenceKeepsItsSource

\* The retries of a message are limited whatever is lost, trimmed or restarted.
RequestsAreBounded == Outbox!RequestsAreBounded
=============================================================================
