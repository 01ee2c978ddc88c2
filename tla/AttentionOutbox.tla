--------------------------- MODULE AttentionOutbox ---------------------------
(***************************************************************************)
(* The outbox of search attention messages                                 *)
(* (packages/control-plane/src/search-attention-outbox.ts) with its two    *)
(* tables (saveSearchAttentionMessage and saveSearchAttentionDelivery of   *)
(* operational-store.ts).  Every retained message is delivered in the      *)
(* application, and by a webhook when it occurred after the process        *)
(* started.  A tick runs alone up to its first request; while a request is *)
(* under way messages occur, the operator acknowledges and the process may *)
(* end.                                                                    *)
(*                                                                         *)
(* Messages are numbered in the order of occurredAt.  Time is a clock that *)
(* stops at MaxClock, when everything is due.  The table of deliveries and *)
(* the list in memory are one variable: both are changed by #saveDelivery  *)
(* alone, in the same way, and a save that throws changes neither.         *)
(***************************************************************************)
EXTENDS Naturals, Sequences, FiniteSets

CONSTANTS
    Messages,           \* bound: messages that occur
    LeaseWindow,        \* the last messages whose search leases are retained
    Retention,          \* retentionLimit
    PerTick,            \* maxDeliveriesPerTick
    RetryDelay,         \* RETRY_DELAYS_MS in units of the clock
    TieWinner,          \* the channel whose deliveryId is the greater
    MaxClock,           \* bound: the last time
    MaxFailedSaves,     \* bound: saves of a delivery the database refuses
    MaxRestarts,        \* bound: restarts of the process
    Acknowledges,       \* the operator acknowledges messages
    NoDelivery          \* there is no such delivery

Message == 1..Messages
Channel == {"IN_APP", "WEBHOOK_JSON"}
Status == {"PENDING", "RETRY_WAIT", "DELIVERED", "ACKNOWLEDGED", "DEAD_LETTER"}
MaxAttempts == 3

SearchAttentionDelivery ==
    [status : Status, attempts : Nat, next : Nat, updated : Nat]

MessagesAssumption == Messages \in Nat
RetentionAssumption == Retention \in Nat \ {0}
PerTickAssumption == PerTick \in Nat \ {0}
RetryAssumption == RetryDelay \in [1..MaxAttempts -> Nat]
ClockAssumption == MaxClock \in Nat
WindowAssumption == LeaseWindow \in Nat
NoDeliveryAssumption == NoDelivery \notin SearchAttentionDelivery

VARIABLES
    clock,          \* the time
    activation,     \* #activationMs: when the process started
    occurred,       \* messages that have occurred, the first ones
    occurredAt,     \* when each did
    messages,       \* #messages
    rows,           \* search_attention_messages
    deliveries,     \* #deliveries and search_attention_deliveries
    phase,          \* where the tick is
    due,            \* deliveries the tick still has to make, as it read them
    posts,          \* requests made for each message
    enqueued,       \* times a webhook delivery was created for each message
    unrecorded,     \* requests whose result no save recorded
    answered,       \* messages the webhook accepted
    failedSaves,    \* saves refused so far
    restarts        \* restarts so far

tables == <<messages, rows, deliveries>>
history == <<posts, enqueued, unrecorded, answered>>
vars == <<clock, activation, occurred, occurredAt, tables, phase, due, history,
          failedSaves, restarts>>

Init ==
    /\ clock = 0 /\ activation = 0
    /\ occurred = 0
    /\ occurredAt = [m \in Message |-> 0]
    /\ messages = {} /\ rows = {}
    /\ deliveries = [m \in Message |-> [c \in Channel |-> NoDelivery]]
    /\ phase = "IDLE" /\ due = <<>>
    /\ posts = [m \in Message |-> 0]
    /\ enqueued = [m \in Message |-> 0]
    /\ unrecorded = [m \in Message |-> 0]
    /\ answered = {}
    /\ failedSaves = 0 /\ restarts = 0

-----------------------------------------------------------------------------
(* The tables.                                                             *)

\* The retained messages: the newest ones.
Newest(set) == {m \in set : Cardinality({x \in set : x > m}) < Retention}

Exists(d, m, c) == d[m][c] # NoDelivery

\* ORDER BY updated_at DESC, delivery_id DESC
Precedes(d, m, c, n, e) ==
    \/ d[m][c].updated > d[n][e].updated
    \/ /\ d[m][c].updated = d[n][e].updated
       /\ m > n \/ (m = n /\ c = TieWinner /\ e # TieWinner)

\* Twice as many deliveries as messages are retained.
Survives(d, n, e) ==
    /\ Exists(d, n, e)
    /\ Cardinality({p \in Message \X Channel :
                      /\ Exists(d, p[1], p[2])
                      /\ Precedes(d, p[1], p[2], n, e)}) < 2 * Retention

Trimmed(d) ==
    [n \in Message |-> [e \in Channel |->
        IF Survives(d, n, e) THEN d[n][e] ELSE NoDelivery]]

With(m, c, delivery) == [deliveries EXCEPT ![m][c] = delivery]

\* A delivery that is older than all retained ones is deleted by the save that
\* inserts it, which then throws.
Refused(m, c, delivery) == ~Survives(With(m, c, delivery), m, c)

\* #saveDelivery
SaveDelivery(m, c, delivery) ==
    /\ ~Refused(m, c, delivery)
    /\ deliveries' = Trimmed(With(m, c, delivery))
    /\ messages' = Newest(messages)
    /\ UNCHANGED <<rows, failedSaves>>

DeliverySaveFails(m, c, delivery) ==
    \/ Refused(m, c, delivery) /\ UNCHANGED failedSaves
    \/ failedSaves < MaxFailedSaves /\ failedSaves' = failedSaves + 1

Later(delay) == IF clock + delay > MaxClock THEN MaxClock ELSE clock + delay

InAppDelivery(m) ==
    [status |-> "DELIVERED", attempts |-> 0, next |-> occurredAt[m],
     updated |-> occurredAt[m]]

WebhookDelivery(m) ==
    [status |-> "PENDING", attempts |-> 0, next |-> occurredAt[m],
     updated |-> occurredAt[m]]

-----------------------------------------------------------------------------
(* The first part of a tick: messages of the retained leases, and their    *)
(* deliveries.                                                             *)

TickBegins ==
    /\ phase = "IDLE"
    /\ phase' = "COLLECT"
    /\ UNCHANGED <<clock, activation, occurred, occurredAt, tables, due, history,
                   failedSaves, restarts>>

\* Deviation: what occurred before the process started is not shown either.
MissingSinceActivation(m) ==
    /\ m <= occurred /\ m + LeaseWindow > occurred /\ m \notin messages
    /\ occurredAt[m] > activation

\* #materializeDigests, #materializeImmediate: the outbox has no message of this
\* identity.
Missing(m) == m <= occurred /\ m + LeaseWindow > occurred /\ m \notin messages

\* Deviation: the message is kept in memory whether or not it is stored.
RetainsAnyway(m) == messages' = Newest(messages \cup {m}) /\ rows' = rows

Retains(m) ==
    /\ m \in Newest(rows \cup {m})
    /\ rows' = Newest(rows \cup {m})
    /\ messages' = Newest(messages \cup {m})

\* #saveMessage with #ensureInApp.  When the in-app delivery cannot be saved,
\* the message stays, the list is not trimmed and the tick is rejected.
SaveMessage(m) ==
    /\ phase = "COLLECT"
    /\ Missing(m)
    /\ \/ /\ Retains(m)
          /\ IF Exists(deliveries, m, "IN_APP")
             THEN UNCHANGED deliveries
             ELSE /\ ~Refused(m, "IN_APP", InAppDelivery(m))
                  /\ deliveries' = Trimmed(With(m, "IN_APP", InAppDelivery(m)))
          /\ UNCHANGED <<phase, failedSaves>>
       \/ /\ m \in Newest(rows \cup {m})
          /\ ~Exists(deliveries, m, "IN_APP")
          /\ DeliverySaveFails(m, "IN_APP", InAppDelivery(m))
          /\ rows' = Newest(rows \cup {m})
          /\ messages' = messages \cup {m}
          /\ phase' = "IDLE"
          /\ UNCHANGED deliveries
       \/ /\ m \notin Newest(rows \cup {m})
          /\ phase' = "IDLE"
          /\ UNCHANGED <<tables, failedSaves>>
    /\ UNCHANGED <<clock, activation, occurred, occurredAt, due, history, restarts>>

\* #enqueueWebhookDeliveries
ToEnqueue(m) ==
    /\ m \in messages
    /\ occurredAt[m] > activation
    /\ ~Exists(deliveries, m, "WEBHOOK_JSON")

EnqueueWebhook(m) ==
    /\ phase = "COLLECT"
    /\ \A n \in Message : ~Missing(n)
    /\ ToEnqueue(m)
    /\ \/ /\ SaveDelivery(m, "WEBHOOK_JSON", WebhookDelivery(m))
          /\ enqueued' = [enqueued EXCEPT ![m] = @ + 1]
          /\ UNCHANGED phase
       \/ /\ DeliverySaveFails(m, "WEBHOOK_JSON", WebhookDelivery(m))
          /\ phase' = "IDLE"
          /\ UNCHANGED <<tables, enqueued>>
    /\ UNCHANGED <<clock, activation, occurred, occurredAt, due, posts, unrecorded,
                   answered, restarts>>

-----------------------------------------------------------------------------
(* The second part: #drainWebhook and #deliver.                            *)

\* Deviation: a delivery that waits for its retry is never picked up.
PendingIsDue(m) ==
    /\ Exists(deliveries, m, "WEBHOOK_JSON")
    /\ deliveries[m]["WEBHOOK_JSON"].status = "PENDING"
    /\ deliveries[m]["WEBHOOK_JSON"].next <= clock

IsDue(m) ==
    /\ Exists(deliveries, m, "WEBHOOK_JSON")
    /\ deliveries[m]["WEBHOOK_JSON"].status \in {"PENDING", "RETRY_WAIT"}
    /\ deliveries[m]["WEBHOOK_JSON"].next <= clock

Webhook(m) == deliveries[m]["WEBHOOK_JSON"]

DueBefore(m, n) ==
    Webhook(m).next < Webhook(n).next \/ (Webhook(m).next = Webhook(n).next /\ m < n)

\* The due deliveries by the time of the next attempt.
DueInOrder(s) ==
    LET read == {s[i].message : i \in DOMAIN s}
    IN  /\ \A i \in DOMAIN s : /\ IsDue(s[i].message)
                              /\ s[i].attempts = Webhook(s[i].message).attempts
        /\ \A i, j \in DOMAIN s : i < j => DueBefore(s[i].message, s[j].message)
        /\ \A m \in {x \in Message : IsDue(x)} \ read :
             Len(s) = PerTick /\ \A n \in read : DueBefore(n, m)

Queue == UNION {[1..n -> [message : Message, attempts : 0..MaxAttempts]] : n \in 0..PerTick}

Drain ==
    /\ phase = "COLLECT"
    /\ \A m \in Message : ~Missing(m) /\ ~ToEnqueue(m)
    /\ \E s \in Queue : DueInOrder(s) /\ due' = s
    /\ phase' = IF due' = <<>> THEN "IDLE" ELSE "DELIVER"
    /\ UNCHANGED <<clock, activation, occurred, occurredAt, tables, history,
                   failedSaves, restarts>>

\* #deliver: the message of the next delivery is looked up and sent.  A message
\* that is no longer retained rejects the tick.
Post ==
    /\ phase = "DELIVER"
    /\ LET m == Head(due).message
       IN  IF m \in messages
           THEN /\ phase' = "ANSWER"
                /\ posts' = [posts EXCEPT ![m] = @ + 1]
                /\ UNCHANGED due
           ELSE /\ phase' = "IDLE" /\ due' = <<>>
                /\ UNCHANGED posts
    /\ UNCHANGED <<clock, activation, occurred, occurredAt, tables, enqueued,
                   unrecorded, answered, failedSaves, restarts>>

Succeeded(attempts) ==
    [status |-> "DELIVERED", attempts |-> attempts, next |-> clock, updated |-> clock]

\* Deviation: the third attempt is followed by another one.
RetriedOnceMore(attempts) ==
    [status |-> IF attempts > MaxAttempts THEN "DEAD_LETTER" ELSE "RETRY_WAIT",
     attempts |-> attempts, next |-> clock, updated |-> clock]

Failed(attempts) ==
    [status |-> IF attempts >= MaxAttempts THEN "DEAD_LETTER" ELSE "RETRY_WAIT",
     attempts |-> attempts,
     next |-> IF attempts < MaxAttempts THEN Later(RetryDelay[attempts]) ELSE clock,
     updated |-> clock]

NextDelivery ==
    /\ due' = Tail(due)
    /\ phase' = IF Tail(due) = <<>> THEN "IDLE" ELSE "DELIVER"

\* Deviation: any answer of the webhook counts, whatever its status.
AnyAnswerIsFine(m, attempts) == SaveDelivery(m, "WEBHOOK_JSON", Succeeded(attempts))

\* What a failed request leaves.
RecordFailure(m, attempts) == SaveDelivery(m, "WEBHOOK_JSON", Failed(attempts))

\* The request is answered.  The save of a successful one may throw; the handler
\* of failures then records the attempt as failed.
Answer(accepted) ==
    LET m == Head(due).message
        attempts == Head(due).attempts + 1
    IN  /\ phase = "ANSWER"
        /\ answered' = IF accepted THEN answered \cup {m} ELSE answered
        /\ \/ /\ IF accepted
                 THEN SaveDelivery(m, "WEBHOOK_JSON", Succeeded(attempts))
                 ELSE RecordFailure(m, attempts)
              /\ NextDelivery
              /\ UNCHANGED unrecorded
           \/ /\ accepted
              /\ failedSaves < MaxFailedSaves /\ failedSaves' = failedSaves + 1
              /\ deliveries' = Trimmed(With(m, "WEBHOOK_JSON", Failed(attempts)))
              /\ ~Refused(m, "WEBHOOK_JSON", Failed(attempts))
              /\ messages' = Newest(messages)
              /\ NextDelivery
              /\ UNCHANGED <<rows, unrecorded>>
           \/ /\ \/ Refused(m, "WEBHOOK_JSON", Failed(attempts)) /\ UNCHANGED failedSaves
                 \/ LET refusals == IF accepted THEN 2 ELSE 1
                    IN  /\ failedSaves + refusals <= MaxFailedSaves
                        /\ failedSaves' = failedSaves + refusals
              /\ unrecorded' = [unrecorded EXCEPT ![m] = @ + 1]
              /\ phase' = "IDLE" /\ due' = <<>>
              /\ UNCHANGED tables
        /\ UNCHANGED <<clock, activation, occurred, occurredAt, posts, enqueued, restarts>>

-----------------------------------------------------------------------------
(* Others.                                                                 *)

Waiting == phase \in {"IDLE", "ANSWER"}

\* A search lease ends in a way that warrants a message.
Occur ==
    /\ Waiting
    /\ occurred < Messages
    /\ occurred' = occurred + 1
    /\ occurredAt' = [occurredAt EXCEPT ![occurred + 1] = clock]
    /\ UNCHANGED <<clock, activation, tables, phase, due, history, failedSaves, restarts>>

\* acknowledgeInApp: any in-app delivery in memory, its message retained or not.
AcknowledgeInApp(m) ==
    /\ Waiting /\ Acknowledges
    /\ Exists(deliveries, m, "IN_APP")
    /\ deliveries[m]["IN_APP"].status = "DELIVERED"
    /\ SaveDelivery(m, "IN_APP", [deliveries[m]["IN_APP"] EXCEPT
                                    !.status = "ACKNOWLEDGED", !.updated = clock])
    /\ UNCHANGED <<clock, activation, occurred, occurredAt, phase, due, history, restarts>>

TimePasses ==
    /\ Waiting
    /\ clock < MaxClock
    /\ clock' = clock + 1
    /\ UNCHANGED <<activation, occurred, occurredAt, tables, phase, due, history,
                   failedSaves, restarts>>

\* The process ends and starts again.  The constructor saves the in-app delivery
\* of every stored message that has none; it throws when one is refused.
WithInApp ==
    [m \in Message |-> [c \in Channel |->
        IF m \in rows /\ c = "IN_APP" /\ ~Exists(deliveries, m, c)
        THEN InAppDelivery(m) ELSE deliveries[m][c]]]

Restart ==
    /\ restarts < MaxRestarts /\ phase # "DOWN"
    /\ restarts' = restarts + 1
    /\ activation' = clock
    /\ messages' = rows
    /\ deliveries' = Trimmed(WithInApp)
    /\ phase' = IF \A m \in rows : Survives(WithInApp, m, "IN_APP") THEN "IDLE" ELSE "DOWN"
    /\ due' = <<>>
    /\ unrecorded' = IF phase = "ANSWER"
                     THEN [unrecorded EXCEPT ![Head(due).message] = @ + 1]
                     ELSE unrecorded
    /\ UNCHANGED <<clock, occurred, occurredAt, rows, posts, enqueued, answered,
                   failedSaves>>

-----------------------------------------------------------------------------
Next ==
    \/ TickBegins \/ Drain \/ Post \/ Occur \/ TimePasses \/ Restart
    \/ \E accepted \in BOOLEAN : Answer(accepted)
    \/ \E m \in Message : SaveMessage(m) \/ EnqueueWebhook(m) \/ AcknowledgeInApp(m)

Spec == Init /\ [][Next]_vars

\* The timer ticks, a tick runs on, a request is answered or times out, and time
\* passes.
Fairness ==
    /\ WF_vars(TickBegins) /\ WF_vars(Drain) /\ WF_vars(Post) /\ SF_vars(TimePasses)
    /\ WF_vars(\E accepted \in BOOLEAN : Answer(accepted))
    /\ WF_vars(\E m \in Message : SaveMessage(m) \/ EnqueueWebhook(m))

FairSpec == Spec /\ Fairness

-----------------------------------------------------------------------------
(* Properties.                                                             *)

DeliveryTypeOK(delivery) ==
    /\ delivery \in SearchAttentionDelivery
    /\ delivery.attempts <= MaxAttempts

TypeOK ==
    /\ clock \in 0..MaxClock /\ activation \in 0..MaxClock
    /\ occurred \in 0..Messages
    /\ occurredAt \in [Message -> 0..MaxClock]
    /\ messages \subseteq Message /\ rows \subseteq Message
    /\ DOMAIN deliveries = Message
    /\ \A m \in Message : \A c \in Channel :
         Exists(deliveries, m, c) => DeliveryTypeOK(deliveries[m][c])
    /\ phase \in {"IDLE", "COLLECT", "DELIVER", "ANSWER", "DOWN"}
    /\ due \in Seq([message : Message, attempts : 0..MaxAttempts])
    /\ phase \in {"DELIVER", "ANSWER"} <=> due # <<>>
    /\ posts \in [Message -> Nat] /\ enqueued \in [Message -> Nat]
    /\ unrecorded \in [Message -> Nat]
    /\ answered \subseteq Message
    /\ failedSaves \in 0..MaxFailedSaves /\ restarts \in 0..MaxRestarts

\* What memory retains of the messages is what the table retains, although a
\* refused delivery may leave one message too many in memory.
MemoryMatchesTable == Newest(messages) = rows

\* The retries of a message are limited whatever is lost, trimmed or restarted:
\* each webhook delivery created for it makes three requests at most, except
\* for those whose result could not be recorded.
RequestsAreBounded ==
    \A m \in Message :
      posts[m] <= MaxAttempts * enqueued[m] + unrecorded[m]
                  + (IF phase = "ANSWER" /\ Head(due).message = m THEN 1 ELSE 0)

\* A delivery that is recorded as delivered was accepted by the webhook.
DeliveredWasAccepted ==
    \A m \in Message :
      Exists(deliveries, m, "WEBHOOK_JSON")
        /\ deliveries[m]["WEBHOOK_JSON"].status = "DELIVERED" => m \in answered

Unsettled(m) ==
    /\ Exists(deliveries, m, "WEBHOOK_JSON")
    /\ deliveries[m]["WEBHOOK_JSON"].status \in {"PENDING", "RETRY_WAIT"}

\* Every webhook delivery ends as delivered, as a dead letter, or trimmed.
DeliveriesSettle == \A m \in Message : Unsettled(m) ~> ~Unsettled(m)

\* A message that warrants attention reaches the application, unless the save of
\* a delivery was refused or the process does not start any more.
AttentionIsShown ==
    \A m \in Message :
      (m <= occurred) ~>
        (Exists(deliveries, m, "IN_APP") \/ failedSaves > 0 \/ phase = "DOWN")

\* The process can always be started again.
RestartSucceeds == phase # "DOWN"

=============================================================================
