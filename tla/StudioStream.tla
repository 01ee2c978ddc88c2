---------------------------- MODULE StudioStream ----------------------------
(***************************************************************************)
(* How a change of the control plane's state reaches the browser: the live *)
(* projection of server.ts, shared per revision, kept as a snapshot for    *)
(* the next start, and announced by small invalidation events; and the     *)
(* client of studio-projection.tsx, which fetches the projection on every  *)
(* event, one request at a time, with the ETag of the last answer.         *)
(*                                                                         *)
(* A projection is the version of the state it was derived from: two are   *)
(* equal exactly when their view hashes, hence their ETags, are.           *)
(*                                                                         *)
(* The server is one thread.  Once it is ready a build is a chain of       *)
(* promise callbacks with no input or timer in it, so nothing that comes   *)
(* from the network or from a timer runs inside one (Idle); other callbacks *)
(* (Mutate, Broadcast) may.                                                *)
(***************************************************************************)
EXTENDS Integers, FiniteSets

CONSTANTS
    Clients,      \* browser pages
    None,
    MaxState,     \* bound: changes of the state
    MaxRestarts,  \* bound: crashes of the server, each followed by a start
    MaxLosses,    \* bound: connections of a page lost as a whole
    MaxFailures,  \* bound: builds that throw and requests that fail alone
    TornBodies    \* whether a connection may end inside a response body

Contents == 0..MaxState
Snapshots == [revision : Nat, content : Contents]
Builds == [revision : Nat, content : Contents \union {None}, notify : BOOLEAN]
Answers == [content : Contents, live : BOOLEAN, same : BOOLEAN]
Requests == [phase : {"idle", "sent", "waiting", "answered", "body", "refused"},
             answer : Answers \union {None}, floor : Contents]

ASSUME StreamAssumption ==
    MaxState \in Nat /\ None \notin Contents \union Snapshots \union Builds \union Answers

VARIABLES
    \* durable
    state, saved,
    \* the server process
    ready, pending, revision, announced, cache, build, fresh, recovered,
    armed, flushes, subscribers,
    \* the pages
    link, told, queued, request, etag, shown, status,
    torn,         \* history: a body was lost after its ETag was taken, none came since
    \* what was spent of the bounds
    restarts, losses, failures

durable == <<state, saved>>
server == <<ready, pending, revision, announced, cache, build, fresh,
            recovered, armed, flushes, subscribers>>
pages == <<link, told, queued, request, etag, shown, status, torn>>
spent == <<restarts, losses, failures>>
vars == <<durable, server, pages, spent>>

(***************************************************************************)
(* A request in flight: where it is, what it was answered, and the state   *)
(* whose change had been announced when the server received it ("floor"    *)
(* is kept for the properties only).                                       *)
(***************************************************************************)
NoRequest == [phase |-> "idle", answer |-> None, floor |-> 0]

InFlight(c) == request[c].phase # "idle"

Init ==
    /\ state = 0 /\ saved = None
    /\ ready = FALSE /\ pending = 0 /\ revision = 0 /\ announced = 0
    /\ cache = None /\ build = None /\ fresh = FALSE /\ recovered = None
    /\ armed = FALSE /\ flushes = 0 /\ subscribers = {}
    /\ link = [c \in Clients |-> FALSE]
    /\ told = [c \in Clients |-> 0]
    /\ queued = [c \in Clients |-> TRUE]
    /\ request = [c \in Clients |-> NoRequest]
    /\ etag = [c \in Clients |-> None]
    /\ shown = [c \in Clients |-> None]
    /\ torn = [c \in Clients |-> FALSE]
    /\ status = [c \in Clients |-> "CONNECTING"]
    /\ restarts = 0 /\ losses = 0 /\ failures = 0

-----------------------------------------------------------------------------
(* The server: changes and their announcement. *)

Idle == build = None \/ ~ready

\* Some desk or scheduler changes what a projection shows, and calls
\* broadcastProjection, which runs on in a later callback.
Mutate ==
    /\ state < MaxState
    /\ state' = state + 1
    /\ pending' = pending + 1
    /\ UNCHANGED <<saved, ready, revision, announced, cache, build, fresh,
                   recovered, armed, flushes, subscribers, pages, spent>>

Broadcast ==
    /\ ready /\ pending > 0
    /\ pending' = pending - 1
    /\ revision' = revision + 1
    /\ announced' = state
    /\ IF subscribers = {} \/ armed
       THEN UNCHANGED <<armed, flushes>>
       ELSE armed' = TRUE /\ flushes' = flushes + 1
    /\ UNCHANGED <<durable, ready, cache, build, fresh, recovered,
                   subscribers, pages, spent>>

\* An event to every page that is subscribed.
Notified == [c \in Clients |-> IF c \in subscribers THEN told[c] + 1 ELSE told[c]]

\* The 25 ms timer.
Flush ==
    /\ Idle /\ flushes > 0
    /\ flushes' = flushes - 1
    /\ armed' = FALSE
    /\ told' = Notified
    /\ UNCHANGED <<durable, ready, pending, revision, announced, cache, build,
                   fresh, recovered, subscribers, link, queued, request, etag,
                   shown, torn, status, spent>>

-----------------------------------------------------------------------------
(* The server: builds of the projection. *)

\* liveProjectionSnapshot without a hit: the build under way, or a new one
\* for the current revision.
Building(notify) ==
    IF build # None THEN build
    ELSE [revision |-> revision, content |-> None, notify |-> notify]

\* startLiveProjectionRevalidation
Revalidation == IF fresh THEN build ELSE Building(recovered # None)

\* The operational state is recovered.
Ready ==
    /\ ~ready
    /\ ready' = TRUE
    /\ build' = Revalidation
    /\ UNCHANGED <<durable, pending, revision, announced, cache, fresh,
                   recovered, armed, flushes, subscribers, pages, spent>>

\* projection() reads every desk without giving up the thread.
BuildReads ==
    /\ ready /\ build # None /\ build.content = None
    /\ build' = [build EXCEPT !.content = state]
    /\ UNCHANGED <<durable, ready, pending, revision, announced, cache, fresh,
                   recovered, armed, flushes, subscribers, pages, spent>>

\* An answer: 304 when the page's ETag is that of the projection.
Answer(c, content, live) ==
    [content |-> content, live |-> live, same |-> etag[c] = content]

\* The requests that waited for the build, with what they are given.
Waiters == {c \in Clients : request[c].phase = "waiting"}
Served(c) ==
    [request[c] EXCEPT !.phase = "answered", !.answer = Answer(c, build.content, TRUE)]

\* What is cached after the build: its snapshot, unless a change was
\* announced since it began.
Kept ==
    IF build.revision = revision
    THEN [revision |-> build.revision, content |-> build.content] ELSE cache

BuildFinishes ==
    /\ build # None /\ build.content # None
    /\ cache' = Kept
    /\ fresh' = (fresh \/ build.revision = revision)
    \* saving may fail, and the failure is ignored
    /\ saved' \in IF build.revision = revision
                  THEN {saved, build.content} ELSE {saved}
    /\ IF build.notify
       THEN told' = Notified /\ armed' = FALSE
       ELSE UNCHANGED <<told, armed>>
    /\ request' = [c \in Clients |->
                     IF c \in Waiters THEN Served(c) ELSE request[c]]
    /\ build' = None
    /\ UNCHANGED <<state, ready, pending, revision, announced, recovered,
                   flushes, subscribers, link, queued, etag, shown, torn, status,
                   spent>>

\* A desk throws while the projection is built: every waiter gets a 500.
BuildFails ==
    /\ ready /\ build # None
    /\ failures < MaxFailures
    /\ failures' = failures + 1
    /\ build' = None
    /\ request' = [c \in Clients |->
                     IF c \in Waiters
                     THEN [request[c] EXCEPT !.phase = "refused"]
                     ELSE request[c]]
    /\ UNCHANGED <<durable, ready, pending, revision, announced, cache, fresh,
                   recovered, armed, flushes, subscribers, link, told, queued,
                   etag, shown, torn, status, restarts, losses>>

-----------------------------------------------------------------------------
(* The server: the routes. *)

\* Deviation: whatever was cached is served.
HitEver == cache # None

\* The cached snapshot is of the current revision.
Hit == cache # None /\ cache.revision = revision

\* Deviation: whether a snapshot was recovered is not asked.
NothingBuilt == ~fresh

\* This process has built nothing to serve yet, and the last one left a
\* snapshot.
OnlyLastKnown == ~fresh /\ recovered # None

\* Deviation: the last start's snapshot is served as if it were live.
LastKnownAsLive(c) == Answer(c, recovered, TRUE)

\* What a request is given then: the snapshot, as last known.
LastKnown(c) == Answer(c, recovered, FALSE)

\* GET /api/v1/projection
Arrive(c) ==
    /\ Idle /\ request[c].phase = "sent"
    /\ IF OnlyLastKnown
       THEN /\ build' = Revalidation
            /\ request' = [request EXCEPT
                 ![c] = [phase |-> "answered", answer |-> LastKnown(c),
                         floor |-> announced]]
       ELSE IF Hit
       THEN /\ request' = [request EXCEPT
                 ![c] = [phase |-> "answered",
                         answer |-> Answer(c, cache.content, TRUE),
                         floor |-> announced]]
            /\ UNCHANGED build
       ELSE /\ build' = Building(FALSE)
            /\ request' = [request EXCEPT
                 ![c] = [phase |-> "waiting", answer |-> None,
                         floor |-> announced]]
    /\ UNCHANGED <<durable, ready, pending, revision, announced, cache, fresh,
                   recovered, armed, flushes, subscribers, link, told, queued,
                   etag, shown, torn, status, spent>>

\* GET /api/v1/events: an event at once, then every flush; the page also
\* refreshes because the stream opened.
Open(c) ==
    /\ Idle /\ ~link[c]
    /\ link' = [link EXCEPT ![c] = TRUE]
    /\ subscribers' = subscribers \union {c}
    /\ told' = [told EXCEPT ![c] = @ + 1]
    /\ queued' = [queued EXCEPT ![c] = TRUE]
    /\ UNCHANGED <<durable, ready, pending, revision, announced, cache, build,
                   fresh, recovered, armed, flushes, request, etag, shown, torn,
                   status, spent>>

-----------------------------------------------------------------------------
(* The page. *)

\* Deviation: an event that comes while a request is out is taken as served
\* by it.
QueuedIfQuiet(c) == queued[c] \/ ~InFlight(c)

\* refresh() when an event asks for it.
QueuedBy(c) == TRUE

\* An invalidation event is read.
Receive(c) ==
    /\ told[c] > 0
    /\ told' = [told EXCEPT ![c] = @ - 1]
    /\ queued' = [queued EXCEPT ![c] = QueuedBy(c)]
    /\ UNCHANGED <<durable, server, link, request, etag, shown, torn, status, spent>>

\* A pass of the loop of refresh().
Send(c) ==
    /\ queued[c] /\ ~InFlight(c)
    /\ queued' = [queued EXCEPT ![c] = FALSE]
    /\ request' = [request EXCEPT ![c] = [NoRequest EXCEPT !.phase = "sent"]]
    /\ status' = [status EXCEPT ![c] =
                    IF @ = "STALE_REVALIDATING" THEN @ ELSE "REFRESHING"]
    /\ UNCHANGED <<durable, server, link, told, etag, shown, torn, spent>>

Freshness(answer) == IF answer.live THEN "LIVE" ELSE "STALE_REVALIDATING"

\* The headers are read, and the ETag is taken before the body is; a 304 has
\* no body.
Headers(c) ==
    /\ request[c].phase = "answered"
    /\ LET answer == request[c].answer IN
       /\ etag' = [etag EXCEPT ![c] = answer.content]
       /\ IF answer.same
          THEN /\ status' = [status EXCEPT ![c] = Freshness(answer)]
               /\ request' = [request EXCEPT ![c] = NoRequest]
          ELSE /\ request' = [request EXCEPT ![c].phase = "body"]
               /\ UNCHANGED status
    /\ UNCHANGED <<durable, server, link, told, queued, shown, torn, spent>>

\* The body is read and parsed.
Body(c) ==
    /\ request[c].phase = "body"
    /\ shown' = [shown EXCEPT ![c] = request[c].answer.content]
    /\ torn' = [torn EXCEPT ![c] = FALSE]
    /\ status' = [status EXCEPT ![c] = Freshness(request[c].answer)]
    /\ request' = [request EXCEPT ![c] = NoRequest]
    /\ UNCHANGED <<durable, server, link, told, queued, etag, spent>>

\* A 500: the last view stays, and nothing is asked for again until an event
\* or a stream that opens.
Refused(c) ==
    /\ request[c].phase = "refused"
    /\ request' = [request EXCEPT ![c] = NoRequest]
    /\ status' = [status EXCEPT ![c] = "RECONNECTING"]
    /\ UNCHANGED <<durable, server, link, told, queued, etag, shown, torn, spent>>

-----------------------------------------------------------------------------
(* Faults. *)

\* What is lost of a request with its connection: all of it, but a body that
\* was already received whole.
Losable(c) ==
    /\ InFlight(c)
    /\ request[c].phase = "body" => TornBodies

\* The connection ends inside a body whose ETag the page has taken.
TornAfter(c) == torn[c] \/ (Losable(c) /\ request[c].phase = "body")

\* A request fails and the event stream does not.
RequestFails(c) ==
    /\ Losable(c)
    /\ failures < MaxFailures
    /\ failures' = failures + 1
    /\ request' = [request EXCEPT ![c] = NoRequest]
    /\ torn' = [torn EXCEPT ![c] = TornAfter(c)]
    /\ status' = [status EXCEPT ![c] = "RECONNECTING"]
    /\ UNCHANGED <<durable, server, link, told, queued, etag, shown,
                   restarts, losses>>

\* The page loses its event stream, and with it the request that is out.
Lose(c) ==
    /\ link[c]
    /\ losses < MaxLosses
    /\ losses' = losses + 1
    /\ link' = [link EXCEPT ![c] = FALSE]
    /\ told' = [told EXCEPT ![c] = 0]
    /\ subscribers' = subscribers \ {c}
    /\ status' = [status EXCEPT ![c] = "RECONNECTING"]
    /\ request' = [request EXCEPT ![c] = IF Losable(c) THEN NoRequest ELSE @]
    /\ torn' = [torn EXCEPT ![c] = TornAfter(c)]
    /\ UNCHANGED <<durable, ready, pending, revision, announced, cache, build,
                   fresh, recovered, armed, flushes, queued, etag, shown,
                   restarts, failures>>

\* The server dies and starts again with the snapshot it had saved.  A page
\* that was neither connected nor waiting notices nothing.
Restart ==
    /\ restarts < MaxRestarts
    /\ restarts' = restarts + 1
    /\ ready' = FALSE /\ pending' = 0 /\ revision' = 0 /\ announced' = 0
    /\ cache' = None /\ build' = None /\ fresh' = FALSE
    /\ recovered' = saved
    /\ armed' = FALSE /\ flushes' = 0 /\ subscribers' = {}
    /\ link' = [c \in Clients |-> FALSE]
    /\ told' = [c \in Clients |-> 0]
    /\ request' = [c \in Clients |->
                     IF Losable(c) THEN NoRequest ELSE request[c]]
    /\ torn' = [c \in Clients |-> TornAfter(c)]
    /\ status' = [c \in Clients |->
                    IF link[c] \/ Losable(c) THEN "RECONNECTING" ELSE status[c]]
    /\ UNCHANGED <<durable, queued, etag, shown, losses, failures>>

-----------------------------------------------------------------------------
Page(c) ==
    \/ Send(c) \/ Arrive(c) \/ Headers(c) \/ Body(c) \/ Refused(c)
    \/ Receive(c) \/ Open(c)

Next ==
    \/ Mutate \/ Broadcast \/ Flush
    \/ Ready \/ BuildReads \/ BuildFinishes \/ BuildFails
    \/ \E c \in Clients : Page(c) \/ RequestFails(c) \/ Lose(c)
    \/ Restart

Spec == Init /\ [][Next]_vars

(***************************************************************************)
(* The server's callbacks and timers run, requests and events arrive, and  *)
(* an EventSource opens again by itself.                                   *)
(***************************************************************************)
Fairness ==
    /\ WF_vars(Broadcast) /\ WF_vars(Flush) /\ WF_vars(Ready)
    /\ WF_vars(BuildReads) /\ WF_vars(BuildFinishes)
    /\ \A c \in Clients :
         /\ WF_vars(Send(c)) /\ WF_vars(Arrive(c)) /\ WF_vars(Headers(c))
         /\ WF_vars(Body(c)) /\ WF_vars(Refused(c)) /\ WF_vars(Receive(c))
         /\ WF_vars(Open(c))

FairSpec == Spec /\ Fairness

-----------------------------------------------------------------------------
\* What the disk and the server process hold.
ServerTypes ==
    /\ state \in Contents /\ announced \in Contents
    /\ saved \in Contents \union {None} /\ recovered \in Contents \union {None}
    /\ pending \in Nat /\ revision \in Nat /\ flushes \in Nat
    /\ cache \in Snapshots \union {None}
    /\ build \in Builds \union {None}
    /\ subscribers \subseteq Clients

Flags ==
    /\ ready \in BOOLEAN /\ fresh \in BOOLEAN /\ armed \in BOOLEAN
    /\ torn \in [Clients -> BOOLEAN]

\* A request has an answer from the time it is answered until it is read.
RequestTypes ==
    /\ request \in [Clients -> Requests]
    /\ \A c \in Clients : (request[c].answer # None) <=>
                            (request[c].phase \in {"answered", "body"})

PageTypes ==
    /\ link \in [Clients -> BOOLEAN] /\ told \in [Clients -> Nat]
    /\ queued \in [Clients -> BOOLEAN]
    /\ etag \in [Clients -> Contents \union {None}]
    /\ shown \in [Clients -> Contents \union {None}]
    /\ status \in [Clients -> {"CONNECTING", "REFRESHING", "LIVE",
                               "STALE_REVALIDATING", "RECONNECTING"}]

\* Every variable has the values the code gives it.
TypeOK == ServerTypes /\ Flags /\ RequestTypes /\ PageTypes

\* When every change has been announced, a snapshot cached for the current
\* revision is of the current state: no change slips in between what a build
\* read and the revision its snapshot is kept under.
CacheIsCurrent ==
    Hit /\ pending = 0 => cache.content = state

\* A projection that is served as live is at least as new as every change
\* that had been announced when the request came, whether it comes from the
\* cache, from a build of its own or from one it joined.
LiveAnswersAreCurrent ==
    \A c \in Clients :
        LET r == request[c] IN
        r.answer # None => (r.answer.live => r.answer.content >= r.floor)

\* A page that is told its view is live is never taken back to an older one,
\* even when the server started again and offered its last known snapshot in
\* between, or a body was torn; and it has a view, unless the body was torn.
LiveNeverGoesBack ==
    [][\A c \in Clients :
         status'[c] = "LIVE"
            => /\ shown'[c] # None \/ torn'[c]
               /\ shown[c] = None \/ shown'[c] >= shown[c]]_vars

\* Once the state stops changing, every page shows it, as live: no change is
\* lost between the revision, the timer, the events, the request under way
\* and the reconnections.
LatestIsShown ==
    <>[](\A c \in Clients : shown[c] = state /\ status[c] = "LIVE")

\* A page that says its data is live shows the projection whose ETag it sends
\* ("never stale state labelled as live", PLANS.md:943).  The one exception is a
\* body torn after its ETag was taken, until the next body arrives.
LiveIsShown ==
    \A c \in Clients : status[c] = "LIVE" => shown[c] = etag[c] \/ torn[c]
=============================================================================
