------------------------- MODULE StudioStreamProofs -------------------------
(***************************************************************************)
(* Theorems about the live projection, for any number of pages, changes,   *)
(* restarts, lost connections and failures.                                *)
(*                                                                         *)
(* StreamInv relates what a build read to what was announced: a snapshot   *)
(* lags the state by no more changes than are still to be announced, as    *)
(* long as its revision is the current one (Fits), and a request that      *)
(* waits does so for a build that has read, or will read, every change     *)
(* announced when it came (WaitsForIt).  What is served as live follows.   *)
(*                                                                         *)
(* PageInv adds what pages hold.  Pages outlive the server, so it says of  *)
(* every view a page shows, or the server saved, that nothing older can be *)
(* served as live any more (Overtaken), which survives a restart only      *)
(* because what the last process saved is never served as live.            *)
(***************************************************************************)
EXTENDS StudioStream, TLAPS

\* What a build read lags behind the state by no more changes than are still
\* to be announced, as long as no change was announced since it began.
Fits(snapshot) ==
    /\ snapshot.revision <= revision
    /\ snapshot.content <= state
    /\ snapshot.revision = revision =>
         announced <= snapshot.content /\ state - snapshot.content <= pending

\* A request that waits does so for a build that contains, or will contain,
\* what was announced when it came.
WaitsForIt(c) ==
    request[c].phase = "waiting" =>
        /\ build # None
        /\ request[c].floor <= state
        /\ build.content # None => request[c].floor <= build.content

StreamInv ==
    /\ TypeOK
    /\ announced <= state
    /\ cache # None => Fits(cache)
    /\ build # None => build.revision <= revision
    /\ build # None /\ build.content # None => ready /\ Fits(build)
    /\ \A c \in Clients : WaitsForIt(c)
    /\ LiveAnswersAreCurrent


\* Nothing newer than x can be served as live.
Overtaken(x) ==
    /\ x <= state
    /\ Hit => x <= cache.content
    /\ build # None /\ build.content # None => x <= build.content

\* What a page has and what its request was answered.
PageAgrees(c) ==
    /\ shown[c] # None => Overtaken(shown[c])
    /\ request[c].phase = "body" => etag[c] = request[c].answer.content
    /\ request[c].phase # "body" /\ ~torn[c] => etag[c] = shown[c]
    /\ torn[c] => etag[c] # None
    /\ request[c].answer # None =>
         /\ Overtaken(request[c].answer.content)
         /\ request[c].answer.same => etag[c] = request[c].answer.content
         /\ request[c].answer.live /\ shown[c] # None => shown[c] <= request[c].answer.content
    /\ status[c] = "LIVE" => (shown[c] # None \/ torn[c]) /\ request[c].phase = "idle"

PageInv ==
    /\ StreamInv
    /\ cache # None => ready /\ fresh
    /\ Hit => build = None
    /\ saved # None => Overtaken(saved)
    /\ recovered # None => Overtaken(recovered)
    /\ \A c \in Clients : PageAgrees(c)

-----------------------------------------------------------------------------
(* What was announced, cached and answered *)

LEMMA InitStream == Init => StreamInv
<1> USE StreamAssumption
<1> SUFFICES ASSUME Init PROVE StreamInv
  OBVIOUS
<1>1. NoRequest \in Requests /\ NoRequest.answer = None /\ NoRequest.phase = "idle"
  BY DEF NoRequest, Requests, Contents
<1>2. request \in [Clients -> Requests] /\ \A c \in Clients : request[c] = NoRequest
  BY <1>1 DEF Init
<1>3. RequestTypes
  BY <1>1, <1>2 DEF RequestTypes
<1>4. PageTypes
  BY DEF Init, PageTypes
<1>5. ServerTypes
  BY DEF Init, ServerTypes, Contents
<1>6. Flags
  BY Zenon DEF Init, Flags
<1> QED BY <1>1, <1>2, <1>3, <1>4, <1>5, <1>6
        DEF Init, StreamInv, TypeOK, WaitsForIt, LiveAnswersAreCurrent

\* An answer is one, and says what it was made from.
LEMMA AnswerTypes ==
  ASSUME NEW c \in Clients, NEW x \in Contents, NEW l \in BOOLEAN
  PROVE  /\ Answer(c, x, l) \in Answers /\ Answer(c, x, l) # None
         /\ Answer(c, x, l).content = x /\ Answer(c, x, l).live = l
<1>0. (etag[c] = x) \in BOOLEAN
  OBVIOUS
<1>1. Answer(c, x, l) \in Answers
  BY <1>0 DEF Answer, Answers
<1> QED BY <1>1, StreamAssumption DEF Answer

LEMMA FlagsStep == StreamInv /\ [Next]_vars => Flags'
<1> SUFFICES ASSUME StreamInv, [Next]_vars PROVE Flags'
  OBVIOUS
<1>1. Flags
  BY DEF StreamInv, TypeOK
<1>2. CASE Broadcast \/ Flush \/ Ready \/ BuildFinishes
  BY <1>1, <1>2, Zenon DEF Flags, Broadcast, Flush, Ready, BuildFinishes, pages
<1>3. CASE Mutate \/ BuildReads \/ BuildFails
  BY <1>1, <1>3, Zenon DEF Flags, Mutate, BuildReads, BuildFails, pages
<1>4. ASSUME NEW c \in Clients,
             \/ Send(c) \/ Arrive(c) \/ Headers(c) \/ Refused(c) \/ Receive(c) \/ Open(c)
      PROVE  Flags'
  BY <1>1, <1>4, Zenon DEF Flags, Send, Arrive, Headers, Refused, Receive, Open, server
<1>5. \A c \in Clients : TornAfter(c) \in BOOLEAN
  BY <1>1, Zenon DEF Flags, TornAfter
<1>6. ASSUME NEW c \in Clients, Body(c) \/ RequestFails(c) \/ Lose(c) PROVE Flags'
  <2>1. ready' = ready /\ fresh' = fresh /\ armed' = armed
    BY <1>6, Zenon DEF Body, RequestFails, Lose, server
  <2>2. torn' = [torn EXCEPT ![c] = FALSE] \/ torn' = [torn EXCEPT ![c] = TornAfter(c)]
    BY <1>6, Zenon DEF Body, RequestFails, Lose
  <2>3. PICK b \in BOOLEAN : torn' = [torn EXCEPT ![c] = b]
    BY <1>5, <2>2, Zenon
  <2>4. torn' \in [Clients -> BOOLEAN]
    BY <1>1, <2>3 DEF Flags
  <2> QED BY <1>1, <2>1, <2>4, Zenon DEF Flags
<1>7. CASE Restart
  BY <1>1, <1>5, <1>7, Zenon DEF Flags, Restart
<1>8. CASE UNCHANGED vars
  BY <1>1, <1>8, Zenon DEF Flags, vars, server, pages
<1> QED BY <1>2, <1>3, <1>4, <1>6, <1>7, <1>8 DEF Next, Page

\* Every callback, route, page and fault keeps StreamInv.
THEOREM StreamStep == StreamInv /\ [Next]_vars => StreamInv'
<1> SUFFICES ASSUME StreamInv, [Next]_vars PROVE StreamInv'
  OBVIOUS
<1> USE StreamAssumption DEF TypeOK, durable, server, pages, spent
<1>0. Flags'
  BY FlagsStep
<1>1. ASSUME Mutate PROVE StreamInv'
  BY <1>0, <1>1 DEF StreamInv, ServerTypes, RequestTypes, PageTypes, Fits, WaitsForIt,
       LiveAnswersAreCurrent, Contents, Snapshots, Builds, Requests, Answers, Mutate
<1>2. ASSUME Broadcast PROVE StreamInv'
  BY <1>0, <1>2 DEF StreamInv, ServerTypes, RequestTypes, PageTypes, Fits, WaitsForIt,
       LiveAnswersAreCurrent, Contents, Snapshots, Builds, Requests, Answers, Broadcast
<1>3. ASSUME Flush PROVE StreamInv'
  BY <1>0, <1>3 DEF StreamInv, ServerTypes, RequestTypes, PageTypes, Fits, WaitsForIt,
       LiveAnswersAreCurrent, Contents, Snapshots, Builds, Requests, Answers, Flush, Notified
<1>4. ASSUME Ready PROVE StreamInv'
  BY <1>0, <1>4 DEF StreamInv, ServerTypes, RequestTypes, PageTypes, Fits, WaitsForIt,
       LiveAnswersAreCurrent, Contents, Snapshots, Builds, Requests, Answers,
       Ready, Revalidation, Building
<1>5. ASSUME BuildReads PROVE StreamInv'
  BY <1>0, <1>5 DEF StreamInv, ServerTypes, RequestTypes, PageTypes, Fits, WaitsForIt,
       LiveAnswersAreCurrent, Contents, Snapshots, Builds, Requests, Answers, BuildReads
<1>6. ASSUME BuildFails PROVE StreamInv'
  BY <1>0, <1>6 DEF StreamInv, ServerTypes, RequestTypes, PageTypes, Fits, WaitsForIt,
       LiveAnswersAreCurrent, Contents, Snapshots, Builds, Requests, Answers, BuildFails, Waiters
<1>7. ASSUME NEW c \in Clients, Open(c) PROVE StreamInv'
  BY <1>0, <1>7 DEF StreamInv, ServerTypes, RequestTypes, PageTypes, Fits, WaitsForIt,
       LiveAnswersAreCurrent, Contents, Snapshots, Builds, Requests, Answers, Open
<1>8. ASSUME NEW c \in Clients, Receive(c) PROVE StreamInv'
  BY <1>0, <1>8 DEF StreamInv, ServerTypes, RequestTypes, PageTypes, Fits, WaitsForIt,
       LiveAnswersAreCurrent, Contents, Snapshots, Builds, Requests, Answers, Receive, QueuedBy
<1>9. ASSUME NEW c \in Clients, Send(c) PROVE StreamInv'
  BY <1>0, <1>9 DEF StreamInv, ServerTypes, RequestTypes, PageTypes, Fits, WaitsForIt,
       LiveAnswersAreCurrent, Contents, Snapshots, Builds, Requests, Answers,
       Send, InFlight, NoRequest
<1>10. ASSUME NEW c \in Clients, Body(c) PROVE StreamInv'
  BY <1>0, <1>10 DEF StreamInv, ServerTypes, RequestTypes, PageTypes, Fits, WaitsForIt,
       LiveAnswersAreCurrent, Contents, Snapshots, Builds, Requests, Answers,
       Body, Freshness, NoRequest
<1>11. ASSUME NEW c \in Clients, Refused(c) PROVE StreamInv'
  BY <1>0, <1>11 DEF StreamInv, ServerTypes, RequestTypes, PageTypes, Fits, WaitsForIt,
       LiveAnswersAreCurrent, Contents, Snapshots, Builds, Requests, Answers, Refused, NoRequest
<1>12. ASSUME NEW c \in Clients, RequestFails(c) PROVE StreamInv'
  BY <1>0, <1>12 DEF StreamInv, ServerTypes, RequestTypes, PageTypes, Fits, WaitsForIt,
       LiveAnswersAreCurrent, Contents, Snapshots, Builds, Requests, Answers,
       RequestFails, Losable, InFlight, NoRequest
<1>13. ASSUME NEW c \in Clients, Lose(c) PROVE StreamInv'
  BY <1>0, <1>13 DEF StreamInv, ServerTypes, RequestTypes, PageTypes, Fits, WaitsForIt,
       LiveAnswersAreCurrent, Contents, Snapshots, Builds, Requests, Answers,
       Lose, Losable, InFlight, NoRequest
<1>20. ASSUME BuildFinishes PROVE StreamInv'
  <2>0. /\ build # None /\ build.content # None /\ build' = None /\ cache' = Kept
        /\ saved' = saved \/ saved' = build.content
        /\ request' = [c \in Clients |->
                          IF c \in Waiters THEN Served(c) ELSE request[c]]
        /\ told' = Notified \/ told' = told
        /\ UNCHANGED <<state, pending, revision, announced, recovered,
                   flushes, subscribers, link, queued, etag, shown, status>>
    BY <1>20, Zenon DEF BuildFinishes
  <2>1. build \in Builds /\ build.content \in Contents /\ Fits(build)
    BY <2>0 DEF StreamInv, ServerTypes, Builds
  <2>2. cache' \in Snapshots \union {None} /\ (cache' # None => Fits(cache)')
    BY <2>0, <2>1 DEF StreamInv, ServerTypes, Fits, Kept, Snapshots, Builds
  <2>3. saved' \in Contents \union {None}
    BY <2>0, <2>1 DEF StreamInv, ServerTypes
  <2>4. ServerTypes'
    BY <2>0, <2>1, <2>2, <2>3 DEF StreamInv, ServerTypes
  <2>5. ASSUME NEW c \in Clients
        PROVE  /\ request'[c] \in Requests /\ request'[c].phase # "waiting"
               /\ (request'[c].answer # None) <=> (request'[c].phase \in {"answered", "body"})
               /\ \/ request'[c] = request[c]
                  \/ /\ request[c].phase = "waiting" /\ request'[c].floor = request[c].floor
                     /\ request'[c].answer.content = build.content
    <3>1. CASE c \in Waiters
      <4> DEFINE a == Answer(c, build.content, TRUE)
      <4>1. request'[c] = Served(c)
        BY <2>0, <3>1
      <4>4. Served(c) = [request[c] EXCEPT !.phase = "answered", !.answer = a]
        BY DEF Served
      <4>2. a \in Answers /\ a # None /\ a.content = build.content
        BY <2>1, AnswerTypes
      <4>3. request[c] \in Requests /\ request[c].phase = "waiting"
        BY <3>1 DEF StreamInv, RequestTypes, Waiters
      <4> HIDE DEF a
      <4> QED BY <4>1, <4>2, <4>3, <4>4, Zenon DEF Requests
    <3>2. CASE c \notin Waiters
      <4>1. request'[c] = request[c]
        BY <2>0, <3>2
      <4> QED BY <4>1, <3>2 DEF StreamInv, RequestTypes, Waiters
    <3> QED BY <3>1, <3>2
  <2>6. RequestTypes'
    <3>1. request' = [c \in Clients |-> request'[c]]
      BY <2>0
    <3> QED BY <2>5, <3>1, Zenon DEF RequestTypes
  <2>7. PageTypes'
    BY <2>0 DEF StreamInv, PageTypes, Notified
  <2>8. LiveAnswersAreCurrent'
    BY <2>0, <2>1, <2>5 DEF StreamInv, LiveAnswersAreCurrent, WaitsForIt
  <2>9. announced' <= state'
    BY <2>0 DEF StreamInv
  <2> QED BY <1>0, <2>0, <2>1, <2>2, <2>4, <2>5, <2>6, <2>7, <2>8, <2>9 DEF StreamInv, WaitsForIt
<1>21. ASSUME Restart PROVE StreamInv'
  <2>1. NoRequest \in Requests /\ NoRequest.answer = None /\ NoRequest.phase = "idle"
    BY DEF NoRequest, Requests, Contents
  <2>2. \A c \in Clients : request'[c] = request[c] \/ request'[c] = NoRequest
    BY <1>21 DEF Restart
  <2>3. \A c \in Clients : request'[c].phase # "waiting"
    BY <1>21, <2>1 DEF Restart, Losable, InFlight
  <2>4. RequestTypes'
    BY <1>21, <2>1, <2>2 DEF Restart, StreamInv, RequestTypes
  <2>5. PageTypes'
    BY <1>21 DEF Restart, StreamInv, PageTypes
  <2>6. ServerTypes' /\ announced' <= state'
    BY <1>21 DEF Restart, StreamInv, ServerTypes, Contents
  <2> QED BY <1>0, <1>21, <2>1, <2>2, <2>3, <2>4, <2>5, <2>6
          DEF Restart, StreamInv, WaitsForIt, LiveAnswersAreCurrent
<1>22. ASSUME NEW c \in Clients, Arrive(c) PROVE StreamInv'
  <2>1. /\ UNCHANGED <<durable, ready, pending, revision, announced, cache, fresh,
                       recovered, armed, flushes, subscribers, link, told, queued,
                       etag, shown, status, spent>>
        /\ announced \in Contents
    BY <1>22 DEF Arrive, StreamInv, ServerTypes
  <2>0. \A n \in BOOLEAN :
          /\ Building(n) \in Builds
          /\ build # None => Building(n) = build
          /\ build = None => Building(n).content = None /\ Building(n).revision = revision
    BY DEF Building, StreamInv, ServerTypes, Builds
  <2>2. /\ build' \in Builds \union {None} 
        /\ build # None => build' = build
        /\ build = None /\ build' # None => build'.content = None /\ build'.revision = revision
    <3>2. build' = build \/ build' = Building(FALSE) \/ build' = Building(recovered # None)
      BY <1>22 DEF Arrive, Revalidation
    <3>3. (recovered # None) \in BOOLEAN /\ FALSE \in BOOLEAN
      OBVIOUS
    <3>4. build' = build \/ \E n \in BOOLEAN : build' = Building(n)
      BY <3>2, <3>3, Zenon
    <3>5. build' = build \/ build' \in Builds
      BY <2>0, <3>4, Zenon
    <3>6. build \in Builds \union {None}
      BY DEF StreamInv, ServerTypes
    <3>7. build # None => build' = build
      BY <2>0, <3>4, Zenon
    <3>8. build = None /\ build' # None => build'.content = None /\ build'.revision = revision
      BY <2>0, <3>4, Zenon
    <3> QED BY <3>5, <3>6, <3>7, <3>8
  <2>3. PICK a \in Answers \union {None}, p \in {"answered", "waiting"} :
          /\ request' = [request EXCEPT ![c] = [phase |-> p, answer |-> a, floor |-> announced]]
          /\ (p = "answered") <=> (a # None)
          /\ a # None => (a.live => announced <= a.content)
          /\ p = "waiting" =>
               /\ build' # None
               /\ build'.content # None => announced <= build'.content
    <3>1. CASE OnlyLastKnown
      <4>1. recovered \in Contents
        BY <3>1 DEF OnlyLastKnown, StreamInv, ServerTypes
      <4> DEFINE a == LastKnown(c)
      <4>2. a \in Answers /\ a # None /\ ~a.live
        BY <4>1, AnswerTypes DEF LastKnown
      <4>3. request' = [request EXCEPT
                            ![c] = [phase |-> "answered", answer |-> a, floor |-> announced]]
        BY <1>22, <3>1 DEF Arrive
      <4> HIDE DEF a
      <4> QED BY <4>2, <4>3
    <3>2. CASE ~OnlyLastKnown /\ Hit
      <4>1. cache.content \in Contents /\ announced <= cache.content
        BY <3>2 DEF Hit, StreamInv, ServerTypes, Snapshots, Fits
      <4> DEFINE a == Answer(c, cache.content, TRUE)
      <4>2. a \in Answers /\ a # None /\ a.content = cache.content
        BY <4>1, AnswerTypes
      <4>3. request' = [request EXCEPT
                            ![c] = [phase |-> "answered", answer |-> a, floor |-> announced]]
        BY <1>22, <3>2 DEF Arrive
      <4> HIDE DEF a
      <4> QED BY <4>1, <4>2, <4>3
    <3>3. CASE ~OnlyLastKnown /\ ~Hit
      <4>1. /\ request' = [request EXCEPT
                            ![c] = [phase |-> "waiting", answer |-> None, floor |-> announced]]
            /\ build' = Building(FALSE) /\ Idle
        BY <1>22, <3>3 DEF Arrive
      <4>2. build = None \/ build.content = None
        BY <4>1 DEF Idle, StreamInv
      <4>3. build' # None /\ build'.content = None
        <5>1. /\ Building(FALSE) \in Builds
              /\ build # None => Building(FALSE) = build
              /\ build = None => Building(FALSE).content = None
          BY <2>0, Zenon
        <5> QED BY <4>1, <4>2, <5>1
      <4> QED BY <4>1, <4>3
    <3> QED BY <3>1, <3>2, <3>3
  <2>4. /\ request'[c] = [phase |-> p, answer |-> a, floor |-> announced]
        /\ \A d \in Clients : d # c => request'[d] = request[d]
    BY <2>3 DEF StreamInv, RequestTypes
  <2>5. RequestTypes'
    <3>1. [phase |-> p, answer |-> a, floor |-> announced] \in Requests
      BY <2>1 DEF Requests
    <3> QED BY <2>3, <2>4, <3>1 DEF StreamInv, RequestTypes
  <2>6. ServerTypes' /\ PageTypes'
    BY <2>1, <2>2 DEF StreamInv, ServerTypes, PageTypes
  <2>7. /\ build' # None => build'.revision <= revision'
        /\ build' # None /\ build'.content # None => ready' /\ Fits(build)'
        /\ cache' # None => Fits(cache)'
        /\ announced' <= state'
    BY <2>1, <2>2 DEF StreamInv, ServerTypes, Fits
  <2>8. \A d \in Clients : WaitsForIt(d)'
    BY <2>1, <2>2, <2>3, <2>4 DEF StreamInv, WaitsForIt
  <2>9. LiveAnswersAreCurrent'
    BY <2>3, <2>4 DEF StreamInv, LiveAnswersAreCurrent
  <2> QED BY <1>0, <2>5, <2>6, <2>7, <2>8, <2>9 DEF StreamInv
<1>23. ASSUME NEW c \in Clients, Headers(c) PROVE StreamInv'
  <2> DEFINE a == request[c].answer
  <2>1. a \in Answers /\ request[c] \in Requests /\ a.content \in Contents
    BY <1>23 DEF Headers, StreamInv, RequestTypes, Requests, Answers
  <2>2. /\ etag' = [etag EXCEPT ![c] = a.content]
        /\ UNCHANGED <<durable, server, link, told, queued, shown>>
    BY <1>23 DEF Headers
  <2>3. \/ /\ status' = [status EXCEPT ![c] = Freshness(a)]
           /\ request' = [request EXCEPT ![c] = NoRequest]
        \/ /\ status' = status
           /\ request' = [request EXCEPT ![c].phase = "body"]
    BY <1>23 DEF Headers
  <2>4. ServerTypes' /\ PageTypes'
    BY <2>1, <2>2, <2>3 DEF StreamInv, ServerTypes, PageTypes, Freshness
  <2>5. RequestTypes'
    BY <1>23, <2>1, <2>3 DEF Headers, StreamInv, RequestTypes, Requests, NoRequest, Contents
  <2>6. \A d \in Clients : WaitsForIt(d)'
    <3>1. UNCHANGED <<state, build>>
      BY <2>2, Zenon
    <3>2. \A d \in Clients : request'[d].phase = "waiting" => request'[d] = request[d]
      BY <2>3 DEF StreamInv, RequestTypes, Requests, NoRequest
    <3> QED BY <3>1, <3>2 DEF StreamInv, WaitsForIt
  <2>7. LiveAnswersAreCurrent'
    BY <2>3 DEF StreamInv, RequestTypes, Requests, LiveAnswersAreCurrent, NoRequest
  <2> QED BY <1>0, <2>2, <2>4, <2>5, <2>6, <2>7 DEF StreamInv, Fits
<1>24. ASSUME UNCHANGED vars PROVE StreamInv'
  BY <1>24 DEF vars, StreamInv, ServerTypes, Flags, RequestTypes, PageTypes, Fits, WaitsForIt,
       LiveAnswersAreCurrent
<1> QED BY <1>1, <1>2, <1>3, <1>4, <1>5, <1>6, <1>7, <1>8, <1>9, <1>10, <1>11, <1>12, <1>13,
           <1>20, <1>21, <1>22, <1>23, <1>24 DEF Next, Page

\* What was announced, built and cached stays consistent (StreamInv) at every
\* interleaving of builds, changes, requests and restarts.
THEOREM StreamInvHolds == Spec => []StreamInv
BY InitStream, StreamStep, PTL DEF Spec

\* Every variable keeps its type.
THEOREM TypesHold == Spec => []TypeOK
<1>1. StreamInv => TypeOK
  BY DEF StreamInv
<1> QED BY <1>1, StreamInvHolds, PTL

\* No request is answered as live with a projection that misses a change
\* announced before the request came, whether it hits the cache, starts a build
\* or joins one that is under way (server.ts, liveProjectionSnapshot).
THEOREM LiveAnswersStayCurrent == Spec => []LiveAnswersAreCurrent
<1>1. StreamInv => LiveAnswersAreCurrent
  BY DEF StreamInv
<1> QED BY <1>1, StreamInvHolds, PTL

\* A snapshot that is cached for the current revision is of the current state
\* once every change has been announced: a change made while a build runs cannot
\* be hidden behind the snapshot of that build.
THEOREM CacheStaysCurrent == Spec => []CacheIsCurrent
<1>1. StreamInv => CacheIsCurrent
  BY StreamAssumption DEF StreamInv, TypeOK, ServerTypes, CacheIsCurrent, Hit, Fits, Snapshots,
     Contents
<1> QED BY <1>1, StreamInvHolds, PTL

-----------------------------------------------------------------------------
(* What a page shows *)

\* The ways a step moves what live answers are taken from.
Moves ==
  \/ UNCHANGED <<state, revision, cache, build>>
  \/ state' = state + 1 /\ UNCHANGED <<revision, cache, build>>
  \/ revision' = revision + 1 /\ UNCHANGED <<state, cache, build>>
  \/ /\ build' # None => build' = build \/ build'.content \in {None, state}
     /\ Hit => build' = None \/ build' = build
     /\ UNCHANGED <<state, revision, cache>>
  \/ /\ build # None /\ build.content # None
     /\ build' = None /\ cache' = Kept /\ UNCHANGED <<state, revision>>
  \/ build' = None /\ cache' = None /\ UNCHANGED state

LEMMA ServerMoves ==
  ASSUME StreamInv, cache # None => ready /\ fresh, Hit => build = None, [Next]_vars
  PROVE  Moves
<1> USE DEF durable, server, pages, spent
<1>1. CASE Mutate \/ Flush
  BY <1>1, Zenon DEF Moves, Mutate, Flush
<1>2. CASE Broadcast
  BY <1>2, Zenon DEF Moves, Broadcast
<1>3. CASE Ready
  <2>1. cache = None /\ build' = Revalidation /\ UNCHANGED <<state, revision, cache>>
    BY <1>3, Zenon DEF Ready
  <2>2. Revalidation = build \/ Revalidation.content = None
    BY DEF Revalidation, Building
  <2> QED BY <2>1, <2>2 DEF Moves, Hit
<1>4. CASE BuildReads
  <2>1. /\ build # None /\ build.content = None /\ UNCHANGED <<state, revision, cache>>
        /\ build' = [build EXCEPT !.content = state]
    BY <1>4, Zenon DEF BuildReads
  <2>2. build \in Builds
    BY <2>1 DEF StreamInv, TypeOK, ServerTypes
  <2>3. build'.content = state
    BY <2>1, <2>2 DEF Builds
  <2> QED BY <2>1, <2>3 DEF Moves, Hit
<1>5. CASE BuildFinishes
  BY <1>5, Zenon DEF Moves, BuildFinishes
<1>6. CASE BuildFails
  BY <1>6, Zenon DEF Moves, BuildFails
<1>7. CASE Restart
  BY <1>7, Zenon DEF Moves, Restart
<1>8. ASSUME NEW c \in Clients, Arrive(c) PROVE Moves
  <2>1. UNCHANGED <<state, revision, cache>>
    BY <1>8, Zenon DEF Arrive
  <2>2. CASE Hit
    <3>1. ~OnlyLastKnown
      BY <2>2, Zenon DEF Hit, OnlyLastKnown
    <3>2. build' = build
      BY <1>8, <2>2, <3>1, Zenon DEF Arrive
    <3> QED BY <2>1, <3>2, Zenon DEF Moves
  <2>3. CASE ~Hit
    <3>1. build' = Revalidation \/ build' = Building(FALSE)
      BY <1>8, <2>3, Zenon DEF Arrive
    <3>2. build' = build \/ build'.content = None
      BY <3>1 DEF Revalidation, Building
    <3> QED BY <2>1, <2>3, <3>2, Zenon DEF Moves
  <2> QED BY <2>2, <2>3
<1>9. ASSUME NEW c \in Clients, Send(c) \/ Headers(c) \/ Body(c) \/ Refused(c) \/ Receive(c)
                                  \/ Open(c) \/ RequestFails(c) \/ Lose(c)
      PROVE  Moves
  BY <1>9, Zenon DEF Moves, Send, Headers, Body, Refused, Receive, Open, RequestFails, Lose
<1>10. CASE UNCHANGED vars
  BY <1>10, Zenon DEF Moves, vars
<1> QED BY <1>1, <1>2, <1>3, <1>4, <1>5, <1>6, <1>7, <1>8, <1>9, <1>10, Zenon DEF Next, Page

\* What can no longer be undercut stays so, whatever the server does.
LEMMA OvertakenStays ==
  ASSUME PageInv, StreamInv', Moves, NEW x \in Contents, Overtaken(x)
  PROVE  Overtaken(x)'
<1> USE StreamAssumption DEF PageInv, StreamInv, TypeOK, ServerTypes, Contents, Overtaken, Hit
<1>1. CASE /\ build # None /\ build.content # None /\ build' = None /\ cache' = Kept
           /\ UNCHANGED <<state, revision>>
  BY <1>1 DEF Kept
<1>2. CASE revision' = revision + 1 /\ UNCHANGED <<state, cache, build>>
  BY <1>2 DEF Fits, Snapshots
<1> QED BY <1>1, <1>2 DEF Moves

\* Every step keeps what pages hold.
LEMMA PageStep ==
  ASSUME PageInv, [Next]_vars
  PROVE  PageInv'
<1> USE StreamAssumption DEF durable, server, pages, spent
<1>1. StreamInv'
  BY StreamStep DEF PageInv
<1>2. Moves
  BY ServerMoves DEF PageInv
<1>3. \A x \in Contents : Overtaken(x) => Overtaken(x)'
  BY <1>1, <1>2, OvertakenStays
<1>4. (cache # None => ready /\ fresh)'
  <2>1. CASE Mutate \/ Broadcast \/ Flush \/ Ready \/ BuildReads \/ BuildFails \/ Restart
    BY <2>1, Zenon DEF PageInv, Mutate, Broadcast, Flush, Ready, BuildReads, BuildFails, Restart
  <2>2. CASE BuildFinishes
    <3>1. build # None /\ build.content # None /\ cache' = Kept /\ ready' = ready
      BY <2>2, Zenon DEF BuildFinishes
    <3>2. cache # None \/ build.revision = revision => fresh'
      BY <2>2, Zenon DEF PageInv, BuildFinishes
    <3>3. ready
      BY <3>1, Zenon DEF PageInv, StreamInv
    <3>4. Kept # None => cache # None \/ build.revision = revision
      BY Zenon DEF Kept
    <3> QED BY <3>1, <3>2, <3>3, <3>4, Zenon
  <2>3. CASE \E c \in Clients : Page(c) \/ RequestFails(c) \/ Lose(c)
    <3>1. UNCHANGED <<cache, ready, fresh>>
      BY <2>3, Zenon DEF Page, RequestFails, Lose, Send, Arrive, Headers, Body,
         Refused, Receive, Open
    <3> QED BY <3>1, Zenon DEF PageInv
  <2>4. CASE UNCHANGED vars
    BY <2>4, Zenon DEF PageInv, vars
  <2> QED BY <2>1, <2>2, <2>3, <2>4, Zenon DEF Next
<1>5. (Hit => build = None)'
  BY <1>1, <1>2 DEF PageInv, StreamInv, TypeOK, ServerTypes, Hit, Moves, Fits, Kept, Snapshots,
     Contents
<1>6. saved' = saved \/ (saved' # None => Overtaken(saved)')
  <2>1. CASE BuildFinishes
    <3>1. /\ build # None /\ build.content # None /\ cache' = Kept /\ build' = None
          /\ UNCHANGED <<state, revision>>
          /\ saved' = saved \/ (saved' = build.content /\ build.revision = revision)
      BY <2>1, Zenon DEF BuildFinishes
    <3> QED BY <3>1 DEF PageInv, StreamInv, TypeOK, ServerTypes, Fits, Overtaken, Kept, Hit,
               Snapshots, Builds, Contents
  <2>2. CASE ~BuildFinishes
    BY <2>2, Zenon DEF Next, vars, Mutate, Broadcast, Flush, Ready, BuildReads, BuildFails, Restart,
       Page, RequestFails, Lose, Send, Arrive, Headers, Body, Refused, Receive, Open
  <2> QED BY <2>1, <2>2
<1>7. recovered' = recovered \/ (recovered' = saved /\ saved' = saved)
  BY Zenon DEF Next, vars, Mutate, Broadcast, Flush, Ready, BuildReads, BuildFinishes, BuildFails,
     Restart,
       Page, RequestFails, Lose, Send, Arrive, Headers, Body, Refused, Receive, Open
<1>8. (saved # None => Overtaken(saved))' /\ (recovered # None => Overtaken(recovered))'
  <2>1. saved \in Contents \union {None} /\ recovered \in Contents \union {None}
    BY DEF PageInv, StreamInv, TypeOK, ServerTypes
  <2>2. (saved # None => Overtaken(saved)) /\ (recovered # None => Overtaken(recovered))
    BY DEF PageInv
  <2>3. saved' = saved /\ saved # None => Overtaken(saved)'
    BY <1>3, <2>1, <2>2 DEF Overtaken, Hit
  <2>4. saved' # None => Overtaken(saved)'
    BY <1>6, <2>3, Zenon
  <2>5. recovered' = recovered /\ recovered # None => Overtaken(recovered)'
    BY <1>3, <2>1, <2>2 DEF Overtaken, Hit
  <2>6. recovered' = saved' => (Overtaken(saved)' => Overtaken(recovered)')
    BY DEF Overtaken
  <2> QED BY <1>7, <2>4, <2>5, <2>6, Zenon
\* To say of what a page shows, or was answered, that it is overtaken.
<1>9. ASSUME NEW c \in Clients, NEW x \in Contents, Overtaken(x)'
      PROVE  /\ x = shown'[c] => Overtaken(shown[c])'
             /\ x = request'[c].answer.content => Overtaken(request[c].answer.content)'
  BY <1>9 DEF Overtaken, Hit
\* A page that no answer came to, and that gave up at most what it waited for, or
\* a body whose ETag it has.
<1>10. ASSUME NEW c \in Clients,
              UNCHANGED <<shown[c], etag[c]>>,
              \/ request'[c] = request[c] /\ torn'[c] = torn[c]
              \/ /\ request'[c].answer = None /\ request'[c].phase # "body"
                 /\ torn'[c] = (torn[c] \/ request[c].phase = "body"),
              status'[c] = "LIVE" => status[c] = "LIVE" /\ request'[c].phase = "idle"
       PROVE  PageAgrees(c)'
  <2>1. /\ shown[c] \in Contents \union {None} /\ request[c] \in Requests
        /\ request[c].answer # None => request[c].answer.content \in Contents
        /\ request[c].phase = "body" => request[c].answer # None
    BY DEF PageInv, StreamInv, TypeOK, PageTypes, RequestTypes, Requests, Answers
  <2>2. \A x \in Contents :
           x = shown[c] \/ (request[c].answer # None /\ x = request[c].answer.content)
             => Overtaken(x)
    BY <2>1 DEF PageInv, PageAgrees
  <2>3. \A x \in Contents :
           x = shown[c] \/ (request[c].answer # None /\ x = request[c].answer.content)
             => Overtaken(x)'
    BY <1>3, <2>2
  <2>4. shown'[c] # None => Overtaken(shown[c])'
    BY <1>9, <1>10, <2>1, <2>3
  <2>5. request'[c].answer # None => Overtaken(request[c].answer.content)'
    BY <1>9, <1>10, <2>1, <2>3
  <2>6. CASE request'[c] = request[c] /\ torn'[c] = torn[c]
    BY <1>10, <2>4, <2>5, <2>6 DEF PageInv, PageAgrees
  <2>7. CASE /\ request'[c].answer = None /\ request'[c].phase # "body"
             /\ torn'[c] = (torn[c] \/ request[c].phase = "body")
    <3>1. request[c].phase = "body" => etag[c] # None
      BY <2>1, StreamAssumption DEF PageInv, PageAgrees
    <3> QED BY <1>10, <2>4, <2>7, <3>1 DEF PageInv, PageAgrees
  <2> QED BY <1>10, <2>6, <2>7
\* A page that is answered.
<1>11. ASSUME NEW c \in Clients, NEW x \in Contents, NEW l \in BOOLEAN,
              UNCHANGED <<shown[c], etag[c], status[c], torn[c]>>,
              request[c].phase \in {"sent", "waiting"},
              request'[c].phase = "answered", request'[c].answer = Answer(c, x, l),
              Overtaken(x)', l => (shown[c] # None => shown[c] <= x)
       PROVE  PageAgrees(c)'
  <2>1. shown'[c] # None => Overtaken(shown[c])'
    <3>1. shown[c] \in Contents \union {None}
      BY DEF PageInv, StreamInv, TypeOK, PageTypes
    <3>2. \A y \in Contents : y = shown[c] => Overtaken(y)
      BY <3>1, StreamAssumption DEF PageInv, PageAgrees
    <3>3. \A y \in Contents : y = shown[c] => Overtaken(y)'
      BY <1>3, <3>2
    <3> QED BY <1>9, <1>11, <3>1, <3>3
  <2>2. /\ Answer(c, x, l).same = (etag[c] = x) /\ Answer(c, x, l).content = x
        /\ Answer(c, x, l).live = l
    BY DEF Answer
  <2>3. Overtaken(request[c].answer.content)'
    BY <1>9, <1>11, <2>2
  <2>4. /\ ~torn[c] => etag[c] = shown[c]
        /\ torn[c] => etag[c] # None
        /\ status[c] # "LIVE"
    BY <1>11 DEF PageInv, PageAgrees
  <2>5. request'[c].answer.same => etag'[c] = request'[c].answer.content
    BY <1>11, <2>2
  <2>6. request'[c].answer.live /\ shown'[c] # None => shown'[c] <= request'[c].answer.content
    BY <1>11, <2>2
  <2>7. /\ request'[c].phase # "body" /\ status'[c] # "LIVE"
        /\ ~torn'[c] => etag'[c] = shown'[c]
        /\ torn'[c] => etag'[c] # None
    BY <1>11, <2>4
  <2> QED BY <2>1, <2>3, <2>5, <2>6, <2>7 DEF PageAgrees
<1>12. \A c \in Clients : PageAgrees(c)'
  <2> SUFFICES ASSUME NEW c \in Clients PROVE PageAgrees(c)'
    OBVIOUS
  <2>1. CASE Mutate \/ Broadcast \/ Flush \/ Ready \/ BuildReads \/ UNCHANGED vars
    <3>1. UNCHANGED <<shown[c], etag[c], status[c], request[c], torn[c]>>
      BY <2>1, Zenon DEF Mutate, Broadcast, Flush, Ready, BuildReads, vars
    <3>2. status[c] = "LIVE" => request[c].phase = "idle"
      BY DEF PageInv, PageAgrees
    <3> QED BY <1>10, <3>1, <3>2
  <2>0. /\ status \in [Clients -> {"CONNECTING", "REFRESHING", "LIVE",
                                   "STALE_REVALIDATING", "RECONNECTING"}]
        /\ shown \in [Clients -> Contents \union {None}]
        /\ etag \in [Clients -> Contents \union {None}]
        /\ request \in [Clients -> Requests] /\ torn \in [Clients -> BOOLEAN]
        /\ \A d \in Clients : /\ status[d] = "LIVE" => request[d].phase = "idle"
                              /\ (request[d].answer # None) <=>
                                   (request[d].phase \in {"answered", "body"})
        /\ NoRequest.phase = "idle" /\ NoRequest.answer = None
    BY DEF PageInv, PageAgrees, StreamInv, TypeOK, PageTypes, Flags, RequestTypes, NoRequest
  <2>2. CASE BuildFails
    <3>1. /\ UNCHANGED <<shown, etag, status, torn>>
          /\ request'[c] = IF c \in Waiters THEN [request[c] EXCEPT !.phase = "refused"]
                           ELSE request[c]
      BY <2>2 DEF BuildFails
    <3>2. c \in Waiters => [request[c] EXCEPT !.phase = "refused"].answer = None
                           /\ [request[c] EXCEPT !.phase = "refused"].phase = "refused"
      BY <2>0 DEF Waiters, Requests
    <3> QED BY <1>10, <2>0, <3>1, <3>2 DEF Waiters
  <2>3. CASE Restart
    <3>1. /\ UNCHANGED <<shown, etag>>
          /\ request'[c] = IF Losable(c) THEN NoRequest ELSE request[c]
          /\ torn'[c] = TornAfter(c)
          /\ status'[c] = IF link[c] \/ Losable(c) THEN "RECONNECTING" ELSE status[c]
      BY <2>3 DEF Restart
    <3>2. torn'[c] = IF Losable(c) THEN torn[c] \/ request[c].phase = "body" ELSE torn[c]
      BY <2>0, <3>1 DEF TornAfter
    <3> QED BY <1>10, <2>0, <3>1, <3>2
  <2>4. CASE BuildFinishes
    <3>1. /\ build # None /\ build.content # None /\ cache' = Kept /\ build' = None
          /\ UNCHANGED <<state, revision, shown, etag, status, torn>>
          /\ request'[c] = IF c \in Waiters THEN Served(c) ELSE request[c]
      BY <2>4 DEF BuildFinishes
    <3>2. CASE c \notin Waiters
      BY <1>10, <2>0, <3>1, <3>2
    <3>3. CASE c \in Waiters
      <4>1. PICK x \in Contents : x = build.content
        BY <3>1, StreamAssumption DEF PageInv, StreamInv, TypeOK, ServerTypes, Builds
      <4>2. x <= state /\ build.revision <= revision /\ ~Hit
        BY <3>1, <4>1 DEF PageInv, StreamInv, Fits
      <4>3. Overtaken(x)'
        <5>1. Kept # None /\ Kept.revision = revision => Kept.content = x
          BY <4>1, <4>2 DEF Hit, Kept
        <5>2. Hit' => x <= cache'.content
          BY <3>1, <5>1 DEF Hit, Contents
        <5> QED BY <3>1, <4>2, <5>2 DEF Overtaken
      <4>4. shown[c] # None => shown[c] <= x
        BY <3>1, <4>1 DEF PageInv, PageAgrees, Overtaken
      <4>5. request'[c].phase = "answered" /\ request'[c].answer = Answer(c, x, TRUE)
        BY <2>0, <3>1, <3>3, <4>1 DEF Served, Requests
      <4>6. TRUE \in BOOLEAN /\ request[c].phase \in {"sent", "waiting"}
        BY <3>3 DEF Waiters
      <4> QED BY <1>11, <3>1, <4>3, <4>4, <4>5, <4>6
    <3> QED BY <3>2, <3>3
  <2>5. ASSUME NEW d \in Clients,
               Send(d) \/ Refused(d) \/ Receive(d) \/ Open(d) \/ RequestFails(d) \/ Lose(d)
        PROVE  PageAgrees(c)'
    <3>1. CASE Receive(d) \/ Open(d)
      <4>1. UNCHANGED <<shown, etag, status, request, torn>>
        BY <3>1 DEF Receive, Open
      <4> QED BY <1>10, <2>0, <4>1
    <3>2. CASE Send(d)
      BY <1>10, <2>0, <3>2 DEF Send, InFlight, NoRequest
    <3>3. CASE Refused(d)
      BY <1>10, <2>0, <3>3 DEF Refused
    <3>4. CASE RequestFails(d)
      <4>1. torn'[c] = IF c = d THEN torn[c] \/ request[c].phase = "body" ELSE torn[c]
        BY <2>0, <3>4 DEF RequestFails, TornAfter
      <4> QED BY <1>10, <2>0, <3>4, <4>1 DEF RequestFails
    <3>5. CASE Lose(d)
      <4>1. torn'[c] = IF c = d /\ Losable(c) THEN torn[c] \/ request[c].phase = "body"
                       ELSE torn[c]
        BY <2>0, <3>5 DEF Lose, TornAfter
      <4> QED BY <1>10, <2>0, <3>5, <4>1 DEF Lose
    <3> QED BY <2>5, <3>1, <3>2, <3>3, <3>4, <3>5
  <2>6. ASSUME NEW d \in Clients, d # c, Arrive(d) \/ Headers(d) \/ Body(d)
        PROVE  PageAgrees(c)'
    <3>1. UNCHANGED <<shown[c], etag[c], status[c], request[c], torn[c]>>
      BY <2>0, <2>6 DEF Arrive, Headers, Body
    <3> QED BY <1>10, <2>0, <3>1
  <2>7. CASE Arrive(c)
    <3>1. /\ request[c].phase = "sent" /\ UNCHANGED <<shown, etag, status, torn>>
          /\ Idle
      BY <2>7 DEF Arrive
    <3>2. ASSUME NEW x \in Contents, NEW l \in BOOLEAN, Overtaken(x),
                 l => (shown[c] # None => shown[c] <= x),
                 request' = [request EXCEPT
                   ![c] = [phase |-> "answered", answer |-> Answer(c, x, l), floor |-> announced]]
          PROVE  PageAgrees(c)'
      <4>1. Overtaken(x)'
        BY <1>3, <3>2
      <4>2. request'[c].phase = "answered" /\ request'[c].answer = Answer(c, x, l)
        BY <2>0, <3>2
      <4> QED BY <1>11, <3>1, <3>2, <4>1, <4>2
    <3>3. CASE OnlyLastKnown
      <4>1. PICK x \in Contents : x = recovered
        BY <3>3, StreamAssumption DEF OnlyLastKnown, PageInv, StreamInv, TypeOK, ServerTypes
      <4>2. Overtaken(x)
        BY <4>1, StreamAssumption DEF PageInv
      <4>3. request' = [request EXCEPT
              ![c] = [phase |-> "answered", answer |-> Answer(c, x, FALSE), floor |-> announced]]
        BY <2>7, <3>3, <4>1 DEF Arrive, LastKnown
      <4> QED BY <3>2, <4>2, <4>3
    <3>4. CASE ~OnlyLastKnown /\ Hit
      <4>1. PICK x \in Contents : x = cache.content
        BY <3>4 DEF Hit, PageInv, StreamInv, TypeOK, ServerTypes, Snapshots
      <4>2. Overtaken(x)
        <5>1. build = None /\ cache # None /\ cache.content <= state
          BY <3>4 DEF PageInv, StreamInv, Hit, Fits
        <5>2. x <= state /\ x <= cache.content
          BY <4>1, <5>1 DEF Contents
        <5> QED BY <5>1, <5>2 DEF Overtaken
      <4>3. shown[c] # None => shown[c] <= x
        BY <3>4, <4>1 DEF PageInv, PageAgrees, Overtaken
      <4>4. request' = [request EXCEPT
              ![c] = [phase |-> "answered", answer |-> Answer(c, x, TRUE), floor |-> announced]]
        BY <2>7, <3>4, <4>1 DEF Arrive
      <4> QED BY <3>2, <4>2, <4>3, <4>4
    <3>5. CASE ~OnlyLastKnown /\ ~Hit
      <4>1. request' = [request EXCEPT
              ![c] = [phase |-> "waiting", answer |-> None, floor |-> announced]]
        BY <2>7, <3>5 DEF Arrive
      <4> QED BY <1>10, <2>0, <3>1, <4>1
    <3> QED BY <3>3, <3>4, <3>5
  <2>8. CASE Headers(c)
    <3> DEFINE a == request[c].answer
    <3>1. /\ request[c].phase = "answered" /\ etag' = [etag EXCEPT ![c] = a.content]
          /\ UNCHANGED <<state, revision, cache, build, shown, torn>>
          /\ \/ /\ a.same
                /\ status' = [status EXCEPT ![c] = Freshness(a)]
                /\ request' = [request EXCEPT ![c] = NoRequest]
             \/ /\ ~a.same
                /\ request' = [request EXCEPT ![c].phase = "body"]
                /\ status' = status
      BY <2>8 DEF Headers
    <3>2. a \in Answers /\ a.content # None /\ PageAgrees(c) /\ etag'[c] = a.content
      BY <2>0, <3>1 DEF PageInv, Requests, Answers
    <3>3. shown'[c] # None => Overtaken(shown[c])'
      BY <3>1, <3>2 DEF PageAgrees, Overtaken, Hit
    <3>4. CASE a.same /\ request' = [request EXCEPT ![c] = NoRequest]
      <4>1. request'[c] = NoRequest
        BY <2>0, <3>4
      <4>2. etag'[c] = etag[c] /\ (~torn[c] => etag[c] = shown[c])
        BY <2>0, <3>1, <3>2, <3>4 DEF PageAgrees
      <4> QED BY <2>0, <3>1, <3>2, <3>3, <4>1, <4>2 DEF PageAgrees
    <3>5. CASE ~a.same /\ request' = [request EXCEPT ![c].phase = "body"] /\ status' = status
      <4>1. request'[c] = [request[c] EXCEPT !.phase = "body"]
        BY <2>0, <3>5
      <4>2. request'[c].phase = "body" /\ request'[c].answer = a
        BY <2>0, <4>1 DEF Requests
      <4>3. Overtaken(request[c].answer.content)'
        BY <2>0, <3>1, <3>2, <4>2 DEF PageAgrees, Overtaken, Hit
      <4> QED BY <2>0, <3>1, <3>2, <3>3, <3>5, <4>2, <4>3 DEF PageAgrees
    <3> QED BY <3>1, <3>4, <3>5
  <2>9. CASE Body(c)
    <3>1. /\ request[c].phase = "body"
          /\ UNCHANGED <<state, revision, cache, build, etag>>
          /\ shown' = [shown EXCEPT ![c] = request[c].answer.content]
          /\ torn' = [torn EXCEPT ![c] = FALSE]
          /\ status' = [status EXCEPT ![c] = Freshness(request[c].answer)]
          /\ request' = [request EXCEPT ![c] = NoRequest]
      BY <2>9 DEF Body
    <3> QED BY <2>0, <3>1 DEF PageInv, PageAgrees, Overtaken, Hit, Requests, Answers
  <2> QED BY <2>1, <2>2, <2>3, <2>4, <2>5, <2>6, <2>7, <2>8, <2>9 DEF Next, Page
<1> QED BY <1>1, <1>4, <1>5, <1>8, <1>12 DEF PageInv

LEMMA PageInit ==
  ASSUME Init PROVE PageInv
<1>1. StreamInv
  BY InitStream
<1> QED BY <1>1, StreamAssumption DEF Init, PageInv, PageAgrees, Hit, NoRequest

LEMMA PageInvHolds == Spec => []PageInv
BY PageInit, PageStep, PTL DEF Spec

\* A page that says its data is live shows the projection whose ETag it sends; only
\* a body torn after its ETag was taken (studio-projection.tsx) makes it show
\* another, and only until the next body arrives.
THEOREM LiveIsOnlyTheShown == Spec => []LiveIsShown
<1>1. PageInv => LiveIsShown
  BY DEF PageInv, PageAgrees, LiveIsShown
<1> QED BY <1>1, PageInvHolds, PTL

\* A page that says its view is live is never taken back to an older one, across
\* restarts, reconnections, last known snapshots and torn bodies, and has a view
\* unless its body was torn.
THEOREM LiveViewsNeverGoBack == Spec => LiveNeverGoesBack
<1>1. ASSUME PageInv, [Next]_vars, NEW c \in Clients, status'[c] = "LIVE"
      PROVE  /\ shown'[c] # None \/ torn'[c]
             /\ shown[c] = None \/ shown'[c] >= shown[c]
  <2>1. PageInv'
    BY <1>1, PageStep
  <2>2. shown'[c] # None \/ torn'[c]
    BY <1>1, <2>1 DEF PageInv, PageAgrees
  <2>3. CASE shown'[c] = shown[c]
    <3>1. shown[c] \in 0..MaxState \union {None}
      BY <1>1 DEF PageInv, StreamInv, TypeOK, PageTypes, Contents
    <3>2. shown[c] = None \/ shown[c] \in Int
      BY <3>1
    <3> QED BY <2>2, <2>3, <3>2
  <2>4. CASE shown'[c] # shown[c]
    <3>1. PICK d \in Clients : Body(d)
      BY <1>1, <2>4, Zenon DEF Next, Page, vars, pages, Mutate, Broadcast, Flush, Ready,
         BuildReads, BuildFinishes, BuildFails, Restart, Send, Arrive, Headers, Refused,
         Receive, Open, RequestFails, Lose
    <3>2. /\ shown' = [shown EXCEPT ![d] = request[d].answer.content]
          /\ status' = [status EXCEPT ![d] = Freshness(request[d].answer)]
          /\ request[d].phase = "body"
      BY <3>1 DEF Body
    <3>3. d = c /\ shown'[c] = request[c].answer.content
      BY <1>1, <2>4, <3>2 DEF PageInv, StreamInv, TypeOK, PageTypes
    <3>4. request[c].answer.live
      BY <1>1, <3>2, <3>3 DEF Freshness, PageInv, StreamInv, TypeOK, PageTypes
    <3>5. request[c].answer # None
      BY <1>1, <3>2, <3>3 DEF PageInv, StreamInv, TypeOK, RequestTypes
    <3>6. shown[c] # None => shown[c] <= request[c].answer.content
      BY <1>1, <3>4, <3>5 DEF PageInv, PageAgrees
    <3>7. shown[c] \in 0..MaxState \union {None} /\ request[c].answer.content \in 0..MaxState
      BY <1>1, <3>5 DEF PageInv, StreamInv, TypeOK, PageTypes, RequestTypes, Requests, Answers,
         Contents
    <3> QED BY <2>2, <3>3, <3>6, <3>7
  <2> QED BY <2>3, <2>4
<1>2. PageInv /\ [Next]_vars
        => [\A c \in Clients : status'[c] = "LIVE"
              => /\ shown'[c] # None \/ torn'[c]
                 /\ shown[c] = None \/ shown'[c] >= shown[c]]_vars
  BY <1>1
<1> QED BY <1>2, PageInvHolds, PTL DEF Spec, LiveNeverGoesBack
=============================================================================
