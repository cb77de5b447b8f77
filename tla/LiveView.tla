------------------------------ MODULE LiveView ------------------------------
(***************************************************************************)
(* What an operator's dashboard shows of one asset. Commits (a reasoning   *)
(* run, a fault investigation's timeline entry, an operator's own          *)
(* transition) leave outbox events; their dispatch invalidates the cached  *)
(* digital twin in Redis and publishes monitoring events over Pub/Sub; a   *)
(* listener thread fans these out to the queue of the browser's SSE        *)
(* stream; the browser then fetches the twin again, through the cache.     *)
(* While the stream is down the browser polls instead.                     *)
(*                                                                         *)
(* Data is abstracted to versions: how many runs, entries and transitions  *)
(* a twin has seen.                                                        *)
(***************************************************************************)
EXTENDS Integers, Sequences, FiniteSets, SequencesExt

CONSTANTS
    Req,                \* slots for requests that assemble a twin
    NoReq,              \* the browser waits for none of them
    MaxReadings,        \* bound: observations
    MaxCommits,         \* bound: runs, timeline entries and transitions
    MaxFaults           \* bound: outages of Redis and cuts of the SSE stream

ASSUME LiveViewAssumption ==
    /\ NoReq \notin Req
    /\ {MaxReadings, MaxCommits, MaxFaults} \subseteq Nat

VARIABLES
    db,             \* what is committed: readings, runs, timeline entries of fault
                    \* investigations, and the operator's moves
    bus,            \* events whose dispatch has not ended, oldest first
    stage,          \* the handler the head of bus is at
    redis,          \* is Redis up?
    faults,         \* outages and cuts so far
    cache,          \* the cached twin, or NoTwin
    listener,       \* the listener thread: off, subscribing or up
    stream,         \* the browser's SSE connection and its server side
    queue,          \* the stream's asyncio.Queue
    req,            \* req[q]: a GET of the twin in the API
    browser,        \* what the browser shows and waits for
    causes          \* history: what has kept an update from the browser

vars == <<db, bus, stage, redis, faults, cache, listener, stream, queue,
          req, browser, causes>>

----------------------------------------------------------------------------
(* Twins.                                                                  *)

(* What _assemble reads, in its order; the recommendation, its             *)
(* investigation and the timeline count as one read.                       *)
Field == <<"latest", "state", "advice">>

Blank == [latest |-> 0, state |-> 0, advice |-> 0, move |-> 0, entry |-> 0]
NoTwin == [Blank EXCEPT !.latest = -1]

(* One read of _assemble: each sees what is committed by then. The state   *)
(* and the recommendation look the latest run up again.                    *)
Read(t, f) ==
    CASE f = "latest" -> [t EXCEPT !.latest = db.run]
      [] f = "state" -> [t EXCEPT !.state = db.run]
      [] f = "advice" -> [t EXCEPT !.advice = db.run, !.move = db.move, !.entry = db.entry]

----------------------------------------------------------------------------
(* The state.                                                              *)

Kind == {"reading", "run", "entry", "move"}
MonitoringType == {"asset_updated", "fault_investigation_updated"}
Stages == {"invalidate", "publish"}

Idle == [at |-> "idle", read |-> 0, twin |-> Blank]

TypeOK ==
    /\ db \in [reading : 0 .. MaxReadings, run : 1 .. 1 + MaxCommits,
               entry : 0 .. MaxCommits, move : 0 .. MaxCommits]
    /\ bus \in Seq(Kind) /\ stage \in Stages
    /\ redis \in BOOLEAN /\ faults \in 0 .. MaxFaults
    /\ cache = NoTwin \/ cache.latest \in 1 .. 1 + MaxCommits
    /\ queue \in Seq(MonitoringType)
    /\ listener \in {"off", "subscribing", "up"}
    /\ stream \in [state : {"connecting", "connected", "disconnected"},
                   opened : BOOLEAN, subscribed : BOOLEAN]
    /\ \A q \in Req : /\ req[q].at \in {"idle", "get", "read", "set", "reply"}
                      /\ req[q].read \in 0 .. Len(Field)
    /\ browser.awaits \in Req \cup {NoReq}

Init ==
    /\ db = [reading |-> 0, run |-> 1, entry |-> 0, move |-> 0]
    /\ bus = <<>> /\ stage = "invalidate"
    /\ redis = TRUE /\ faults = 0
    /\ cache = NoTwin
    /\ listener = "off"
    /\ stream = [state |-> "connecting", opened |-> FALSE, subscribed |-> FALSE]
    /\ queue = <<>>
    /\ req = [q \in Req |-> Idle]
    /\ browser = [twin |-> NoTwin, awaits |-> NoReq, posting |-> FALSE]
    /\ causes = {}

----------------------------------------------------------------------------
(* Commits, each with its outbox event.                                    *)

MayCommit == (db.run - 1) + db.entry + db.move < MaxCommits

CommitReading ==
    /\ db.reading < MaxReadings
    /\ db' = [db EXCEPT !.reading = @ + 1]
    /\ bus' = Append(bus, "reading")
    /\ UNCHANGED <<faults, stage, redis, cache, listener, stream, queue, req,
                   browser, causes>>

CommitRun ==
    /\ MayCommit
    /\ db' = [db EXCEPT !.run = @ + 1]
    /\ bus' = Append(bus, "run")
    /\ UNCHANGED <<faults, stage, redis, cache, listener, stream, queue, req,
                   browser, causes>>

(* The reasoning bridge writes an ai_fault_* entry into the timeline. *)
CommitEntry ==
    /\ MayCommit
    /\ db' = [db EXCEPT !.entry = @ + 1]
    /\ bus' = Append(bus, "entry")
    /\ UNCHANGED <<faults, stage, redis, cache, listener, stream, queue, req,
                   browser, causes>>

(* useInvestigationTransition, its POST for the recommendation shown, which *)
(* later runs may have left as it was (its id is a hash of its content).    *)
CommitMove ==
    /\ MayCommit /\ ~ browser.posting
    /\ browser.twin # NoTwin
    /\ db' = [db EXCEPT !.move = @ + 1]
    /\ bus' = Append(bus, "move")
    /\ browser' = [browser EXCEPT !.posting = TRUE]
    /\ UNCHANGED <<faults, stage, redis, cache, listener, stream, queue, req, causes>>

----------------------------------------------------------------------------
(* Dispatch: the handlers of the head of the outbox, in the order in which *)
(* bootstrap registers them: the cache's before the monitoring source's.    *)

(* The types whose handler drops the cached twin. *)
Invalidating == {"run", "move"}

(* The monitoring events of a type. (A run's first one, run_updated, is    *)
(* for queries other than the twin's and is left out.)                     *)
MonitoringEvents(k) ==
    CASE k \in {"reading", "run"} -> <<"asset_updated">>
      [] k = "entry" -> <<"fault_investigation_updated">>
      [] k = "move" -> <<>>

(* RedisDigitalTwinCache.invalidate, whose failure is swallowed. *)
Invalidate ==
    /\ bus # <<>> /\ stage = "invalidate"
    /\ cache' = IF Head(bus) \in Invalidating /\ redis THEN NoTwin ELSE cache
    /\ causes' = causes \cup
         (IF Head(bus) \in Invalidating /\ ~ redis THEN {"not invalidated"} ELSE {})
    /\ stage' = "publish"
    /\ UNCHANGED <<db, bus, faults, redis, listener, stream, queue, req, browser>>

(* _fan_out, in the listener thread: to the queues registered. *)
FanOut(events) ==
    IF redis /\ listener = "up" /\ stream.subscribed THEN queue \o events ELSE queue

(* RedisMonitoringEventSource.publish, whose failure is swallowed too:     *)
(* Pub/Sub keeps nothing for a listener or a queue that is not there. (The *)
(* time between the two threads is part of the time in the queue.)         *)
Publish ==
    /\ bus # <<>> /\ stage = "publish"
    /\ LET events == MonitoringEvents(Head(bus))
       IN /\ queue' = FanOut(events)
          /\ causes' = causes \cup
               (IF events # <<>> /\ FanOut(events) = queue THEN {"lost"} ELSE {})
    /\ bus' = Tail(bus) /\ stage' = "invalidate"
    /\ UNCHANGED <<db, faults, redis, cache, listener, stream, req, browser>>

----------------------------------------------------------------------------
(* Redis and the listener thread.                                          *)

RedisDown ==
    /\ redis /\ faults < MaxFaults
    /\ redis' = FALSE /\ faults' = faults + 1
    /\ UNCHANGED <<db, bus, stage, cache, listener, stream, queue, req,
                   browser, causes>>

(* The cache is volatile; ttl_seconds may also run out (Expire). *)
RedisUp ==
    /\ ~ redis
    /\ redis' = TRUE
    /\ UNCHANGED <<db, bus, faults, stage, cache, listener, stream, queue, req,
                   browser, causes>>

Expire ==
    /\ cache # NoTwin
    /\ cache' = NoTwin
    /\ UNCHANGED <<db, bus, faults, stage, redis, listener, stream, queue, req,
                   browser, causes>>

(* _listen_forever: pubsub.subscribe. *)
Listen ==
    /\ listener = "subscribing" /\ redis
    /\ listener' = "up"
    /\ UNCHANGED <<db, bus, faults, stage, redis, cache, stream, queue, req,
                   browser, causes>>

(* _listen_forever: a RedisError closes the connection. *)
LoseListener ==
    /\ listener = "up" /\ ~ redis
    /\ listener' = "subscribing"
    /\ UNCHANGED <<db, bus, faults, stage, redis, cache, stream, queue, req,
                   browser, causes>>

----------------------------------------------------------------------------
(* The twin service: GET /assets/{id}/digital-twin.                        *)

Free == {q \in Req : req[q].at = "idle"}

Refetch(q) == req' = [req EXCEPT ![q] = [Idle EXCEPT !.at = "get"]]

(* get_for_asset, its cache.get: a hit, a miss or a swallowed failure. *)
CacheGet(q) ==
    /\ req[q].at = "get"
    /\ req' = [req EXCEPT ![q] =
         IF redis /\ cache # NoTwin
         THEN [at |-> "reply", read |-> 0, twin |-> cache]
         ELSE [Idle EXCEPT !.at = "read"]]
    /\ UNCHANGED <<db, bus, faults, stage, redis, cache, listener, stream, queue,
                   browser, causes>>

(* _assemble, its next query. (Before an asset's first run it answers 404, *)
(* which changes nothing here: the asset has been assessed once.)          *)
Assemble(q) ==
    /\ req[q].at = "read"
    /\ req' = [req EXCEPT ![q] =
         LET n == req[q].read + 1
             twin == Read(req[q].twin, Field[n])
         IN IF n = Len(Field) THEN [at |-> "set", read |-> 0, twin |-> twin]
            ELSE [at |-> "read", read |-> n, twin |-> twin]]
    /\ UNCHANGED <<db, bus, faults, stage, redis, cache, listener, stream, queue,
                   browser, causes>>

(* The twin has missed a run or a transition that is committed by now. *)
Behind(t) == t.latest < db.run \/ t.state < db.run \/ t.advice < db.run \/ t.move < db.move

(* cache.set, with the TTL: whatever has happened since the reads. *)
CacheSet(q) ==
    /\ req[q].at = "set"
    /\ cache' = IF redis THEN req[q].twin ELSE cache
    /\ causes' = causes \cup (IF redis /\ Behind(req[q].twin) THEN {"set late"} ELSE {})
    /\ req' = [req EXCEPT ![q].at = "reply"]
    /\ UNCHANGED <<db, bus, faults, stage, redis, listener, stream, queue, browser>>

----------------------------------------------------------------------------
(* The browser.                                                            *)

(* The twin's query is invalidated: it is fetched again, unless a fetch is *)
(* in flight, which is left alone (NO_RESTART_IN_FLIGHT).                  *)
Refresh(b) ==
    \/ /\ b.awaits # NoReq
       /\ browser' = b
       /\ causes' = causes \cup {"in flight"}
       /\ UNCHANGED req
    \/ /\ b.awaits = NoReq
       /\ \E q \in Free : Refetch(q) /\ browser' = [b EXCEPT !.awaits = q]
       /\ UNCHANGED causes

(* The response arrives, for the fetch the browser still waits for. *)
Reply(q) ==
    /\ req[q].at = "reply"
    /\ req' = [req EXCEPT ![q] = Idle]
    /\ browser' = IF browser.awaits # q THEN browser
                  ELSE [browser EXCEPT !.awaits = NoReq,
                                       !.twin = req[q].twin]
    /\ UNCHANGED <<db, bus, faults, stage, redis, cache, listener, stream, queue,
                   causes>>

(* Mutant: polling stops for good when the stream is given up. *)
PollingUntilGivenUp == stream.state = "connecting"

(* refetchInterval is false while the stream is connected. *)
Polling == stream.state # "connected"

(* The first fetch, and the fallback polling. *)
Poll ==
    /\ Polling /\ browser.awaits = NoReq
    /\ Refresh(browser)
    /\ UNCHANGED <<db, bus, faults, stage, redis, cache, listener, stream, queue>>

(* EventSource: the response headers arrive. A reconnect invalidates all,  *)
(* the first connection nothing.                                           *)
Open ==
    /\ stream.state = "connecting" /\ ~ stream.subscribed
    /\ stream' = [stream EXCEPT !.state = "connected", !.opened = TRUE]
    /\ IF stream.opened THEN Refresh(browser)
       ELSE UNCHANGED <<browser, req, causes>>
    /\ UNCHANGED <<db, bus, faults, stage, redis, cache, listener, queue>>

(* The generator starts: subscribe, and the listener with the first. *)
Subscribe ==
    /\ stream.state = "connected" /\ ~ stream.subscribed
    /\ stream' = [stream EXCEPT !.subscribed = TRUE]
    /\ queue' = <<>>
    /\ listener' = IF listener = "off" THEN "subscribing" ELSE listener
    /\ UNCHANGED <<db, bus, faults, stage, redis, cache, req, browser, causes>>

(* The connection breaks; unsubscribe drops the queue. EventSource retries *)
(* after a broken connection and gives up after an error status.           *)
Cut ==
    /\ stream.state = "connected" /\ faults < MaxFaults
    /\ stream' = [stream EXCEPT !.state = "connecting", !.subscribed = FALSE]
    /\ faults' = faults + 1
    /\ queue' = <<>>
    /\ causes' = causes \cup (IF queue = <<>> THEN {} ELSE {"lost"})
    /\ UNCHANGED <<db, bus, stage, redis, cache, listener, req, browser>>

GiveUp ==
    /\ stream.state = "connecting"
    /\ stream' = [stream EXCEPT !.state = "disconnected"]
    /\ UNCHANGED <<db, bus, faults, stage, redis, cache, listener, queue, req,
                   browser, causes>>

(* Mutant: a run's event does not touch the twin. *)
TouchesTwinOnFaultsOnly(type) == type = "fault_investigation_updated"

(* Whether dispatch invalidates the twin's query for a monitoring event. *)
TouchesTwin(type) == type \in {"asset_updated", "fault_investigation_updated"}

(* stream_monitoring_sse_events yields an event; the browser dispatches it. *)
Dispatch ==
    /\ stream.subscribed /\ queue # <<>>
    /\ queue' = Tail(queue)
    /\ IF TouchesTwin(Head(queue)) THEN Refresh(browser)
       ELSE UNCHANGED <<browser, req, causes>>
    /\ UNCHANGED <<db, bus, faults, stage, redis, cache, listener, stream>>

(* Mutant: the fetch in flight is not cancelled. *)
MoveConfirmedOverFetch ==
    /\ browser.posting /\ ~ Contains(bus, "move")
    /\ \E q \in Free :
         /\ IF browser.awaits = NoReq THEN Refetch(q) ELSE UNCHANGED req
         /\ browser' = [browser EXCEPT !.posting = FALSE,
                                       !.awaits = IF @ = NoReq THEN q ELSE @,
                                       !.twin.move = db.move]
    /\ UNCHANGED <<db, bus, faults, stage, redis, cache, listener, stream, queue,
                   causes>>

(* onSuccess of the operator's transition, once its event is dispatched: a *)
(* fetch in flight is cancelled, in the browser only, the confirmed result *)
(* is written over what is shown, and the twin is fetched again.           *)
MoveConfirmed ==
    /\ browser.posting /\ ~ Contains(bus, "move")
    /\ \E q \in Free :
         /\ Refetch(q)
         /\ browser' = [browser EXCEPT !.posting = FALSE, !.awaits = q,
                                       !.twin.move = db.move]
    /\ UNCHANGED <<db, bus, faults, stage, redis, cache, listener, stream, queue,
                   causes>>

----------------------------------------------------------------------------
Commits == CommitReading \/ CommitRun \/ CommitEntry \/ CommitMove
Handlers == Invalidate \/ Publish
Server(q) == CacheGet(q) \/ Assemble(q) \/ CacheSet(q) \/ Reply(q)
Faults == RedisDown \/ LoseListener \/ Cut \/ GiveUp

Next ==
    \/ Commits \/ Handlers \/ Faults
    \/ RedisUp \/ Expire \/ Listen
    \/ \E q \in Req : Server(q)
    \/ Poll \/ Open \/ Subscribe \/ Dispatch \/ MoveConfirmed

(* Every process goes on with what it has begun, the poll timer and the    *)
(* TTL keep running, and Redis comes back. Nothing is assumed of commits,  *)
(* of other clients, of reconnections or of faults.                        *)
Fairness ==
    /\ WF_vars(Handlers) /\ WF_vars(RedisUp) /\ WF_vars(Expire)
    /\ WF_vars(Listen)
    /\ \A q \in Req : WF_vars(Server(q))
    /\ WF_vars(Poll) /\ WF_vars(Subscribe) /\ WF_vars(Dispatch)
    /\ SF_vars(MoveConfirmed)

Spec == Init /\ [][Next]_vars /\ Fairness

----------------------------------------------------------------------------
Current == [latest |-> db.run, state |-> db.run, advice |-> db.run,
            move |-> db.move, entry |-> db.entry]

(* Nothing is under way between the database and the browser. *)
Quiet ==
    /\ bus = <<>> /\ queue = <<>>
    /\ \A q \in Req : req[q].at = "idle"
    /\ ~ browser.posting

(* A twin's run id may lag behind its state and recommendation, which look *)
(* the run up later; it never leads (digital_twin_service.py:83-98).       *)
TwinsLagInOrder ==
    \A t \in {cache, browser.twin} :
      t # NoTwin => 1 <= t.latest /\ t.latest <= t.state /\ t.state <= t.advice

(* Why a connected and quiet dashboard is behind a run or a transition. *)
StaleHasCause ==
    (Quiet /\ stream.subscribed /\ listener = "up" /\ browser.twin # NoTwin)
    => \/ browser.twin.advice = db.run /\ browser.twin.move = db.move
       \/ causes # {}

(***************************************************************************)
(* What the dashboard shows is explained. A twin is torn in one direction  *)
(* only, and a dashboard that is connected, quiet and behind a run or a    *)
(* transition has one of these reasons: an event was lost on the way or    *)
(* came while a fetch was in flight (monitoringEventDispatcher.ts:4-10),   *)
(* an invalidation failed, or a twin was cached after the invalidation     *)
(* that should have dropped it (digital_twin_service.py:73).               *)
(***************************************************************************)
ViewIsExplained == TypeOK /\ TwinsLagInOrder /\ StaleHasCause

(***************************************************************************)
(* "A fetch that started before this transition committed can resolve      *)
(* afterwards and clobber it" (useInvestigationTransition.ts:28-32): the   *)
(* cancelled fetch does not. A transition confirmed to the operator is     *)
(* lost again only to a twin that was cached too late or not invalidated.  *)
(***************************************************************************)
ConfirmedMoveStays ==
    [][~ browser.posting /\ browser'.twin.move < browser.twin.move =>
         causes \cap {"set late", "not invalidated"} # {}]_vars

(***************************************************************************)
(* Without the stream the dashboard still catches up: polling and the TTL  *)
(* of the cache in the end bring it everything that is committed, fault    *)
(* investigation entries included, whose event leaves the cache alone      *)
(* (useMonitoringDashboard.ts:63-186).                                     *)
(***************************************************************************)
PollingCatchesUp ==
    <>[](stream.state # "connected") =>
      <>[](\A f \in DOMAIN Current : browser.twin[f] = Current[f])
=============================================================================
