--------------------------- MODULE LiveViewProofs ---------------------------
(***************************************************************************)
(* ViewIsExplained and ConfirmedMoveStays hold for any number of requests, *)
(* commits and faults. What Fairness adds is not used.                     *)
(***************************************************************************)
EXTENDS LiveView, TLAPS

Twin == [latest : Int, state : Int, advice : Int, move : Int, entry : Int]
Request == [at : {"idle", "get", "read", "set", "reply"}, read : 0 .. 2, twin : Twin]
Dashboard == [twin : Twin, awaits : Req \cup {NoReq}, posting : BOOLEAN]

Database == [reading : 0 .. MaxReadings, run : 1 .. 1 + MaxCommits,
             entry : 0 .. MaxCommits, move : 0 .. MaxCommits]

Typed ==
    /\ db \in Database
    /\ (db.run - 1) + db.entry + db.move <= MaxCommits
    /\ bus \in Seq(Kind) /\ stage \in Stages
    /\ redis \in BOOLEAN /\ faults \in 0 .. MaxFaults
    /\ cache \in Twin
    /\ queue \in Seq(MonitoringType)
    /\ listener \in {"off", "subscribing", "up"}
    /\ stream \in [state : {"connecting", "connected", "disconnected"},
                   opened : BOOLEAN, subscribed : BOOLEAN]
    /\ req \in [Req -> Request]
    /\ browser \in Dashboard

(* A twin that is complete: its reads came in order, none ahead of the     *)
(* database.                                                               *)
Assembled(t) ==
    /\ 1 <= t.latest /\ t.latest <= t.state /\ t.state <= t.advice /\ t.advice <= db.run
    /\ 0 <= t.move /\ t.move <= db.move

(* A twin of which n reads are done. *)
Begun(t, n) ==
    /\ n >= 1 => 1 <= t.latest /\ t.latest <= db.run
    /\ n = 2 => t.latest <= t.state /\ t.state <= db.run

TwinsAreOrdered ==
    /\ cache # NoTwin => Assembled(cache)
    /\ browser.twin # NoTwin => Assembled(browser.twin)
    /\ \A q \in Req : /\ req[q].at \in {"set", "reply"} => Assembled(req[q].twin)
                      /\ req[q].at = "read" => Begun(req[q].twin, req[q].read)

(* Bookkeeping of the dispatch, the stream and the browser. *)
Bookkeeping ==
    /\ bus = <<>> => stage = "invalidate"
    /\ ~ stream.subscribed => queue = <<>>
    /\ Contains(bus, "move") => browser.posting
    /\ browser.posting => browser.twin # NoTwin
    /\ browser.awaits # NoReq => req[browser.awaits].at # "idle"

(* An event of kind k is still to be handled by the cache. *)
Pending(k) ==
    /\ bus # <<>>
    /\ IF stage = "invalidate" THEN Contains(bus, k) ELSE Contains(Tail(bus), k)

CacheTrusted == causes \cap {"set late", "not invalidated"} = {}

(* A cached twin that is behind will be dropped, unless the cache has been *)
(* let down.                                                               *)
CacheWillBeDropped ==
    CacheTrusted /\ cache # NoTwin =>
      /\ cache.advice < db.run => Pending("run")
      /\ cache.move < db.move => Pending("move")

(* What the browser shows of the operator's moves, and what it waits for,  *)
(* is up to date while no transition is posted.                            *)
MovesAreShown ==
    CacheTrusted /\ ~ browser.posting =>
      /\ browser.twin # NoTwin => browser.twin.move = db.move
      /\ browser.awaits # NoReq /\ req[browser.awaits].at \in {"set", "reply"} =>
           req[browser.awaits].twin.move = db.move

(* The news of a run is on its way to the browser. *)
Heralded == Contains(bus, "run") \/ queue # <<>>

RunsAreHeralded ==
    causes = {} =>
      /\ browser.awaits = NoReq /\ browser.twin # NoTwin /\ browser.twin.advice < db.run => Heralded
      /\ browser.awaits # NoReq /\ req[browser.awaits].at \in {"set", "reply"}
           /\ req[browser.awaits].twin.advice < db.run => Heralded

ViewInv ==
    /\ Typed /\ TwinsAreOrdered /\ Bookkeeping
    /\ CacheWillBeDropped /\ MovesAreShown /\ RunsAreHeralded

----------------------------------------------------------------------------
(* Sequences and twins.                                                    *)

(* What a queue contains after an event is appended. *)
LEMMA ContainsAppend ==
    ASSUME NEW S, NEW b \in Seq(S), NEW e \in S, NEW k
    PROVE  /\ Append(b, e) \in Seq(S) /\ Append(b, e) # <<>>
           /\ Contains(Append(b, e), k) <=> Contains(b, k) \/ e = k
  <1>1. /\ Append(b, e) \in Seq(S) /\ Len(b) \in Nat
        /\ Len(Append(b, e)) = Len(b) + 1 /\ Append(b, e)[Len(b) + 1] = e
        /\ \A i \in 1 .. Len(b) : Append(b, e)[i] = b[i]
    OBVIOUS
  <1>2. Append(b, e) # <<>>
    <2>1. Len(<<>>) = 0
      OBVIOUS
    <2> QED BY <1>1, <2>1
  <1>3. Contains(Append(b, e), k) <=> Contains(b, k) \/ e = k
    BY <1>1 DEF Contains
  <1> QED BY <1>1, <1>2, <1>3

(* What is behind its head after that. *)
LEMMA TailAppend ==
    ASSUME NEW S, NEW b \in Seq(S), NEW e \in S, b # <<>>
    PROVE  Tail(Append(b, e)) = Append(Tail(b), e) /\ Tail(b) \in Seq(S)
  OBVIOUS

(* What a queue contains is at its head or behind it. *)
LEMMA ContainsHead ==
    ASSUME NEW S, NEW b \in Seq(S), b # <<>>, NEW k
    PROVE  /\ Head(b) \in S /\ Tail(b) \in Seq(S)
           /\ Contains(b, k) <=> Head(b) = k \/ Contains(Tail(b), k)
           /\ Contains(b, k) => b # <<>>
  <1>1. Head(b) \in S /\ Tail(b) \in Seq(S)
    OBVIOUS
  <1>2. /\ Len(b) \in Nat /\ Len(b) >= 1 /\ Len(Tail(b)) = Len(b) - 1 /\ b[1] = Head(b)
        /\ \A i \in 1 .. Len(Tail(b)) : Tail(b)[i] = b[i + 1]
    OBVIOUS
  <1>3. Contains(b, k) => Head(b) = k \/ Contains(Tail(b), k)
    <2> SUFFICES ASSUME NEW i \in 1 .. Len(b), b[i] = k, i # 1
                 PROVE  Contains(Tail(b), k)
      BY <1>2 DEF Contains
    <2>1. i - 1 \in 1 .. Len(Tail(b)) /\ Tail(b)[i - 1] = k
      BY <1>2
    <2> QED BY <2>1 DEF Contains
  <1>4. Head(b) = k \/ Contains(Tail(b), k) => Contains(b, k)
    <2>1. Head(b) = k => Contains(b, k)
      BY <1>2 DEF Contains
    <2>2. ASSUME NEW i \in 1 .. Len(Tail(b)), Tail(b)[i] = k
          PROVE  Contains(b, k)
      <3>1. i + 1 \in 1 .. Len(b) /\ b[i + 1] = k
        BY <1>2, <2>2
      <3> QED BY <3>1 DEF Contains
    <2> QED BY <2>1, <2>2 DEF Contains
  <1> QED BY <1>1, <1>3, <1>4

(* An empty queue contains nothing. *)
LEMMA ContainsNothing == \A k : ~ Contains(<<>>, k)
  BY DEF Contains

(* A read changes a twin in the field that is read. *)
LEMMA TwinFacts ==
    /\ Blank \in Twin /\ NoTwin \in Twin /\ NoTwin.latest = -1
    /\ NoTwin.move = 0
    /\ \A t \in Twin : 1 <= t.latest => t # NoTwin
  BY DEF Blank, NoTwin, Twin

(* At the start nothing is shown, cached or under way. *)
LEMMA ViewInitInv == Init => ViewInv
  <1> SUFFICES ASSUME Init PROVE ViewInv
    OBVIOUS
  <1>1. {MaxReadings, MaxCommits, MaxFaults} \subseteq Nat /\ NoReq \notin Req
    BY LiveViewAssumption
  <1>2. Typed
    <2>1. /\ db \in Database
          /\ (db.run - 1) + db.entry + db.move <= MaxCommits
      BY <1>1 DEF Init, Database
    <2>2. bus \in Seq(Kind) /\ queue \in Seq(MonitoringType) /\ stage \in Stages
      BY DEF Init, Stages
    <2>3. faults \in 0 .. MaxFaults
      BY <1>1 DEF Init
    <2>4. req \in [Req -> Request]
      BY TwinFacts DEF Init, Idle, Request
    <2>5. browser \in Dashboard
      BY TwinFacts DEF Init, Dashboard
    <2> QED BY <2>1, <2>2, <2>3, <2>4, <2>5, TwinFacts DEF Typed, Init
  <1>3. TwinsAreOrdered
    BY DEF Init, TwinsAreOrdered, Idle
  <1>4. Bookkeeping
    BY ContainsNothing DEF Init, Bookkeeping
  <1>5. CacheWillBeDropped /\ MovesAreShown /\ RunsAreHeralded
    BY DEF Init, CacheWillBeDropped, MovesAreShown, RunsAreHeralded
  <1> QED BY <1>2, <1>3, <1>4, <1>5 DEF ViewInv

----------------------------------------------------------------------------
(* Redis, the listener and the TTL.                                        *)

(* A step that touches neither the data, nor the events, nor the browser;  *)
(* it may lose what is cached.                                             *)
Aside ==
    /\ UNCHANGED <<db, bus, stage, queue, req, browser, causes>>
    /\ cache' \in {cache, NoTwin} /\ redis' \in BOOLEAN
    /\ faults' \in 0 .. MaxFaults
    /\ listener' \in {"off", "subscribing", "up"}
    /\ stream' \in [state : {"connecting", "connected", "disconnected"},
                    opened : BOOLEAN, subscribed : BOOLEAN]
    /\ stream'.subscribed = stream.subscribed

(* Such a step keeps the invariant. *)
LEMMA AsideInv == ViewInv /\ Aside => ViewInv'
  <1> SUFFICES ASSUME ViewInv, Aside PROVE ViewInv'
    OBVIOUS
  <1> USE DEF ViewInv
  <1>1. /\ UNCHANGED <<db, bus, stage, queue, req, browser, causes>>
        /\ cache' \in {cache, NoTwin} /\ stream'.subscribed = stream.subscribed
    BY DEF Aside
  <1>2. Typed'
    BY TwinFacts DEF Typed, Aside
  <1>3. TwinsAreOrdered'
    BY <1>1 DEF TwinsAreOrdered, Assembled, Begun
  <1>4. Bookkeeping'
    BY <1>1 DEF Bookkeeping
  <1>5. CacheWillBeDropped'
    BY <1>1 DEF CacheWillBeDropped, CacheTrusted, Pending
  <1>6. MovesAreShown' /\ RunsAreHeralded'
    BY <1>1 DEF MovesAreShown, RunsAreHeralded, Heralded, CacheTrusted
  <1> QED BY <1>2, <1>3, <1>4, <1>5, <1>6

(* Outages, recoveries, the TTL, the listener thread and a stream given up *)
(* are such steps.                                                         *)
LEMMA StepsAside ==
    ASSUME ViewInv,
           RedisDown \/ RedisUp \/ Expire \/ Listen \/ LoseListener \/ GiveUp \/ UNCHANGED vars
    PROVE  Aside
  <1>1. /\ redis \in BOOLEAN /\ faults \in 0 .. MaxFaults /\ MaxFaults \in Nat
        /\ listener \in {"off", "subscribing", "up"}
        /\ stream \in [state : {"connecting", "connected", "disconnected"},
                       opened : BOOLEAN, subscribed : BOOLEAN]
    BY LiveViewAssumption DEF ViewInv, Typed
  <1>2. CASE RedisDown
    <2>1. faults' \in 0 .. MaxFaults
      BY <1>1, <1>2 DEF RedisDown
    <2> QED BY <1>1, <1>2, <2>1 DEF RedisDown, Aside
  <1>3. CASE RedisUp \/ Expire \/ UNCHANGED vars
    BY <1>1, <1>3 DEF RedisUp, Expire, vars, Aside
  <1>4. CASE Listen \/ LoseListener
    BY <1>1, <1>4 DEF Listen, LoseListener, Aside
  <1>5. CASE GiveUp
    BY <1>1, <1>5 DEF GiveUp, Aside
  <1> QED BY <1>2, <1>3, <1>4, <1>5

----------------------------------------------------------------------------
(* Commits and their events.                                               *)

(* A commit of kind k: its event is last in line, and a run or a move is   *)
(* counted. A move is posted by the browser.                               *)
Commit(k) ==
    /\ UNCHANGED <<faults, stage, redis, cache, listener, stream, queue, req, causes>>
    /\ bus' = Append(bus, k)
    /\ db'.run = IF k = "run" THEN db.run + 1 ELSE db.run
    /\ db'.move = IF k = "move" THEN db.move + 1 ELSE db.move
    /\ browser'.twin = browser.twin /\ browser'.awaits = browser.awaits
    /\ browser'.posting = (browser.posting \/ k = "move")
    /\ k = "move" => browser.twin # NoTwin

(* A commit makes everything behind it, and leaves the event that says so. *)
LEMMA CommitInv ==
    ASSUME ViewInv, NEW k \in Kind, Commit(k), Typed'
    PROVE  ViewInv'
  <1> USE DEF ViewInv
  <1>1. /\ UNCHANGED <<faults, stage, redis, cache, listener, stream, queue, req, causes>>
        /\ bus' = Append(bus, k)
        /\ browser'.twin = browser.twin /\ browser'.awaits = browser.awaits
    BY DEF Commit
  <1>2. /\ db.run \in Int /\ db.move \in Int /\ db'.run \in Int /\ db'.move \in Int
        /\ db.run <= db'.run /\ db.move <= db'.move
        /\ k # "run" => db'.run = db.run
        /\ k # "move" => db'.move = db.move
    <2>1. db.run \in Int /\ db.move \in Int /\ MaxCommits \in Nat
      BY LiveViewAssumption DEF Typed, Database
    <2>2. /\ db'.run = IF k = "run" THEN db.run + 1 ELSE db.run
          /\ db'.move = IF k = "move" THEN db.move + 1 ELSE db.move
      BY DEF Commit
    <2>3. db'.run \in {db.run, db.run + 1} /\ db'.move \in {db.move, db.move + 1}
      BY <2>2
    <2> QED BY <2>1, <2>2, <2>3
  <1>3. bus \in Seq(Kind) /\ bus' # <<>>
    <2>1. bus \in Seq(Kind)
      BY DEF Typed
    <2> QED BY <1>1, <2>1, ContainsAppend
  <1>4. \A e : Contains(bus', e) <=> Contains(bus, e) \/ k = e
    BY <1>1, <1>3, ContainsAppend
  <1>5. \A e : Pending(e)' <=> Pending(e) \/ k = e
    <2> SUFFICES ASSUME NEW e PROVE Pending(e)' <=> Pending(e) \/ k = e
      OBVIOUS
    <2>1. CASE stage = "invalidate"
      <3>1. bus = <<>> => ~ Contains(bus, e)
        BY ContainsNothing
      <3> QED BY <1>1, <1>3, <1>4, <2>1, <3>1 DEF Pending
    <2>2. CASE stage # "invalidate"
      <3>1. bus # <<>>
        BY <2>2 DEF Bookkeeping
      <3> DEFINE rest == Tail(bus)
      <3>2. Tail(bus') = Append(rest, k) /\ rest \in Seq(Kind)
        BY <1>1, <1>3, <3>1, TailAppend
      <3> HIDE DEF rest
      <3>3. Contains(Append(rest, k), e) <=> Contains(rest, e) \/ k = e
        BY <3>2, ContainsAppend
      <3>4. Contains(Tail(bus'), e) <=> Contains(Tail(bus), e) \/ k = e
        BY <3>2, <3>3 DEF rest
      <3> QED BY <1>1, <1>3, <2>2, <3>1, <3>4 DEF Pending
    <2> QED BY <2>1, <2>2
  <1>6. \A t \in Twin : Assembled(t) => Assembled(t)'
    BY <1>2 DEF Assembled, Twin
  <1>7. TwinsAreOrdered'
    <2>1. cache \in Twin /\ browser.twin \in Twin /\ \A q \in Req : req[q].twin \in Twin
      BY DEF Typed, Request, Dashboard
    <2>2. \A q \in Req : Begun(req[q].twin, req[q].read) => Begun(req[q].twin, req[q].read)'
      <3> SUFFICES ASSUME NEW q \in Req, Begun(req[q].twin, req[q].read)
                   PROVE  Begun(req[q].twin, req[q].read)'
        OBVIOUS
      <3>1. req[q].twin.latest \in Int /\ req[q].twin.state \in Int /\ req' = req
        BY <1>1, <2>1 DEF Twin
      <3> QED BY <1>2, <3>1 DEF Begun
    <2> QED BY <1>1, <1>6, <2>1, <2>2 DEF TwinsAreOrdered
  <1>8. Bookkeeping'
    BY <1>1, <1>3, <1>4 DEF Bookkeeping, Commit
  <1>9. CacheWillBeDropped'
    BY <1>1, <1>2, <1>5 DEF CacheWillBeDropped, CacheTrusted
  <1>10. MovesAreShown'
    <2>1. browser'.posting \/ (k # "move" /\ ~ browser.posting)
      BY DEF Commit
    <2> QED BY <1>1, <1>2, <2>1 DEF MovesAreShown, CacheTrusted
  <1>11. RunsAreHeralded'
    BY <1>1, <1>2, <1>4 DEF RunsAreHeralded, Heralded
  <1> QED BY <1>7, <1>8, <1>9, <1>10, <1>11

(* Readings, runs, timeline entries and transitions are such commits. *)
LEMMA CommitsInv == ViewInv /\ Commits => ViewInv'
  <1> SUFFICES ASSUME ViewInv, Commits PROVE ViewInv'
    OBVIOUS
  <1>1. /\ db \in Database /\ (db.run - 1) + db.entry + db.move <= MaxCommits
        /\ bus \in Seq(Kind) /\ browser \in Dashboard
    BY DEF ViewInv, Typed
  <1>2. \A k \in Kind : Append(bus, k) \in Seq(Kind)
    BY <1>1
  <1>3. {"reading", "run", "entry", "move"} \subseteq Kind
    BY DEF Kind
  <1>4. /\ db.reading \in 0 .. MaxReadings /\ db.run \in 1 .. 1 + MaxCommits
        /\ db.entry \in 0 .. MaxCommits /\ db.move \in 0 .. MaxCommits
        /\ MaxReadings \in Nat /\ MaxCommits \in Nat
    BY <1>1, LiveViewAssumption DEF Database
  <1>5. CASE CommitReading
    <2>1. db.reading + 1 \in 0 .. MaxReadings /\ (db.run - 1) + db.entry + db.move <= MaxCommits
      BY <1>1, <1>4, <1>5 DEF CommitReading
    <2>2. db' = [db EXCEPT !.reading = db.reading + 1]
      BY <1>5 DEF CommitReading
    <2>3. /\ db' \in Database /\ db'.reading = db.reading + 1
          /\ db'.run = db.run /\ db'.entry = db.entry /\ db'.move = db.move
      <3> DEFINE n == db.reading + 1
      <3>1. n \in 0 .. MaxReadings /\ db' = [db EXCEPT !.reading = n]
        BY <2>1, <2>2
      <3> HIDE DEF n
      <3>2. /\ db' \in Database /\ db'.reading = n
            /\ db'.run = db.run /\ db'.entry = db.entry /\ db'.move = db.move
        BY <1>1, <3>1 DEF Database
      <3> QED BY <3>2 DEF n
    <2>4. Commit("reading")
      BY <1>1, <1>5, <2>3 DEF CommitReading, Commit, Dashboard
    <2>5. Typed'
      BY <1>1, <1>2, <1>3, <1>5, <2>1, <2>3 DEF CommitReading, ViewInv, Typed
    <2> QED BY <1>3, <2>4, <2>5, CommitInv
  <1>6. CASE CommitRun
    <2>1. db.run + 1 \in 1 .. 1 + MaxCommits /\ ((db.run + 1) - 1) + db.entry + db.move <= MaxCommits
      <3>1. (db.run - 1) + db.entry + db.move < MaxCommits
        BY <1>6 DEF CommitRun, MayCommit
      <3> QED BY <1>4, <3>1
    <2>2. db' = [db EXCEPT !.run = db.run + 1]
      BY <1>6 DEF CommitRun
    <2>3. /\ db' \in Database /\ db'.run = db.run + 1
          /\ db'.entry = db.entry /\ db'.move = db.move
      <3> DEFINE n == db.run + 1
      <3>1. n \in 1 .. 1 + MaxCommits /\ db' = [db EXCEPT !.run = n]
        BY <2>1, <2>2
      <3> HIDE DEF n
      <3>2. /\ db' \in Database /\ db'.run = n
            /\ db'.entry = db.entry /\ db'.move = db.move
        BY <1>1, <3>1 DEF Database
      <3> QED BY <3>2 DEF n
    <2>4. Commit("run")
      BY <1>1, <1>6, <2>3 DEF CommitRun, Commit, Dashboard
    <2>5. Typed'
      BY <1>1, <1>2, <1>3, <1>6, <2>1, <2>3 DEF CommitRun, ViewInv, Typed
    <2> QED BY <1>3, <2>4, <2>5, CommitInv
  <1>7. CASE CommitEntry
    <2>1. db.entry + 1 \in 0 .. MaxCommits /\ (db.run - 1) + (db.entry + 1) + db.move <= MaxCommits
      <3>1. (db.run - 1) + db.entry + db.move < MaxCommits
        BY <1>7 DEF CommitEntry, MayCommit
      <3> QED BY <1>4, <3>1
    <2>2. db' = [db EXCEPT !.entry = db.entry + 1]
      BY <1>7 DEF CommitEntry
    <2>3. /\ db' \in Database /\ db'.entry = db.entry + 1
          /\ db'.run = db.run /\ db'.move = db.move
      <3> DEFINE n == db.entry + 1
      <3>1. n \in 0 .. MaxCommits /\ db' = [db EXCEPT !.entry = n]
        BY <2>1, <2>2
      <3> HIDE DEF n
      <3>2. /\ db' \in Database /\ db'.entry = n
            /\ db'.run = db.run /\ db'.move = db.move
        BY <1>1, <3>1 DEF Database
      <3> QED BY <3>2 DEF n
    <2>4. Commit("entry")
      BY <1>1, <1>7, <2>3 DEF CommitEntry, Commit, Dashboard
    <2>5. Typed'
      BY <1>1, <1>2, <1>3, <1>7, <2>1, <2>3 DEF CommitEntry, ViewInv, Typed
    <2> QED BY <1>3, <2>4, <2>5, CommitInv
  <1>8. CASE CommitMove
    <2>1. db.move + 1 \in 0 .. MaxCommits /\ (db.run - 1) + db.entry + (db.move + 1) <= MaxCommits
      <3>1. (db.run - 1) + db.entry + db.move < MaxCommits
        BY <1>8 DEF CommitMove, MayCommit
      <3> QED BY <1>4, <3>1
    <2>2. db' = [db EXCEPT !.move = db.move + 1]
      BY <1>8 DEF CommitMove
    <2>3. /\ db' \in Database /\ db'.move = db.move + 1
          /\ db'.run = db.run /\ db'.entry = db.entry
      <3> DEFINE n == db.move + 1
      <3>1. n \in 0 .. MaxCommits /\ db' = [db EXCEPT !.move = n]
        BY <2>1, <2>2
      <3> HIDE DEF n
      <3>2. /\ db' \in Database /\ db'.move = n
            /\ db'.run = db.run /\ db'.entry = db.entry
        BY <1>1, <3>1 DEF Database
      <3> QED BY <3>2 DEF n
    <2>4. /\ browser' \in Dashboard /\ browser'.twin = browser.twin
          /\ browser'.awaits = browser.awaits /\ browser'.posting = TRUE
      BY <1>1, <1>8 DEF CommitMove, Dashboard
    <2>5. Commit("move")
      BY <1>8, <2>3, <2>4 DEF CommitMove, Commit
    <2>6. Typed'
      BY <1>1, <1>2, <1>3, <1>8, <2>1, <2>3, <2>4 DEF CommitMove, ViewInv, Typed
    <2> QED BY <1>3, <2>5, <2>6, CommitInv
  <1> QED BY <1>5, <1>6, <1>7, <1>8 DEF Commits

----------------------------------------------------------------------------
(* The handlers of an event.                                               *)

(* The cached twin is dropped, or the failure is a cause. *)
LEMMA InvalidateInv == ViewInv /\ Invalidate => ViewInv'
  <1> SUFFICES ASSUME ViewInv, Invalidate PROVE ViewInv'
    OBVIOUS
  <1> USE DEF ViewInv
  <1>1. /\ UNCHANGED <<db, bus, faults, redis, listener, stream, queue, req, browser>>
        /\ bus # <<>> /\ stage = "invalidate" /\ stage' = "publish"
        /\ cache' \in {cache, NoTwin} /\ causes \subseteq causes'
        /\ Head(bus) \in Invalidating => cache' = NoTwin \/ "not invalidated" \in causes'
    BY DEF Invalidate
  <1>2. Typed'
    BY <1>1, TwinFacts DEF Typed, Stages
  <1>3. TwinsAreOrdered'
    BY <1>1 DEF TwinsAreOrdered, Assembled, Begun
  <1>4. Bookkeeping'
    BY <1>1 DEF Bookkeeping
  <1>5. CacheTrusted' => CacheTrusted
    BY <1>1 DEF CacheTrusted
  <1>6. CacheWillBeDropped'
    <2> SUFFICES ASSUME CacheTrusted', cache' # NoTwin
                 PROVE  /\ cache'.advice < db'.run => Pending("run")'
                        /\ cache'.move < db'.move => Pending("move")'
      BY DEF CacheWillBeDropped
    <2>1. cache' = cache /\ cache # NoTwin /\ Head(bus) \notin {"run", "move"}
      BY <1>1 DEF CacheTrusted, Invalidating
    <2>2. bus \in Seq(Kind)
      BY DEF Typed
    <2>3. \A k \in {"run", "move"} : Contains(bus, k) => Contains(Tail(bus), k)
      BY <1>1, <2>1, <2>2, ContainsHead
    <2>4. \A k \in {"run", "move"} : Pending(k) => Pending(k)'
      BY <1>1, <2>3 DEF Pending
    <2> QED BY <1>1, <1>5, <2>1, <2>4 DEF CacheWillBeDropped
  <1>7. MovesAreShown'
    BY <1>1, <1>5 DEF MovesAreShown
  <1>8. RunsAreHeralded'
    <2>1. causes' = {} => causes = {}
      BY <1>1
    <2> QED BY <1>1, <2>1 DEF RunsAreHeralded, Heralded
  <1> QED BY <1>2, <1>3, <1>4, <1>6, <1>7, <1>8

(* The event reaches the queue of the stream, or its loss is a cause. *)
LEMMA PublishInv == ViewInv /\ Publish => ViewInv'
  <1> SUFFICES ASSUME ViewInv, Publish PROVE ViewInv'
    OBVIOUS
  <1> USE DEF ViewInv
  <1>1. /\ UNCHANGED <<db, faults, redis, cache, listener, stream, req, browser>>
        /\ bus # <<>> /\ stage = "publish" /\ stage' = "invalidate" /\ bus' = Tail(bus)
        /\ causes \subseteq causes'
    BY DEF Publish
  <1>2. bus \in Seq(Kind) /\ queue \in Seq(MonitoringType)
    BY DEF Typed
  <1>3. /\ Head(bus) \in Kind /\ bus' \in Seq(Kind)
        /\ \A k : Contains(bus, k) <=> Head(bus) = k \/ Contains(bus', k)
    BY <1>1, <1>2, ContainsHead
  <1> DEFINE events == MonitoringEvents(Head(bus))
  <1>4. /\ events \in Seq(MonitoringType)
        /\ Head(bus) = "run" => events # <<>>
    <2>1. <<"asset_updated">> \in Seq(MonitoringType) /\ <<"asset_updated">> # <<>>
      BY DEF MonitoringType
    <2>2. <<"fault_investigation_updated">> \in Seq(MonitoringType) /\ <<>> \in Seq(MonitoringType)
      BY DEF MonitoringType
    <2>3. Head(bus) \in {"reading", "run"} => events = <<"asset_updated">>
      BY DEF MonitoringEvents
    <2>4. Head(bus) = "entry" => events = <<"fault_investigation_updated">>
      BY DEF MonitoringEvents
    <2>5. Head(bus) = "move" => events = <<>>
      BY DEF MonitoringEvents
    <2> QED BY <1>3, <2>1, <2>2, <2>3, <2>4, <2>5 DEF Kind
  <1>5. /\ queue' = FanOut(events)
        /\ events # <<>> /\ FanOut(events) = queue => "lost" \in causes'
    BY DEF Publish
  <1> HIDE DEF events
  <1>6. /\ queue \o events \in Seq(MonitoringType)
        /\ queue # <<>> \/ events # <<>> => queue \o events # <<>>
    <2>1. /\ Len(queue) \in Nat /\ Len(events) \in Nat
          /\ queue \o events \in Seq(MonitoringType)
          /\ Len(queue \o events) = Len(queue) + Len(events)
          /\ queue # <<>> => Len(queue) > 0
          /\ events # <<>> => Len(events) > 0
      BY <1>2, <1>4
    <2>2. Len(<<>>) = 0
      OBVIOUS
    <2> QED BY <2>1, <2>2
  <1>7. /\ queue' \in {queue, queue \o events}
        /\ queue' # queue => stream.subscribed
    BY <1>5 DEF FanOut
  <1>8. Typed'
    BY <1>1, <1>2, <1>3, <1>6, <1>7 DEF Typed, Stages
  <1>9. TwinsAreOrdered'
    BY <1>1 DEF TwinsAreOrdered, Assembled, Begun
  <1>10. Bookkeeping'
    BY <1>1, <1>3, <1>7 DEF Bookkeeping
  <1>11. CacheTrusted' => CacheTrusted
    BY <1>1 DEF CacheTrusted
  <1>12. CacheWillBeDropped'
    <2>1. \A k : Contains(bus', k) => bus' # <<>>
      BY ContainsNothing
    <2>2. \A k : Pending(k) => Pending(k)'
      BY <1>1, <2>1 DEF Pending
    <2> QED BY <1>1, <1>11, <2>2 DEF CacheWillBeDropped
  <1>13. MovesAreShown'
    BY <1>1, <1>11 DEF MovesAreShown
  <1>14. RunsAreHeralded'
    <2> SUFFICES ASSUME causes' = {} PROVE RunsAreHeralded'
      BY DEF RunsAreHeralded
    <2>1. causes = {}
      BY <1>1
    <2>2. Heralded => Heralded'
      <3>1. queue # <<>> => queue' # <<>>
        BY <1>6, <1>7
      <3>2. Head(bus) = "run" => queue' # <<>>
        BY <1>4, <1>5, <1>6, <1>7
      <3> QED BY <1>3, <3>1, <3>2 DEF Heralded
    <2> QED BY <1>1, <2>1, <2>2 DEF RunsAreHeralded
  <1> QED BY <1>8, <1>9, <1>10, <1>12, <1>13, <1>14

----------------------------------------------------------------------------
(* The requests.                                                           *)

(* A step of the request q in the API: the browser does not see it, and    *)
(* what it has assembled is in order and, when it is what the browser      *)
(* waits for, as new as the events that are under way.                     *)
Serves(q) ==
    /\ UNCHANGED <<db, bus, faults, stage, redis, listener, stream, queue, browser>>
    /\ causes \subseteq causes'
    /\ req' \in [Req -> Request]
    /\ \A r \in Req \ {q} : req'[r] = req[r]
    /\ req'[q].at # "idle"
    /\ req'[q].at \in {"set", "reply"} => Assembled(req'[q].twin)
    /\ req'[q].at = "read" => Begun(req'[q].twin, req'[q].read)
    /\ req'[q].at \in {"set", "reply"} /\ req[q].at \in {"set", "reply"} => req'[q].twin = req[q].twin
    /\ req'[q].at \in {"set", "reply"} /\ req[q].at \notin {"set", "reply"} =>
         /\ CacheTrusted /\ req'[q].twin.advice < db.run => Contains(bus, "run")
         /\ CacheTrusted /\ req'[q].twin.move < db.move => Contains(bus, "move")

(* Such a step leaves the invariant true, but for the cache. *)
LEMMA ServesInv ==
    ASSUME ViewInv, NEW q \in Req, Serves(q), cache' \in Twin
    PROVE  /\ Typed' /\ Bookkeeping' /\ MovesAreShown' /\ RunsAreHeralded'
           /\ (cache' # NoTwin => Assembled(cache')) => TwinsAreOrdered'
  <1> USE DEF ViewInv
  <1>1. /\ UNCHANGED <<db, bus, faults, stage, redis, listener, stream, queue, browser>>
        /\ causes \subseteq causes'
        /\ \A r \in Req \ {q} : req'[r] = req[r]
    BY DEF Serves
  <1>2. Typed'
    BY <1>1 DEF Serves, Typed
  <1>3. Bookkeeping'
    <2>1. browser.awaits \in Req \cup {NoReq}
      BY DEF Typed, Dashboard
    <2> QED BY <1>1, <2>1 DEF Serves, Bookkeeping
  <1>4. ASSUME cache' # NoTwin => Assembled(cache')
        PROVE  TwinsAreOrdered'
    BY <1>1, <1>4 DEF Serves, TwinsAreOrdered, Assembled, Begun
  <1>5. (CacheTrusted' => CacheTrusted) /\ (causes' = {} => causes = {} /\ CacheTrusted)
    BY <1>1 DEF CacheTrusted
  <1>6. MovesAreShown'
    <2> SUFFICES ASSUME CacheTrusted, ~ browser.posting, browser.awaits # NoReq,
                        req'[browser.awaits].at \in {"set", "reply"}
                 PROVE  req'[browser.awaits].twin.move = db.move
      BY <1>1, <1>5 DEF MovesAreShown
    <2>1. CASE browser.awaits = q
      <3>1. CASE req[q].at \in {"set", "reply"}
        BY <2>1, <3>1 DEF Serves, MovesAreShown
      <3>2. CASE req[q].at \notin {"set", "reply"}
        <4>1. ~ (req'[q].twin.move < db.move)
          BY <2>1, <3>2 DEF Serves, Bookkeeping
        <4>2. req'[q].twin.move <= db.move
          <5>1. Assembled(req'[q].twin)
            BY <2>1 DEF Serves
          <5> QED BY <5>1 DEF Assembled
        <4>3. req'[q].twin.move \in Int /\ db.move \in Int
          <5>1. db.move \in 0 .. MaxCommits /\ MaxCommits \in Nat
            BY LiveViewAssumption DEF Typed, Database
          <5>2. req'[q] \in Request
            BY DEF Serves
          <5> QED BY <5>1, <5>2 DEF Request, Twin
        <4> QED BY <2>1, <4>1, <4>2, <4>3
      <3> QED BY <3>1, <3>2
    <2>2. CASE browser.awaits # q
      <3>1. browser.awaits \in Req
        BY DEF Typed, Dashboard
      <3> QED BY <1>1, <2>2, <3>1 DEF MovesAreShown
    <2> QED BY <2>1, <2>2
  <1>7. RunsAreHeralded'
    <2> SUFFICES ASSUME causes' = {} PROVE RunsAreHeralded'
      BY DEF RunsAreHeralded
    <2>1. causes = {} /\ CacheTrusted /\ (Heralded' <=> Heralded)
      BY <1>1, <1>5 DEF Heralded
    <2>2. ASSUME browser.awaits # NoReq, req'[browser.awaits].at \in {"set", "reply"},
                 req'[browser.awaits].twin.advice < db.run
          PROVE  Heralded
      <3>1. CASE browser.awaits = q
        <4>1. CASE req[q].at \in {"set", "reply"}
          BY <2>1, <2>2, <3>1, <4>1 DEF Serves, RunsAreHeralded
        <4>2. CASE req[q].at \notin {"set", "reply"}
          BY <2>1, <2>2, <3>1, <4>2 DEF Serves, Heralded
        <4> QED BY <4>1, <4>2
      <3>2. CASE browser.awaits # q
        <4>1. browser.awaits \in Req
          BY <2>2 DEF Typed, Dashboard
        <4> QED BY <1>1, <2>1, <2>2, <3>2, <4>1 DEF RunsAreHeralded
      <3> QED BY <3>1, <3>2
    <2> QED BY <1>1, <2>1, <2>2 DEF RunsAreHeralded
  <1> QED BY <1>2, <1>3, <1>4, <1>6, <1>7

(* The cache is left alone by a step that changes no cause, event or data. *)
LEMMA CacheUntouched ==
    ASSUME CacheWillBeDropped, UNCHANGED <<db, bus, stage, cache>>, causes \subseteq causes'
    PROVE  CacheWillBeDropped'
  BY DEF CacheWillBeDropped, CacheTrusted, Pending

(* What is pending for the cache is in the outbox. *)
LEMMA PendingIsInBus ==
    ASSUME Typed, NEW k, Pending(k)
    PROVE  Contains(bus, k)
  <1>1. bus \in Seq(Kind) /\ bus # <<>>
    BY DEF Typed, Pending
  <1>2. Contains(Tail(bus), k) => Contains(bus, k)
    BY <1>1, ContainsHead
  <1> QED BY <1>2 DEF Pending

(* cache.get: a hit is what the cache has, a miss starts the reads. *)
LEMMA CacheGetInv ==
    ASSUME ViewInv, NEW q \in Req, CacheGet(q)
    PROVE  ViewInv'
  <1> USE DEF ViewInv
  <1>1. /\ UNCHANGED <<db, bus, faults, stage, redis, cache, listener, stream, queue,
                       browser, causes>>
        /\ req[q].at = "get"
    BY DEF CacheGet
  <1>2. req \in [Req -> Request] /\ cache \in Twin
    BY DEF Typed
  <1>3. CASE redis /\ cache # NoTwin
    <2>1. req' = [req EXCEPT ![q] = [at |-> "reply", read |-> 0, twin |-> cache]]
      BY <1>3 DEF CacheGet
    <2>2. /\ req' \in [Req -> Request] /\ req'[q].at = "reply" /\ req'[q].twin = cache
          /\ \A r \in Req \ {q} : req'[r] = req[r]
      BY <1>2, <2>1 DEF Request
    <2>3. /\ CacheTrusted /\ cache.advice < db.run => Contains(bus, "run")
          /\ CacheTrusted /\ cache.move < db.move => Contains(bus, "move")
      BY <1>3, PendingIsInBus DEF CacheWillBeDropped
    <2>4. Serves(q)
      BY <1>1, <1>3, <2>2, <2>3 DEF Serves, TwinsAreOrdered
    <2>5. cache' # NoTwin => Assembled(cache')
      BY <1>1 DEF TwinsAreOrdered
    <2> QED BY <1>1, <1>2, <2>4, <2>5, ServesInv, CacheUntouched
  <1>4. CASE ~ (redis /\ cache # NoTwin)
    <2>1. req' = [req EXCEPT ![q] = [Idle EXCEPT !.at = "read"]]
      BY <1>4 DEF CacheGet
    <2>2. /\ [Idle EXCEPT !.at = "read"] = [at |-> "read", read |-> 0, twin |-> Blank]
          /\ [at |-> "read", read |-> 0, twin |-> Blank] \in Request
      BY TwinFacts DEF Idle, Request
    <2>3. /\ req' \in [Req -> Request] /\ req'[q].at = "read" /\ req'[q].read = 0
          /\ \A r \in Req \ {q} : req'[r] = req[r]
      BY <1>2, <2>1, <2>2
    <2>4. Serves(q)
      BY <1>1, <2>3 DEF Serves, Begun
    <2>5. cache' # NoTwin => Assembled(cache')
      BY <1>1 DEF TwinsAreOrdered
    <2> QED BY <1>1, <1>2, <2>4, <2>5, ServesInv, CacheUntouched
  <1> QED BY <1>3, <1>4

(* _assemble: each query sees what is committed by then. *)
LEMMA AssembleInv ==
    ASSUME ViewInv, NEW q \in Req, Assemble(q)
    PROVE  ViewInv'
  <1> USE DEF ViewInv
  <1> DEFINE t == req[q].twin
             m == req[q].read
  <1>1. /\ UNCHANGED <<db, bus, faults, stage, redis, cache, listener, stream, queue,
                       browser, causes>>
        /\ req[q].at = "read"
        /\ req' = [req EXCEPT ![q] =
             IF m + 1 = Len(Field) THEN [at |-> "set", read |-> 0, twin |-> Read(t, Field[m + 1])]
             ELSE [at |-> "read", read |-> m + 1, twin |-> Read(t, Field[m + 1])]]
    BY DEF Assemble
  <1>2. req \in [Req -> Request] /\ cache \in Twin /\ t \in Twin /\ m \in 0 .. 2
    BY DEF Typed, Request
  <1>3. /\ db.run \in Int /\ db.move \in Int /\ db.entry \in Int
        /\ 1 <= db.run /\ 0 <= db.move
    <2>1. /\ db.run \in 1 .. 1 + MaxCommits /\ db.move \in 0 .. MaxCommits
          /\ db.entry \in 0 .. MaxCommits /\ MaxCommits \in Nat
      BY LiveViewAssumption DEF Typed, Database
    <2> QED BY <2>1
  <1>4. Begun(t, m)
    BY <1>1 DEF TwinsAreOrdered
  <1>5. Len(Field) = 3 /\ Field[1] = "latest" /\ Field[2] = "state" /\ Field[3] = "advice"
    BY DEF Field
  <1>6. cache' # NoTwin => Assembled(cache')
    BY <1>1 DEF TwinsAreOrdered
  <1>7. CASE m = 0
    <2> DEFINE u == [t EXCEPT !.latest = db.run]
    <2>1. req' = [req EXCEPT ![q] = [at |-> "read", read |-> 1, twin |-> u]]
      <3>1. m + 1 # Len(Field) /\ m + 1 = 1 /\ Field[m + 1] = "latest"
        BY <1>5, <1>7
      <3>2. Read(t, "latest") = u
        BY DEF Read
      <3> QED BY <1>1, <3>1, <3>2
    <2>2. u \in Twin /\ u.latest = db.run
      BY <1>2, <1>3 DEF Twin
    <2> HIDE DEF u
    <2>3. /\ req' \in [Req -> Request] /\ req'[q].at = "read" /\ req'[q].read = 1
          /\ req'[q].twin = u /\ \A r \in Req \ {q} : req'[r] = req[r]
      BY <1>2, <2>1, <2>2 DEF Request
    <2>4. Begun(u, 1)
      BY <1>3, <2>2 DEF Begun
    <2>5. Serves(q)
      BY <1>1, <2>3, <2>4 DEF Serves
    <2> QED BY <1>1, <1>2, <1>6, <2>5, ServesInv, CacheUntouched
  <1>8. CASE m = 1
    <2> DEFINE u == [t EXCEPT !.state = db.run]
    <2>1. req' = [req EXCEPT ![q] = [at |-> "read", read |-> 2, twin |-> u]]
      <3>1. m + 1 # Len(Field) /\ m + 1 = 2 /\ Field[m + 1] = "state"
        BY <1>5, <1>8
      <3>2. Read(t, "state") = u
        BY DEF Read
      <3> QED BY <1>1, <3>1, <3>2
    <2>2. u \in Twin /\ u.state = db.run /\ u.latest = t.latest
      BY <1>2, <1>3 DEF Twin
    <2>3. 1 <= t.latest /\ t.latest <= db.run
      BY <1>4, <1>8 DEF Begun
    <2> HIDE DEF u
    <2>4. /\ req' \in [Req -> Request] /\ req'[q].at = "read" /\ req'[q].read = 2
          /\ req'[q].twin = u /\ \A r \in Req \ {q} : req'[r] = req[r]
      BY <1>2, <2>1, <2>2 DEF Request
    <2>5. Begun(u, 2)
      BY <1>3, <2>2, <2>3 DEF Begun
    <2>6. Serves(q)
      BY <1>1, <2>4, <2>5 DEF Serves
    <2> QED BY <1>1, <1>2, <1>6, <2>6, ServesInv, CacheUntouched
  <1>9. CASE m = 2
    <2> DEFINE u == [t EXCEPT !.advice = db.run, !.move = db.move, !.entry = db.entry]
    <2>1. req' = [req EXCEPT ![q] = [at |-> "set", read |-> 0, twin |-> u]]
      BY <1>1, <1>5, <1>9 DEF Read
    <2>2. /\ u \in Twin /\ u.advice = db.run /\ u.move = db.move
          /\ u.latest = t.latest /\ u.state = t.state
      BY <1>2, <1>3 DEF Twin
    <2>3. 1 <= t.latest /\ t.latest <= t.state /\ t.state <= db.run
      BY <1>4, <1>9 DEF Begun
    <2> HIDE DEF u
    <2>4. /\ req' \in [Req -> Request] /\ req'[q].at = "set" /\ req'[q].twin = u
          /\ \A r \in Req \ {q} : req'[r] = req[r]
      BY <1>2, <2>1, <2>2 DEF Request
    <2>5. Assembled(u) /\ ~ (u.advice < db.run) /\ ~ (u.move < db.move)
      BY <1>3, <2>2, <2>3 DEF Assembled
    <2>6. Serves(q)
      BY <1>1, <2>4, <2>5 DEF Serves
    <2> QED BY <1>1, <1>2, <1>6, <2>6, ServesInv, CacheUntouched
  <1> QED BY <1>2, <1>7, <1>8, <1>9

(* cache.set: a twin that has missed a commit by now is a cause. *)
LEMMA CacheSetInv ==
    ASSUME ViewInv, NEW q \in Req, CacheSet(q)
    PROVE  ViewInv'
  <1> USE DEF ViewInv
  <1> DEFINE t == req[q].twin
  <1>1. /\ UNCHANGED <<db, bus, faults, stage, redis, listener, stream, queue, browser>>
        /\ req[q].at = "set" /\ req' = [req EXCEPT ![q].at = "reply"]
        /\ cache' = IF redis THEN t ELSE cache
        /\ causes' = causes \cup (IF redis /\ Behind(t) THEN {"set late"} ELSE {})
    BY DEF CacheSet
  <1>2. /\ req \in [Req -> Request] /\ req[q] \in Request /\ cache \in Twin /\ t \in Twin
        /\ causes \subseteq causes'
    BY <1>1 DEF Typed, Request
  <1>3. /\ req' \in [Req -> Request] /\ req'[q].at = "reply" /\ req'[q].twin = t
        /\ \A r \in Req \ {q} : req'[r] = req[r]
    BY <1>1, <1>2 DEF Request
  <1>4. Assembled(t) /\ Assembled(t)'
    BY <1>1, <1>3 DEF TwinsAreOrdered, Assembled
  <1>5. Serves(q)
    BY <1>1, <1>2, <1>3, <1>4 DEF Serves
  <1>6. cache' \in Twin /\ (cache' # NoTwin => Assembled(cache'))
    BY <1>1, <1>2, <1>4 DEF TwinsAreOrdered, Assembled
  <1>7. CacheWillBeDropped'
    <2>1. CASE redis
      <3>1. CacheTrusted' => ~ Behind(t)
        BY <1>1, <2>1 DEF CacheTrusted
      <3> QED BY <1>1, <2>1, <3>1 DEF Behind, CacheWillBeDropped
    <2>2. CASE ~ redis
      BY <1>1, <1>2, <2>2, CacheUntouched
    <2> QED BY <2>1, <2>2
  <1> QED BY <1>5, <1>6, <1>7, ServesInv

----------------------------------------------------------------------------
(* The browser.                                                            *)

(* The browser takes the response it waits for, and no other. *)
LEMMA ReplyInv ==
    ASSUME ViewInv, NEW q \in Req, Reply(q)
    PROVE  ViewInv'
  <1> USE DEF ViewInv
  <1> DEFINE t == req[q].twin
  <1>1. /\ UNCHANGED <<db, bus, faults, stage, redis, cache, listener, stream, queue, causes>>
        /\ req[q].at = "reply" /\ req' = [req EXCEPT ![q] = Idle]
    BY DEF Reply
  <1>2. /\ req \in [Req -> Request] /\ req[q] \in Request /\ t \in Twin
        /\ browser \in Dashboard /\ q # NoReq
    BY LiveViewAssumption DEF Typed, Request
  <1>3. Idle \in Request /\ Idle.at = "idle"
    BY TwinFacts DEF Idle, Request
  <1>4. /\ req' \in [Req -> Request] /\ req'[q] = Idle
        /\ \A r \in Req \ {q} : req'[r] = req[r]
    BY <1>1, <1>2, <1>3
  <1>5. Assembled(t) /\ t # NoTwin
    <2>1. Assembled(t)
      BY <1>1 DEF TwinsAreOrdered
    <2> QED BY <1>2, <2>1, TwinFacts DEF Assembled
  <1>6. CacheWillBeDropped'
    BY <1>1, CacheUntouched
  <1>7. CASE browser.awaits # q
    <2>1. browser' = browser /\ browser.awaits \in Req \cup {NoReq}
      BY <1>2, <1>7 DEF Reply, Dashboard
    <2>2. Typed'
      BY <1>1, <1>4, <2>1 DEF Typed
    <2>3. TwinsAreOrdered'
      BY <1>1, <1>3, <1>4, <2>1 DEF TwinsAreOrdered, Assembled, Begun
    <2>4. Bookkeeping'
      BY <1>1, <1>4, <1>7, <2>1 DEF Bookkeeping
    <2>5. browser.awaits # NoReq => req'[browser.awaits] = req[browser.awaits]
      BY <1>4, <1>7, <2>1
    <2>6. MovesAreShown'
      BY <1>1, <2>1, <2>5 DEF MovesAreShown, CacheTrusted
    <2>7. RunsAreHeralded'
      BY <1>1, <2>1, <2>5 DEF RunsAreHeralded, Heralded
    <2> QED BY <1>6, <2>2, <2>3, <2>4, <2>6, <2>7
  <1>8. CASE browser.awaits = q
    <2>1. browser' = [browser EXCEPT !.awaits = NoReq, !.twin = t]
      BY <1>8 DEF Reply
    <2>2. /\ browser' \in Dashboard /\ browser'.awaits = NoReq /\ browser'.twin = t
          /\ browser'.posting = browser.posting
      BY <1>2, <2>1 DEF Dashboard
    <2>3. Typed'
      BY <1>1, <1>4, <2>2 DEF Typed
    <2>4. TwinsAreOrdered'
      BY <1>1, <1>3, <1>4, <1>5, <2>2 DEF TwinsAreOrdered, Assembled, Begun
    <2>5. Bookkeeping'
      BY <1>1, <1>5, <2>2 DEF Bookkeeping
    <2>6. MovesAreShown'
      BY <1>1, <1>2, <1>8, <2>2 DEF MovesAreShown, CacheTrusted
    <2>7. RunsAreHeralded'
      BY <1>1, <1>2, <1>8, <2>2 DEF RunsAreHeralded, Heralded
    <2> QED BY <1>6, <2>3, <2>4, <2>5, <2>6, <2>7
  <1> QED BY <1>7, <1>8

(* The browser starts a fetch in a free slot q: what it shows may change   *)
(* in the moves only, and then shows all of them.                          *)
Fetches(q) ==
    /\ req[q].at = "idle" /\ Refetch(q)
    /\ UNCHANGED <<db, bus, stage, cache>> /\ causes \subseteq causes'
    /\ browser' \in Dashboard /\ browser'.awaits = q
    /\ browser'.posting => browser.posting
    /\ Contains(bus, "move") => browser'.posting
    /\ \/ browser'.twin = browser.twin /\ browser'.posting = browser.posting
       \/ /\ Assembled(browser'.twin) /\ browser'.twin.move = db.move
          /\ ~ browser'.posting

(* A fetch just started promises nothing yet, and nothing is asked of it. *)
LEMMA FetchesInv ==
    ASSUME ViewInv, NEW q \in Req, Fetches(q), Typed',
           ~ stream'.subscribed => queue' = <<>>
    PROVE  ViewInv'
  <1> USE DEF ViewInv
  <1>1. /\ UNCHANGED <<db, bus, stage, cache>> /\ causes \subseteq causes'
        /\ browser'.awaits = q /\ req' = [req EXCEPT ![q] = [Idle EXCEPT !.at = "get"]]
    BY DEF Fetches, Refetch
  <1>2. /\ req'[q].at = "get" /\ \A r \in Req \ {q} : req'[r] = req[r]
    <2>1. [Idle EXCEPT !.at = "get"].at = "get"
      BY DEF Idle
    <2> QED BY <1>1, <2>1 DEF Typed
  <1>3. q # NoReq
    BY LiveViewAssumption
  <1>4. TwinsAreOrdered'
    BY <1>1, <1>2 DEF TwinsAreOrdered, Fetches, Assembled, Begun
  <1>5. Bookkeeping'
    <2>1. browser'.posting => browser'.twin # NoTwin
      BY DEF Fetches, Bookkeeping
    <2> QED BY <1>1, <1>2, <2>1 DEF Bookkeeping, Fetches
  <1>6. CacheWillBeDropped'
    BY <1>1, CacheUntouched
  <1>7. MovesAreShown'
    <2>1. CacheTrusted' => CacheTrusted
      BY <1>1 DEF CacheTrusted
    <2> QED BY <1>1, <1>2, <2>1 DEF MovesAreShown, Fetches
  <1>8. RunsAreHeralded'
    BY <1>1, <1>2, <1>3 DEF RunsAreHeralded
  <1> QED BY <1>4, <1>5, <1>6, <1>7, <1>8

(* A slot that fetches has the type of a request. *)
LEMMA RefetchTyped ==
    ASSUME Typed, NEW q \in Req, Refetch(q)
    PROVE  req' \in [Req -> Request]
  <1>1. [Idle EXCEPT !.at = "get"] \in Request
    BY TwinFacts DEF Idle, Request
  <1> QED BY <1>1 DEF Refetch, Typed

(* The twin's query is invalidated: it is fetched again, or a fetch in     *)
(* flight is a cause.                                                      *)
LEMMA RefreshInv ==
    ASSUME ViewInv, Refresh(browser),
           UNCHANGED <<db, bus, stage, cache, faults, redis, listener>>,
           queue' \in Seq(MonitoringType),
           stream' \in [state : {"connecting", "connected", "disconnected"},
                        opened : BOOLEAN, subscribed : BOOLEAN],
           ~ stream'.subscribed => queue' = <<>>
    PROVE  ViewInv'
  <1> USE DEF ViewInv
  <1>1. CASE browser.awaits # NoReq
    <2>1. /\ browser' = browser /\ req' = req /\ causes' = causes \cup {"in flight"}
      BY <1>1 DEF Refresh
    <2>2. Typed'
      BY <2>1 DEF Typed
    <2>3. TwinsAreOrdered'
      BY <2>1 DEF TwinsAreOrdered, Assembled, Begun
    <2>4. Bookkeeping'
      BY <2>1 DEF Bookkeeping
    <2>5. CacheWillBeDropped'
      BY <2>1, CacheUntouched
    <2>6. MovesAreShown'
      BY <2>1 DEF MovesAreShown, CacheTrusted
    <2>7. RunsAreHeralded'
      BY <2>1 DEF RunsAreHeralded
    <2> QED BY <2>2, <2>3, <2>4, <2>5, <2>6, <2>7
  <1>2. CASE browser.awaits = NoReq
    <2>1. PICK q \in Free : Refetch(q) /\ browser' = [browser EXCEPT !.awaits = q]
      BY <1>2 DEF Refresh
    <2>2. q \in Req /\ req[q].at = "idle" /\ browser \in Dashboard /\ causes' = causes
      BY <1>2 DEF Free, Typed, Refresh
    <2>3. /\ browser' \in Dashboard /\ browser'.awaits = q /\ browser'.twin = browser.twin
          /\ browser'.posting = browser.posting
      BY <2>1, <2>2 DEF Dashboard
    <2>4. Fetches(q)
      BY <2>1, <2>2, <2>3 DEF Fetches, Bookkeeping
    <2>5. Typed'
      BY <2>1, <2>2, <2>3, RefetchTyped DEF Typed
    <2> QED BY <2>2, <2>4, <2>5, FetchesInv
  <1> QED BY <1>1, <1>2

(* A poll refreshes. *)
LEMMA PollInv == ViewInv /\ Poll => ViewInv'
  <1> SUFFICES ASSUME ViewInv, Poll PROVE ViewInv'
    OBVIOUS
  <1>1. UNCHANGED <<db, bus, faults, stage, redis, cache, listener, stream, queue>>
        /\ Refresh(browser)
    BY DEF Poll
  <1> QED BY <1>1, RefreshInv DEF ViewInv, Typed, Bookkeeping

(* A reconnection refreshes all; the first connection only opens the stream. *)
LEMMA OpenInv == ViewInv /\ Open => ViewInv'
  <1> SUFFICES ASSUME ViewInv, Open PROVE ViewInv'
    OBVIOUS
  <1>1. /\ UNCHANGED <<db, bus, faults, stage, redis, cache, listener, queue>>
        /\ ~ stream.subscribed
    BY DEF Open
  <1>2. /\ stream' \in [state : {"connecting", "connected", "disconnected"},
                        opened : BOOLEAN, subscribed : BOOLEAN]
        /\ stream'.subscribed = stream.subscribed
    BY DEF Open, ViewInv, Typed
  <1>3. CASE stream.opened
    BY <1>1, <1>2, <1>3, RefreshInv DEF Open, ViewInv, Typed, Bookkeeping
  <1>4. CASE ~ stream.opened
    <2>1. Aside
      BY <1>1, <1>2, <1>4 DEF Open, Aside, ViewInv, Typed
    <2> QED BY <2>1, AsideInv
  <1> QED BY <1>3, <1>4

(* Every monitoring event refreshes the twin. *)
LEMMA DispatchInv == ViewInv /\ Dispatch => ViewInv'
  <1> SUFFICES ASSUME ViewInv, Dispatch PROVE ViewInv'
    OBVIOUS
  <1>1. /\ UNCHANGED <<db, bus, faults, stage, redis, cache, listener, stream>>
        /\ stream.subscribed /\ queue # <<>> /\ queue' = Tail(queue)
    BY DEF Dispatch
  <1>2. queue \in Seq(MonitoringType)
    BY DEF ViewInv, Typed
  <1>3. Head(queue) \in MonitoringType /\ queue' \in Seq(MonitoringType)
    BY <1>1, <1>2
  <1>4. Refresh(browser)
    BY <1>3 DEF Dispatch, TouchesTwin, MonitoringType
  <1> QED BY <1>1, <1>3, <1>4, RefreshInv DEF ViewInv, Typed

(* A stream begins or ends with an empty queue; what was in it is lost. *)
LEMMA StreamInv == ViewInv /\ (Subscribe \/ Cut) => ViewInv'
  <1> SUFFICES ASSUME ViewInv, Subscribe \/ Cut PROVE ViewInv'
    OBVIOUS
  <1> USE DEF ViewInv
  <1>1. /\ UNCHANGED <<db, bus, stage, redis, cache, req, browser>>
        /\ queue' = <<>> /\ causes \subseteq causes'
        /\ causes' \subseteq causes \cup {"lost"}
    BY DEF Subscribe, Cut
  <1>2. queue # <<>> => "lost" \in causes'
    BY DEF Subscribe, Cut, Bookkeeping
  <1>3. Typed'
    <2>1. queue' \in Seq(MonitoringType)
      BY <1>1
    <2>2. stream' \in [state : {"connecting", "connected", "disconnected"},
                       opened : BOOLEAN, subscribed : BOOLEAN]
      BY DEF Subscribe, Cut, Typed
    <2>3. listener' \in {"off", "subscribing", "up"}
      BY DEF Subscribe, Cut, Typed
    <2>4. faults' \in 0 .. MaxFaults
      <3>1. faults \in 0 .. MaxFaults /\ MaxFaults \in Nat
        BY LiveViewAssumption DEF Typed
      <3>2. faults' = faults \/ (faults < MaxFaults /\ faults' = faults + 1)
        BY DEF Subscribe, Cut
      <3> QED BY <3>1, <3>2
    <2> QED BY <1>1, <2>1, <2>2, <2>3, <2>4 DEF Typed
  <1>4. TwinsAreOrdered'
    BY <1>1 DEF TwinsAreOrdered, Assembled, Begun
  <1>5. Bookkeeping'
    BY <1>1 DEF Bookkeeping
  <1>6. CacheWillBeDropped'
    BY <1>1, CacheUntouched
  <1>7. MovesAreShown'
    BY <1>1 DEF MovesAreShown, CacheTrusted
  <1>8. RunsAreHeralded'
    BY <1>1, <1>2 DEF RunsAreHeralded, Heralded
  <1> QED BY <1>3, <1>4, <1>5, <1>6, <1>7, <1>8

(* The confirmed transition is shown, and the fetch that could clobber it  *)
(* is no longer waited for.                                                *)
LEMMA MoveConfirmedInv == ViewInv /\ MoveConfirmed => ViewInv'
  <1> SUFFICES ASSUME ViewInv, MoveConfirmed PROVE ViewInv'
    OBVIOUS
  <1> USE DEF ViewInv
  <1>1. PICK q \in Free :
          /\ Refetch(q)
          /\ browser' = [browser EXCEPT !.posting = FALSE, !.awaits = q, !.twin.move = db.move]
    BY DEF MoveConfirmed
  <1>2. /\ UNCHANGED <<db, bus, faults, stage, redis, cache, listener, stream, queue, causes>>
        /\ browser.posting /\ ~ Contains(bus, "move")
        /\ q \in Req /\ req[q].at = "idle"
    BY DEF MoveConfirmed, Free
  <1>3. /\ browser \in Dashboard /\ browser.twin \in Twin /\ db.move \in Int /\ 0 <= db.move
    <2>1. db.move \in 0 .. MaxCommits /\ MaxCommits \in Nat
      BY LiveViewAssumption DEF Typed, Database
    <2> QED BY <2>1 DEF Typed, Dashboard
  <1> DEFINE t == [browser.twin EXCEPT !.move = db.move]
  <1>4. /\ t \in Twin /\ t.move = db.move /\ t.latest = browser.twin.latest
        /\ t.state = browser.twin.state /\ t.advice = browser.twin.advice
    BY <1>3 DEF Twin
  <1>5. browser' = [browser EXCEPT !.posting = FALSE, !.awaits = q, !.twin = t]
    BY <1>1
  <1> HIDE DEF t
  <1>6. /\ browser' \in Dashboard /\ browser'.awaits = q /\ browser'.twin = t
        /\ browser'.posting = FALSE
    BY <1>2, <1>3, <1>4, <1>5 DEF Dashboard
  <1>7. Assembled(t)
    <2>1. Assembled(browser.twin)
      BY <1>2 DEF Bookkeeping, TwinsAreOrdered
    <2> QED BY <1>3, <1>4, <2>1 DEF Assembled
  <1>8. Fetches(q)
    BY <1>1, <1>2, <1>4, <1>6, <1>7 DEF Fetches
  <1>9. Typed'
    BY <1>1, <1>2, <1>6, RefetchTyped DEF Typed
  <1> QED BY <1>2, <1>8, <1>9, FetchesInv DEF Bookkeeping

----------------------------------------------------------------------------
(* The theorems.                                                           *)

(* Every step keeps the invariant. *)
LEMMA ViewNextInv == ViewInv /\ [Next]_vars => ViewInv'
  <1> SUFFICES ASSUME ViewInv, [Next]_vars PROVE ViewInv'
    OBVIOUS
  <1>1. CASE Commits
    BY <1>1, CommitsInv
  <1>2. CASE Handlers
    BY <1>2, InvalidateInv, PublishInv DEF Handlers
  <1>3. CASE RedisDown \/ RedisUp \/ Expire \/ Listen \/ LoseListener \/ GiveUp \/ UNCHANGED vars
    BY <1>3, StepsAside, AsideInv
  <1>4. CASE Cut \/ Subscribe
    BY <1>4, StreamInv
  <1>5. CASE \E q \in Req : Server(q)
    BY <1>5, CacheGetInv, AssembleInv, CacheSetInv, ReplyInv DEF Server
  <1>6. CASE Poll \/ Open \/ Dispatch \/ MoveConfirmed
    BY <1>6, PollInv, OpenInv, DispatchInv, MoveConfirmedInv
  <1> QED BY <1>1, <1>2, <1>3, <1>4, <1>5, <1>6 DEF Next, Faults

(* The invariant explains what is shown. *)
LEMMA InvExplains == ViewInv => ViewIsExplained
  <1> SUFFICES ASSUME ViewInv PROVE ViewIsExplained
    OBVIOUS
  <1> USE DEF ViewInv
  <1>1. TypeOK
    <2>1. cache = NoTwin \/ cache.latest \in 1 .. 1 + MaxCommits
      <3>1. /\ db.run \in 1 .. 1 + MaxCommits /\ MaxCommits \in Nat
            /\ cache.latest \in Int /\ cache.state \in Int /\ cache.advice \in Int
        BY LiveViewAssumption DEF Typed, Database, Twin
      <3> QED BY <3>1 DEF TwinsAreOrdered, Assembled
    <2>2. \A q \in Req : /\ req[q].at \in {"idle", "get", "read", "set", "reply"}
                         /\ req[q].read \in 0 .. Len(Field)
      <3>1. Len(Field) = 3
        BY DEF Field
      <3> QED BY <3>1 DEF Typed, Request
    <2>3. browser.awaits \in Req \cup {NoReq}
      BY DEF Typed, Dashboard
    <2> QED BY <2>1, <2>2, <2>3 DEF TypeOK, Typed, Database
  <1>2. TwinsLagInOrder
    BY DEF TwinsAreOrdered, Assembled, TwinsLagInOrder
  <1>3. StaleHasCause
    <2> SUFFICES ASSUME Quiet, browser.twin # NoTwin, causes = {}
                 PROVE  browser.twin.advice = db.run /\ browser.twin.move = db.move
      BY DEF StaleHasCause
    <2>1. browser.awaits = NoReq
      BY DEF Quiet, Bookkeeping, Typed, Dashboard
    <2>2. ~ Heralded
      BY ContainsNothing DEF Quiet, Heralded
    <2>3. ~ (browser.twin.advice < db.run)
      BY <2>1, <2>2 DEF RunsAreHeralded
    <2>4. browser.twin.advice <= db.run
      BY DEF TwinsAreOrdered, Assembled
    <2>5. browser.twin.advice \in Int /\ db.run \in Int
      <3>1. db.run \in 1 .. 1 + MaxCommits /\ MaxCommits \in Nat
        BY LiveViewAssumption DEF Typed, Database
      <3> QED BY <3>1 DEF Typed, Dashboard, Twin
    <2>6. browser.twin.move = db.move
      BY DEF MovesAreShown, CacheTrusted, Quiet
    <2> QED BY <2>3, <2>4, <2>5, <2>6
  <1> QED BY <1>1, <1>2, <1>3 DEF ViewIsExplained

(* The inductive invariant: events on their way for all that is behind, as *)
(* long as nothing has kept them from the cache or the browser.            *)
THEOREM ViewInvariant == Spec => []ViewInv
  <1>1. Init => ViewInv
    BY ViewInitInv
  <1>2. ViewInv /\ [Next]_vars => ViewInv'
    BY ViewNextInv
  <1> QED BY <1>1, <1>2, PTL DEF Spec

(* A connected and quiet dashboard that is behind has a reason, and a twin *)
(* is torn in one direction only, whatever commits, fails and is fetched.  *)
THEOREM ViewStaysExplained == Spec => []ViewIsExplained
  BY ViewInvariant, InvExplains, PTL

(* A transition confirmed to the operator is not clobbered by a fetch that *)
(* began before it, unless the cache was let down                          *)
(* (useInvestigationTransition.ts:28-32).                                  *)
THEOREM ConfirmedMovesStay == Spec => ConfirmedMoveStays
  <1>1. ViewInv /\ [Next]_vars =>
          [~ browser.posting /\ browser'.twin.move < browser.twin.move =>
             causes \cap {"set late", "not invalidated"} # {}]_vars
    <2> SUFFICES ASSUME ViewInv, [Next]_vars, ~ browser.posting,
                        browser'.twin.move < browser.twin.move, CacheTrusted
                 PROVE  FALSE
      BY DEF CacheTrusted
    <2> USE DEF ViewInv
    <2>1. browser \in Dashboard /\ browser.twin \in Twin
      BY DEF Typed, Dashboard
    <2>2. browser.twin.move \in Int /\ browser'.twin # browser.twin
      <3>1. browser.twin.move \in Int
        BY <2>1 DEF Twin
      <3> QED BY <3>1
    <2>3. ~ Refresh(browser)
      BY <2>1, <2>2 DEF Refresh, Dashboard
    <2>4. \E q \in Req : Reply(q)
      <3>1. ~ Commits
        BY <2>1, <2>2 DEF Commits, CommitReading, CommitRun, CommitEntry, CommitMove, Dashboard
      <3>2. ~ Handlers /\ ~ Faults /\ ~ RedisUp /\ ~ Expire /\ ~ Listen /\ ~ Subscribe
            /\ ~ UNCHANGED vars
        BY <2>2 DEF Handlers, Invalidate, Publish, Faults, RedisDown, LoseListener, Cut, GiveUp,
                    RedisUp, Expire, Listen, Subscribe, vars
      <3>3. ~ Poll /\ ~ Open /\ ~ Dispatch /\ ~ MoveConfirmed
        BY <2>2, <2>3 DEF Poll, Open, Dispatch, MoveConfirmed
      <3>4. PICK q \in Req : Server(q)
        BY <3>1, <3>2, <3>3 DEF Next
      <3>5. Reply(q)
        BY <2>2, <3>4 DEF Server, CacheGet, Assemble, CacheSet
      <3> QED BY <3>5
    <2>5. PICK q \in Req : Reply(q)
      BY <2>4
    <2>6. browser.awaits = q /\ browser'.twin = req[q].twin /\ req[q].at = "reply" /\ q # NoReq
      BY <2>1, <2>2, <2>5, LiveViewAssumption DEF Reply, Dashboard
    <2>7. req[q].twin.move = db.move
      BY <2>6 DEF MovesAreShown
    <2>8. CASE browser.twin = NoTwin
      <3>1. Assembled(req[q].twin)
        BY <2>6 DEF TwinsAreOrdered
      <3>2. 0 <= req[q].twin.move /\ req[q].twin.move \in Int
        BY <3>1 DEF Assembled, Typed, Request, Twin
      <3>3. req[q].twin.move < 0
        BY <2>6, <2>8, TwinFacts
      <3> QED BY <3>2, <3>3
    <2>9. CASE browser.twin # NoTwin
      BY <2>2, <2>6, <2>7, <2>9 DEF MovesAreShown
    <2> QED BY <2>8, <2>9
  <1> QED BY <1>1, ViewInvariant, PTL DEF Spec, ConfirmedMoveStays
=============================================================================
