------------------------ MODULE PlantSimulatorProofs ------------------------
(***************************************************************************)
(* TransportIsFaithful holds for every transport, every cadence in which a *)
(* derived slot is also a core slot, and any number of faults, attempts    *)
(* and unacknowledged deliveries. What Fairness adds is not used.          *)
(***************************************************************************)
EXTENDS PlantSimulator, TLAPS, FiniteSetTheorems

Kind == {"core", "derived"}
Made == [run : Nat, tick : Nat, kind : Kind, at : Nat]
Stage == {"off", "loop", "make", "publish", "down"}
Positive == Nat \ {0}
Attempt == 1 .. MaxAttempts
Process ==
    [at : Stage, run : Positive, tick : Nat, core : Nat, derived : Nat, due : SUBSET Kind,
     batch : Seq(Made), sink : Positive, next : Positive, attempt : Attempt]
Entry == [msg : sent, out : BOOLEAN]

SimTyped ==
    /\ clock \in 0 .. MaxTime /\ faults \in 0 .. MaxFaults
    /\ transport \in Transport /\ sim \in Process
    /\ kafka \in Seq(made) /\ made \subseteq Made

(* The id that a message with an id or a timestamp has at every delivery. *)
IdOf(m) == IF m.id # None THEN m.id ELSE <<"mqtt", m.stamp>>

(* What the id of a delivery was resolved to, now or earlier. *)
Resolved(m, id) ==
    IF Bare(m) THEN \E t \in 0 .. clock : id = <<"mqtt", t>> ELSE id = IdOf(m)

----------------------------------------------------------------------------
(* The simulator's part.                                                   *)

(* A start of the process, and within it a tick, is never used again. *)
ReadingsAreOld ==
    \A r \in made : r.run <= sim.run /\ (r.run = sim.run => r.tick <= sim.tick)

Untold == \A r \in made : r.run # sim.run \/ r.tick # sim.tick
NoDerivedYet ==
    \A r \in made : r.run = sim.run /\ r.tick = sim.tick => r.kind # "derived"

(* The deadlines of the two cadences lie on one grid. *)
Grid ==
    /\ \E k \in Int : sim.derived - sim.core = k * CoreInterval
    /\ sim.core <= clock + CoreInterval

(* How far a pass of the dual loop is, and why its readings are new: once  *)
(* the derived readings of a tick are made, the next core slot is not      *)
(* later than the next derived one.                                        *)
DualLoop ==
    ~ Snapshots =>
      /\ Grid
      /\ sim.at = "loop" => NoDerivedYet \/ sim.core <= sim.derived
      /\ sim.at = "make" =>
           /\ NoDerivedYet /\ sim.due # {}
           /\ sim.batch = <<>> /\ "core" \in sim.due => Untold
           /\ sim.batch # <<>> => "derived" \in sim.due
      /\ sim.at = "publish" =>
           \E r \in made : /\ sim.batch = <<r>> /\ r.kind \in sim.due
                           /\ r.kind = "core" => NoDerivedYet

Batches ==
    /\ sim.batch \in Seq(made)
    /\ sim.sink = 1 \/ (sim.sink = 2 /\ transport = "kafka+http")
    /\ sim.at = "loop" => sim.batch = <<>>
    /\ Snapshots => sim.at # "make"
    /\ transport = "devices" => sim.at = "off"

(* Over HTTP: what the pass has published so far is stored. *)
HttpProgress ==
    transport = "http" =>
      /\ \A r \in made : \/ Stored(ObservationId(r))
                         \/ r \in Range(sim.batch) \/ r.run < sim.run
      /\ sim.at = "make" => \A r \in Range(sim.batch) : Stored(ObservationId(r))
      /\ sim.at = "publish" =>
           \A n \in DOMAIN sim.batch : n < sim.next => Stored(ObservationId(sim.batch[n]))

(* To both sinks: first the topic, then the store. *)
SinkProgress ==
    transport = "kafka+http" =>
      /\ sim.at = "publish" /\ sim.sink = 1 =>
           \A n \in DOMAIN sim.batch : n < sim.next => sim.batch[n] \in Range(kafka)
      /\ sim.at = "publish" /\ sim.sink = 2 =>
           /\ \A n \in DOMAIN sim.batch : sim.batch[n] \in Range(kafka)
           /\ \A n \in DOMAIN sim.batch :
                n < sim.next => Stored(ObservationId(sim.batch[n]))

----------------------------------------------------------------------------
(* The bridge's part.                                                      *)

BridgeTyped ==
    /\ online \in BOOLEAN /\ broker \in Seq(Entry)
    /\ Cardinality(Unacknowledged) <= Window
    /\ handling # None =>
         /\ handling = [msg |-> handling.msg, id |-> handling.id]
         /\ handling.msg \in sent

(* The messages of the simulator, or those of other devices, numbered. *)
Messages ==
    /\ transport = "mqtt" => \A m \in sent : \E r \in made : m = Message(r)
    /\ transport = "devices" =>
         /\ IsFiniteSet(sent)
         /\ \A m \in sent : \E n \in 0 .. Cardinality(sent) - 1 :
              m = [key |-> <<0, n, "device", 0>>, id |-> None,
                   stamp |-> m.stamp, form |-> m.form]
    /\ transport \notin {"mqtt", "devices"} => sent = {}
    /\ \A m, p \in sent : m.key = p.key => m = p

IdsInStore == \A o, p \in store : o.id = p.id => o = p

StoreFromSent ==
    transport \in {"mqtt", "devices"} =>
      \A o \in store : \E m \in sent : o.key = m.key /\ (~ Bare(m) => o.id = IdOf(m))

HandlingResolved ==
    handling # None /\ handling.id # None => Resolved(handling.msg, handling.id)

(* A message has an observation, under an id it was resolved to. *)
Settled(m) ==
    IF Bare(m) THEN \E t \in 0 .. clock : Stored(<<"mqtt", t>>) ELSE Stored(IdOf(m))

AckedSettled ==
    /\ acked \subseteq sent
    /\ \A m \in acked : m.form = "valid" => Settled(m)

SimInv ==
    /\ SimTyped /\ ReadingsAreOld /\ IdsAreUnique /\ Batches /\ DualLoop
SinkInv == SinksAgree /\ HttpProgress /\ SinkProgress
BridgeInv ==
    /\ BridgeTyped /\ Messages /\ IdsInStore /\ StoreFromSent
    /\ HandlingResolved /\ AckedSettled

TransportInv == SimInv /\ SinkInv /\ BridgeInv

----------------------------------------------------------------------------
(* The arithmetic of the deadlines.                                        *)

(* A deadline moves by whole intervals, past now, to the first slot there. *)
LEMMA AdvanceIsNextSlot ==
    ASSUME NEW d \in Nat, NEW i \in Nat \ {0}, NEW now \in Nat
    PROVE  /\ AdvancePublishDeadline(d, i, now) \in Nat
           /\ AdvancePublishDeadline(d, i, now) > now
           /\ \E k \in Nat : AdvancePublishDeadline(d, i, now) = d + k * i
           /\ d <= now + i => AdvancePublishDeadline(d, i, now) <= now + i
<1> DEFINE a == AdvancePublishDeadline(d, i, now)
<1>1. CASE now < d
  <2>1. a = d  BY <1>1 DEF AdvancePublishDeadline
  <2>2. a = d + 0 * i  BY <2>1
  <2>3. QED  BY <1>1, <2>1, <2>2
<1>2. CASE ~ (now < d)
  <2> DEFINE q == (now - d) \div i
  <2>1. q \in Nat /\ q * i <= now - d /\ now - d < q * i + i
    BY <1>2
  <2>2. a = d + (q + 1) * i  BY <1>2 DEF AdvancePublishDeadline
  <2>3. (q + 1) * i = q * i + i /\ q * i \in Nat  BY <2>1
  <2>4. a \in Nat /\ a > now /\ a <= now + i  BY <2>1, <2>2, <2>3
  <2>5. \E k \in Nat : a = d + k * i
    <3> DEFINE k == q + 1
    <3>1. k \in Nat /\ a = d + k * i  BY <2>1, <2>2
    <3> HIDE DEF k, a, q
    <3>2. QED  BY <3>1
  <2>6. QED  BY <2>4, <2>5
<1>3. QED  BY <1>1, <1>2

(* Of two deadlines on one grid, one in the next interval and the other    *)
(* after now, the first is not the later one.                              *)
LEMMA FirstSlotIsFirst ==
    ASSUME NEW a \in Int, NEW b \in Int, NEW k \in Int, NEW i \in Nat \ {0},
           NEW now \in Int, b - a = k * i, a <= now + i, b > now
    PROVE  a <= b
<1>1. SUFFICES ASSUME k < 0 PROVE FALSE
  <2>1. k >= 0 => k * i >= 0  OBVIOUS
  <2>2. QED  BY <2>1
<1>2. k * i <= -1 * i  BY <1>1
<1>3. QED  BY <1>2

(* The derived cadence is a multiple of the core cadence. *)
LEMMA DerivedIsMultiple == \E q \in Nat : DerivedInterval = q * CoreInterval
<1>1. CoreInterval \in Nat \ {0} /\ DerivedInterval \in Nat
         /\ DerivedInterval % CoreInterval = 0
  BY CadenceAssumption
<1> DEFINE q == DerivedInterval \div CoreInterval
<1>2. q \in Nat /\ DerivedInterval = q * CoreInterval  BY <1>1
<1>3. QED  BY <1>2

(* Whole intervals added to either deadline keep them on the grid. *)
LEMMA GridMoves ==
    ASSUME NEW a \in Nat, NEW b \in Nat, NEW k \in Int, NEW i \in Nat \ {0},
           NEW q \in Nat, NEW m \in Nat, NEW n \in Nat,
           b - a = k * i
    PROVE  \E l \in Int : (b + n * (q * i)) - (a + m * i) = l * i
<1>1. n * (q * i) = (n * q) * i /\ n * q \in Nat  OBVIOUS
<1> DEFINE l == (k + n * q) - m
<1>2. l \in Int  BY <1>1
<1>3. l * i = (k * i + (n * q) * i) - m * i  BY <1>1
<1>4. n * (q * i) \in Int /\ m * i \in Int  OBVIOUS
<1>5. (b + n * (q * i)) - (a + m * i) = l * i  BY <1>1, <1>3, <1>4
<1>6. QED  BY <1>2, <1>5

----------------------------------------------------------------------------
(* What the invariant gives.                                               *)

LEMMA SeqGrows ==
    ASSUME NEW S, NEW T, S \subseteq T, NEW s \in Seq(S)
    PROVE  s \in Seq(T)
OBVIOUS

(* A set whose elements are all equal has at most one. *)
LEMMA AtMostOne ==
    ASSUME NEW S, \A x, y \in S : x = y
    PROVE  Cardinality(S) <= 1
<1>1. CASE S = {}  BY <1>1, FS_EmptySet
<1>2. CASE S # {}
  <2>1. PICK x : x \in S  BY <1>2
  <2>2. S = {x}  BY <2>1
  <2>3. QED  BY <2>2, FS_Singleton
<1>3. QED  BY <1>1, <1>2

LEMMA InvGivesProperty == TransportInv => TransportIsFaithful
<1> SUFFICES ASSUME TransportInv PROVE TransportIsFaithful  OBVIOUS
<1> USE DEF TransportInv, SimInv, SinkInv, BridgeInv
<1>1. TypeOK
  BY DEF TypeOK, SimTyped, Process, Stage, Attempt, BridgeTyped
<1>2. ReadingsArrive
  BY <1>1 DEF ReadingsArrive, HttpProgress
<1>3. \A m \in acked : m.form = "valid" =>
        IF Bare(m) THEN \E t \in 0 .. clock : Stored(<<"mqtt", t>>)
        ELSE Stored(ResolveId(m))
  BY DEF AckedSettled, Settled, IdOf, ResolveId, Bare
<1>4. ASSUME NEW m \in sent, ~ Bare(m)
      PROVE  Cardinality({o \in store : o.key = m.key}) <= 1
  <2>1. ASSUME NEW o \in store, o.key = m.key
        PROVE  o.id = IdOf(m)
    <3>1. transport \in {"mqtt", "devices"}  BY DEF Messages
    <3>2. PICK p \in sent : o.key = p.key /\ (~ Bare(p) => o.id = IdOf(p))
      BY <3>1 DEF StoreFromSent
    <3>3. p = m  BY <2>1, <3>2 DEF Messages
    <3>4. QED  BY <1>4, <3>2, <3>3
  <2>2. \A o, p \in {o \in store : o.key = m.key} : o = p
    BY <2>1 DEF IdsInStore
  <2>3. QED  BY <2>2, AtMostOne
<1>5. QED
  BY <1>2, <1>3, <1>4 DEF TransportIsFaithful, AcknowledgedIsSettled

(* What the CASE of _build_publisher comes to. *)
LEMMA SinksOf ==
    /\ transport = "kafka+http" =>
         Sinks = <<"kafka", "http">> /\ Len(Sinks) = 2
    /\ transport # "kafka+http" =>
         Sinks = <<transport>> /\ Len(Sinks) = 1
<1>1. CASE transport = "kafka"  BY <1>1 DEF Sinks
<1>2. CASE transport = "kafka+http"  BY <1>2 DEF Sinks
<1>3. CASE transport \notin {"kafka", "kafka+http"}
  <2>1. Sinks = <<transport>>  BY <1>3 DEF Sinks
  <2>2. QED  BY <1>3, <2>1
<1>4. QED  BY <1>1, <1>2, <1>3

LEMMA InitHolds == Init => TransportInv
<1> SUFFICES ASSUME Init PROVE TransportInv  OBVIOUS
<1>1. Fresh(1, 0) \in Process
  <2>1. 1 \in Positive /\ 1 \in Attempt  BY CadenceAssumption DEF Positive, Attempt
  <2>2. QED  BY <2>1 DEF Fresh, Process, Kind, Stage
<1>2. sim \in Process /\ sim.batch = <<>> /\ sim.core = 0 /\ sim.derived = 0
        /\ sim.sink = 1 /\ sim.at = (IF transport = "devices" THEN "off" ELSE "loop")
  BY <1>1 DEF Init, Process, Stage, Fresh
<1>3. SimTyped
  BY <1>2, BridgeAssumption DEF Init, SimTyped
<1>4. ReadingsAreOld /\ IdsAreUnique
  BY DEF Init, ReadingsAreOld, IdsAreUnique
<1>5. Batches
  <2>1. sim.batch \in Seq(made)  BY <1>2
  <2>2. QED  BY <1>2, <2>1 DEF Batches
<1>6. DualLoop
  <2>1. 0 - 0 = 0 * CoreInterval /\ 0 <= 0 + CoreInterval  BY CadenceAssumption
  <2>2. Grid  BY <1>2, <2>1 DEF Init, Grid
  <2>3. QED  BY <1>2, <2>2 DEF Init, DualLoop
<1>7. SinkInv
  BY <1>2 DEF Init, SinkInv, SinksAgree, HttpProgress, SinkProgress
<1>8. BridgeTyped
  <2>1. Unacknowledged = {}  BY DEF Init, Unacknowledged
  <2>2. QED  BY <2>1, FS_EmptySet, BridgeAssumption DEF Init, BridgeTyped
<1>9. Messages
  BY FS_EmptySet DEF Init, Messages
<1>10. QED
  BY <1>3, <1>4, <1>5, <1>6, <1>7, <1>8, <1>9
  DEF Init, TransportInv, SimInv, BridgeInv, IdsInStore, StoreFromSent,
      HandlingResolved, AckedSettled

----------------------------------------------------------------------------
(* The simulator's actions keep the simulator's part.                      *)

(* A step that leaves the readings and the process alone. *)
LEMMA IdleSim ==
    ASSUME SimInv, clock' \in 0 .. MaxTime, clock' >= clock, faults' \in 0 .. MaxFaults,
           UNCHANGED <<transport, sim, kafka, made>>
    PROVE  SimInv'
<1> USE DEF SimInv
<1>1. SimTyped'  BY DEF SimTyped
<1>2. ReadingsAreOld' /\ IdsAreUnique'
  BY DEF ReadingsAreOld, IdsAreUnique, ObservationId
<1>3. Batches'  BY DEF Batches, Snapshots
<1>4. Grid => Grid'
  <2>1. CoreInterval \in Nat /\ clock \in Nat /\ clock' \in Nat /\ sim.core \in Nat
    BY CadenceAssumption, BridgeAssumption DEF SimTyped, Process
  <2>2. sim.core <= clock + CoreInterval => sim'.core <= clock' + CoreInterval
    BY <2>1
  <2>3. QED  BY <2>2 DEF Grid
<1>5. DualLoop'
  BY <1>4 DEF DualLoop, Snapshots, NoDerivedYet, Untold
<1>6. QED  BY <1>1, <1>2, <1>3, <1>5

(* A publish goes on to the next reading, tries again, or fails. *)
Progress ==
    /\ sim.at = "publish"
    /\ \/ Advance \/ Crash
       \/ sim.attempt # MaxAttempts /\ sim' = [sim EXCEPT !.attempt = @ + 1]
    /\ UNCHANGED <<clock, transport, made>>

LEMMA ProgressSim ==
    ASSUME SimInv, Progress, kafka' \in Seq(made), faults' \in 0 .. MaxFaults
    PROVE  SimInv'
<1> USE DEF SimInv
<1>1. /\ sim' \in Process
      /\ sim'.at \in {"publish", "down"} /\ sim'.batch = sim.batch
      /\ sim'.run = sim.run /\ sim'.tick = sim.tick /\ sim'.due = sim.due
      /\ sim'.core = sim.core /\ sim'.derived = sim.derived /\ sim'.sink = sim.sink
  <2>1. sim \in Process /\ "publish" \in Stage /\ "down" \in Stage
    BY DEF SimTyped, Stage
  <2>2. sim.next \in Positive /\ sim.attempt \in Attempt  BY <2>1 DEF Process
  <2>3. CASE Advance
    <3> DEFINE n == sim.next + 1
    <3>1. n \in Positive /\ 1 \in Attempt
      BY <2>2, CadenceAssumption DEF Positive, Attempt
    <3>2. sim' = [sim EXCEPT !.next = n, !.attempt = 1]  BY <2>3 DEF Advance
    <3> HIDE DEF n
    <3>3. QED  BY <2>1, <3>1, <3>2 DEF Process, Progress
  <2>4. CASE Crash  BY <2>1, <2>4 DEF Crash, Process
  <2>5. CASE sim.attempt # MaxAttempts /\ sim' = [sim EXCEPT !.attempt = @ + 1]
    <3> DEFINE n == sim.attempt + 1
    <3>1. n \in Attempt  BY <2>2, <2>5, CadenceAssumption DEF Attempt
    <3>2. sim' = [sim EXCEPT !.attempt = n]  BY <2>5
    <3> HIDE DEF n
    <3>3. QED  BY <2>1, <3>1, <3>2 DEF Process, Progress
  <2>6. QED  BY <2>3, <2>4, <2>5 DEF Progress
<1>2. SimTyped'  BY <1>1 DEF SimTyped, Progress
<1>3. ReadingsAreOld' /\ IdsAreUnique'
  BY <1>1 DEF ReadingsAreOld, IdsAreUnique, ObservationId, Progress
<1>4. Batches'
  BY <1>1 DEF Batches, Snapshots, Progress
<1>5. DualLoop'
  BY <1>1 DEF DualLoop, Grid, Snapshots, NoDerivedYet, Untold, Progress
<1>6. QED  BY <1>2, <1>3, <1>4, <1>5

LEMMA NextSinkSim ==
    ASSUME SimInv, NextSink
    PROVE  SimInv'
<1> USE DEF SimInv
<1>1. /\ sim' \in Process /\ sim.at = "publish" /\ sim.sink < Len(Sinks)
      /\ sim'.at = "publish" /\ sim'.batch = sim.batch
      /\ sim'.run = sim.run /\ sim'.tick = sim.tick /\ sim'.due = sim.due
      /\ sim'.core = sim.core /\ sim'.derived = sim.derived
      /\ sim'.sink = sim.sink + 1 /\ sim.sink \in Nat
  <2> DEFINE n == sim.sink + 1
  <2>1. sim \in Process  BY DEF SimTyped
  <2>2. sim.sink \in Positive  BY <2>1 DEF Process
  <2>3. n \in Positive /\ 1 \in Positive /\ sim.sink \in Nat  BY <2>2 DEF Positive
  <2>4. sim' = [sim EXCEPT !.sink = n, !.next = 1]  BY DEF NextSink
  <2> HIDE DEF n
  <2>5. /\ sim' \in Process /\ sim'.at = sim.at /\ sim'.batch = sim.batch
        /\ sim'.run = sim.run /\ sim'.tick = sim.tick /\ sim'.due = sim.due
        /\ sim'.core = sim.core /\ sim'.derived = sim.derived /\ sim'.sink = n
    BY <2>1, <2>3, <2>4 DEF Process
  <2>6. QED  BY <2>3, <2>5 DEF NextSink, n
<1>2. transport = "kafka+http" /\ sim.sink = 1
  <2>1. transport # "kafka+http" => Len(Sinks) = 1  BY SinksOf
  <2>2. transport = "kafka+http" => Len(Sinks) = 2  BY SinksOf
  <2> DEFINE n == Len(Sinks)
  <2>3. transport # "kafka+http" => n = 1  BY <2>1
  <2>4. transport = "kafka+http" => n = 2  BY <2>2
  <2>5. sim.sink < n  BY <1>1
  <2> HIDE DEF n
  <2>6. QED  BY <1>1, <2>3, <2>4, <2>5 DEF Batches
<1>3. SimTyped'  BY <1>1 DEF SimTyped, NextSink, bridgeOnly
<1>4. ReadingsAreOld' /\ IdsAreUnique'
  BY <1>1 DEF ReadingsAreOld, IdsAreUnique, ObservationId, NextSink
<1>5. Batches'
  BY <1>1, <1>2 DEF Batches, Snapshots, NextSink
<1>6. DualLoop'
  BY <1>1, <1>2 DEF DualLoop, Snapshots, NextSink
<1>7. QED  BY <1>3, <1>4, <1>5, <1>6

LEMMA WakeSim ==
    ASSUME SimInv, Wake
    PROVE  SimInv'
<1> USE DEF SimInv
<1> DEFINE T == IF clock >= sim.core THEN sim.tick + 1 ELSE sim.tick
           D == {k \in Kind : clock >= sim[k]}
<1>1. sim \in Process /\ clock \in Nat /\ made \subseteq Made
  BY BridgeAssumption DEF SimTyped
<1>2. sim.tick \in Nat /\ sim.core \in Nat /\ sim.derived \in Nat /\ sim.run \in Nat
  BY <1>1 DEF Process, Positive
<1>3. /\ T \in Nat /\ T >= sim.tick
      /\ clock >= sim.core => T > sim.tick
      /\ ~ (clock >= sim.core) => T = sim.tick
  BY <1>2
<1>4. /\ D \in SUBSET Kind /\ D # {}
      /\ "core" \in D => clock >= sim.core
      /\ "core" \notin D => ~ (clock >= sim.core) /\ clock >= sim.derived
  BY DEF Wake, Kind
<1>5. sim' = [sim EXCEPT !.at = "make", !.tick = T, !.due = D]
  BY DEF Wake, Kind
<1> HIDE DEF T, D
<1>6. /\ sim' \in Process /\ sim'.at = "make" /\ sim'.tick = T /\ sim'.due = D
      /\ sim'.batch = sim.batch /\ sim'.run = sim.run /\ sim'.sink = sim.sink
      /\ sim'.core = sim.core /\ sim'.derived = sim.derived
  BY <1>1, <1>3, <1>4, <1>5 DEF Process, Stage
<1>7. SimTyped'  BY <1>6 DEF SimTyped, Wake, bridgeOnly
<1>8. ReadingsAreOld' /\ IdsAreUnique'
  <2>1. \A r \in made : r.run = sim.run => r.tick <= T
    BY <1>1, <1>2, <1>3 DEF ReadingsAreOld, Made
  <2>2. QED
    BY <1>6, <2>1 DEF ReadingsAreOld, IdsAreUnique, ObservationId, Wake
<1>9. Batches'
  BY <1>6 DEF Batches, Snapshots, Wake
<1>10. DualLoop'
  <2>1. Grid'
    BY <1>6 DEF DualLoop, Grid, Wake, bridgeOnly
  <2>2. clock >= sim.core => Untold'
    <3>1. \A r \in made : r.run = sim.run /\ clock >= sim.core => r.tick # T
      BY <1>1, <1>2, <1>3 DEF ReadingsAreOld, Made
    <3>2. QED  BY <1>6, <3>1 DEF Untold, Wake
  <2>3. ~ (clock >= sim.core) => NoDerivedYet'
    <3>1. ASSUME ~ (clock >= sim.core) PROVE NoDerivedYet
      <4>1. ~ (sim.core <= sim.derived)  BY <1>1, <1>2, <1>4, <3>1
      <4>2. QED  BY <4>1 DEF DualLoop, Wake
    <3>2. QED  BY <1>3, <1>6, <3>1 DEF NoDerivedYet, Wake
  <2>4. Untold' => NoDerivedYet'  BY DEF Untold, NoDerivedYet
  <2>5. sim'.batch = <<>>  BY <1>6 DEF Batches, Wake
  <2>6. QED
    BY <1>4, <1>6, <2>1, <2>2, <2>3, <2>4, <2>5 DEF DualLoop
<1>11. QED  BY <1>7, <1>8, <1>9, <1>10

LEMMA MakeSim ==
    ASSUME SimInv, Make
    PROVE  SimInv'
<1> USE DEF SimInv
<1> DEFINE kind == IF "core" \in sim.due /\ sim.batch = <<>> THEN "core" ELSE "derived"
           r == Reading(kind)
<1>1. sim \in Process /\ clock \in Nat /\ made \subseteq Made
  BY BridgeAssumption DEF SimTyped
<1>2. kind \in Kind  BY DEF Kind
<1>3. sim.run \in Nat /\ sim.tick \in Nat /\ sim.due \in SUBSET Kind
  BY <1>1 DEF Process, Positive
<1>4. /\ ~ Snapshots /\ Grid /\ NoDerivedYet
      /\ kind = "core" => Untold
      /\ kind \in sim.due
  BY <1>3 DEF Make, Batches, DualLoop, Kind
<1>5. /\ sim' = [sim EXCEPT !.at = "publish", !.batch = <<r>>,
                   !.sink = 1, !.next = 1, !.attempt = 1]
      /\ made' = made \cup {r}
  BY DEF Make, Publishing
<1> HIDE DEF kind
<1>6. /\ r \in Made /\ r.run = sim.run /\ r.tick = sim.tick /\ r.kind = kind
  BY <1>1, <1>2, <1>3 DEF Reading, Made
<1> HIDE DEF r
<1>7. /\ sim' \in Process /\ sim'.at = "publish" /\ sim'.batch = <<r>>
      /\ sim'.tick = sim.tick /\ sim'.due = sim.due /\ sim'.run = sim.run
      /\ sim'.sink = 1 /\ sim'.core = sim.core /\ sim'.derived = sim.derived
  <2>1. 1 \in Positive /\ 1 \in Attempt  BY CadenceAssumption DEF Positive, Attempt
  <2>2. <<r>> \in Seq(Made)  BY <1>6
  <2>3. QED  BY <1>1, <1>5, <2>1, <2>2 DEF Process, Stage
<1>8. SimTyped'
  BY <1>5, <1>6, <1>7, SeqGrows DEF SimTyped, Make, bridgeOnly
<1>9. ReadingsAreOld'
  BY <1>3, <1>5, <1>6, <1>7 DEF ReadingsAreOld
<1>10. \A s \in made : ~ (s.run = r.run /\ s.tick = r.tick /\ s.kind = r.kind)
  BY <1>2, <1>4, <1>6 DEF Untold, NoDerivedYet, Kind
<1>11. IdsAreUnique'
  BY <1>5, <1>10 DEF IdsAreUnique, ObservationId
<1>12. Batches'
  BY <1>4, <1>5, <1>7 DEF Batches, Snapshots, Make
<1>13. DualLoop'
  <2>1. Grid'  BY <1>4, <1>7 DEF Grid, Make, bridgeOnly
  <2>2. kind = "core" => NoDerivedYet'
    BY <1>4, <1>5, <1>6, <1>7 DEF NoDerivedYet
  <2>3. QED
    BY <1>4, <1>5, <1>6, <1>7, <2>1, <2>2 DEF DualLoop
<1>14. QED  BY <1>8, <1>9, <1>11, <1>12, <1>13

(* The two readings of a snapshot. *)
Told(kind) == [run |-> sim.run, tick |-> sim.tick + 1, kind |-> kind, at |-> clock]

LEMMA SnapshotShape ==
    ASSUME SimInv, Snapshot
    PROVE  /\ sim' \in Process /\ sim'.at = "publish" /\ sim'.sink = 1 /\ sim'.next = 1
           /\ sim'.batch = <<Told("core"), Told("derived")>>
           /\ sim'.run = sim.run /\ sim'.tick = sim.tick + 1
           /\ Told("core") \in Made /\ Told("derived") \in Made
           /\ made' = made \cup {Told("core"), Told("derived")}
<1> USE DEF SimInv
<1> DEFINE a == Told("core")
           b == Told("derived")
           n == clock + SnapshotInterval
           t == sim.tick + 1
<1>1. sim \in Process /\ clock \in Nat  BY BridgeAssumption DEF SimTyped
<1>2. sim.run \in Nat /\ sim.tick \in Nat  BY <1>1 DEF Process, Positive
<1>3. a \in Made /\ b \in Made  BY <1>1, <1>2 DEF Told, Made, Kind
<1>4. [i \in 1 .. 2 |-> [Reading(Kinds[i]) EXCEPT !.tick = @ + 1]] = <<a, b>>
  BY DEF Reading, Kinds, Told
<1>5. Range(<<a, b>>) = {a, b}  BY DEF Range
<1>6. /\ sim' = [sim EXCEPT !.at = "publish", !.batch = <<a, b>>, !.sink = 1, !.next = 1,
                   !.attempt = 1, !.tick = t, !.due = {"core", "derived"},
                   !.core = n, !.derived = n]
      /\ made' = made \cup {a, b}
  BY <1>4, <1>5 DEF Snapshot
<1>7. n \in Nat /\ t \in Nat  BY <1>1, <1>2, CadenceAssumption
<1>8. 1 \in Positive /\ 1 \in Attempt  BY CadenceAssumption DEF Positive, Attempt
<1> HIDE DEF a, b, n, t
<1>9. <<a, b>> \in Seq(Made)  BY <1>3
<1>10. /\ sim' \in Process /\ sim'.at = "publish" /\ sim'.sink = 1 /\ sim'.next = 1
       /\ sim'.batch = <<a, b>> /\ sim'.run = sim.run /\ sim'.tick = t
  BY <1>1, <1>6, <1>7, <1>8, <1>9 DEF Process, Stage, Kind
<1>11. QED  BY <1>3, <1>6, <1>10 DEF a, b, t

LEMMA SnapshotSim ==
    ASSUME SimInv, Snapshot
    PROVE  SimInv'
<1> USE DEF SimInv
<1> DEFINE a == Told("core")
           b == Told("derived")
<1>1. /\ sim' \in Process /\ sim'.at = "publish" /\ sim'.sink = 1
      /\ sim'.batch = <<a, b>> /\ sim'.run = sim.run /\ sim'.tick = sim.tick + 1
      /\ a \in Made /\ b \in Made /\ made' = made \cup {a, b}
  BY SnapshotShape
<1>2. /\ a.run = sim.run /\ a.tick = sim.tick + 1 /\ a.kind = "core"
      /\ b.run = sim.run /\ b.tick = sim.tick + 1 /\ b.kind = "derived"
  BY DEF Told
<1> HIDE DEF a, b
<1>3. sim.run \in Nat /\ sim.tick \in Nat /\ made \subseteq Made
  BY DEF SimTyped, Process, Positive
<1>4. SimTyped'
  BY <1>1, SeqGrows DEF SimTyped, Snapshot, bridgeOnly
<1>5. ReadingsAreOld'
  BY <1>1, <1>2, <1>3 DEF ReadingsAreOld, Made
<1>6. \A s \in made : s.run = sim.run => s.tick # sim.tick + 1
  BY <1>3 DEF ReadingsAreOld, Made
<1>7. IdsAreUnique'
  <2> SUFFICES ASSUME NEW x \in made', NEW y \in made',
                      x.run = y.run, x.tick = y.tick, x.kind = y.kind
               PROVE  x = y
    BY DEF IdsAreUnique, ObservationId
  <2>1. CASE x \in made /\ y \in made
    BY <2>1 DEF IdsAreUnique, ObservationId
  <2>2. QED  BY <1>1, <1>2, <1>6, <2>1
<1>8. Batches'
  BY <1>1 DEF Batches, Snapshots, Snapshot
<1>9. DualLoop'
  BY DEF DualLoop, Snapshots, Snapshot
<1>10. QED  BY <1>4, <1>5, <1>7, <1>8, <1>9

LEMMA RestartSim ==
    ASSUME SimInv, Restart
    PROVE  SimInv'
<1> USE DEF SimInv
<1> DEFINE n == sim.run + 1
<1>1. sim \in Process /\ clock \in Nat /\ made \subseteq Made
  BY BridgeAssumption DEF SimTyped
<1>2. sim.run \in Nat  BY <1>1 DEF Process, Positive
<1>3. n \in Positive /\ n > sim.run /\ 1 \in Positive /\ 1 \in Attempt
  BY <1>2, CadenceAssumption DEF Positive, Attempt
<1>4. sim' = Fresh(n, clock)  BY DEF Restart
<1> HIDE DEF n
<1>5. /\ sim' \in Process /\ sim'.at = "loop" /\ sim'.batch = <<>> /\ sim'.run = n
      /\ sim'.sink = 1 /\ sim'.core = clock /\ sim'.derived = clock
  BY <1>1, <1>3, <1>4 DEF Process, Stage, Fresh
<1>6. SimTyped'  BY <1>5 DEF SimTyped, Restart, bridgeOnly
<1>7. \A r \in made : r.run < n
  BY <1>1, <1>2, <1>3 DEF ReadingsAreOld, Made, Positive
<1>8. n \in Nat  BY <1>3 DEF Positive
<1>9. ReadingsAreOld' /\ IdsAreUnique'
  BY <1>1, <1>5, <1>7, <1>8 DEF ReadingsAreOld, IdsAreUnique, ObservationId, Restart, Made
<1>10. Batches'
  <2>1. <<>> \in Seq(made')  OBVIOUS
  <2>2. QED  BY <1>5, <2>1 DEF Batches, Snapshots, Restart
<1>11. DualLoop'
  <2>1. clock - clock = 0 * CoreInterval /\ clock <= clock + CoreInterval
    BY <1>1, CadenceAssumption
  <2>2. clock' = clock  BY DEF Restart, bridgeOnly
  <2>3. Grid'  BY <1>5, <2>1, <2>2 DEF Grid
  <2>4. NoDerivedYet'
    BY <1>1, <1>5, <1>7, <1>8 DEF NoDerivedYet, Restart, Made
  <2>5. QED  BY <1>5, <2>3, <2>4 DEF DualLoop
<1>12. QED  BY <1>6, <1>9, <1>10, <1>11

LEMMA FinishSim ==
    ASSUME SimInv, Finish
    PROVE  SimInv'
<1> USE DEF SimInv
<1>1. sim \in Process /\ clock \in Nat /\ made \subseteq Made
  BY BridgeAssumption DEF SimTyped
<1>2. sim.core \in Nat /\ sim.derived \in Nat  BY <1>1 DEF Process
<1> DEFINE C == IF "core" \in sim.due /\ ~ Snapshots
                THEN AdvancePublishDeadline(sim.core, CoreInterval, clock) ELSE sim.core
           D == IF "derived" \in sim.due /\ ~ Snapshots
                THEN AdvancePublishDeadline(sim.derived, DerivedInterval, clock)
                ELSE sim.derived
           goesOn == ~ Snapshots /\ sim.due = {"core", "derived"} /\ sim.batch[1].kind = "core"
<1>3. CoreInterval \in Nat \ {0} /\ DerivedInterval \in Nat \ {0}
  BY CadenceAssumption
<1>4. /\ C \in Nat /\ \E m \in Nat : C = sim.core + m * CoreInterval
      /\ sim.core <= clock + CoreInterval => C <= clock + CoreInterval
  <2> DEFINE A == AdvancePublishDeadline(sim.core, CoreInterval, clock)
  <2>1. sim.core = sim.core + 0 * CoreInterval  BY <1>2, <1>3
  <2>2. /\ A \in Nat /\ A > clock /\ \E m \in Nat : A = sim.core + m * CoreInterval
        /\ sim.core <= clock + CoreInterval => A <= clock + CoreInterval
    BY <1>1, <1>2, <1>3, AdvanceIsNextSlot
  <2>3. C = A \/ (C = sim.core /\ ~ ("core" \in sim.due /\ ~ Snapshots))  OBVIOUS
  <2> HIDE DEF A, C
  <2>4. QED  BY <1>1, <1>2, <2>1, <2>2, <2>3
<1>5. /\ D \in Nat /\ \E m \in Nat : D = sim.derived + m * DerivedInterval
      /\ "derived" \in sim.due /\ ~ Snapshots => D > clock
  <2> DEFINE A == AdvancePublishDeadline(sim.derived, DerivedInterval, clock)
  <2>1. sim.derived = sim.derived + 0 * DerivedInterval  BY <1>2, <1>3
  <2>2. /\ A \in Nat /\ A > clock /\ \E m \in Nat : A = sim.derived + m * DerivedInterval
        /\ sim.derived <= clock + DerivedInterval => A <= clock + DerivedInterval
    BY <1>1, <1>2, <1>3, AdvanceIsNextSlot
  <2>3. D = A \/ (D = sim.derived /\ ~ ("derived" \in sim.due /\ ~ Snapshots))  OBVIOUS
  <2> HIDE DEF A, D
  <2>4. QED  BY <1>1, <1>2, <2>1, <2>2, <2>3
<1>6. Grid => \E l \in Int : D - C = l * CoreInterval
  <2> SUFFICES ASSUME Grid PROVE \E l \in Int : D - C = l * CoreInterval  OBVIOUS
  <2>1. PICK k \in Int : sim.derived - sim.core = k * CoreInterval  BY DEF Grid
  <2>2. PICK m \in Nat : C = sim.core + m * CoreInterval  BY <1>4
  <2>3. PICK n \in Nat : D = sim.derived + n * DerivedInterval  BY <1>5
  <2>4. PICK q \in Nat : DerivedInterval = q * CoreInterval  BY DerivedIsMultiple
  <2> HIDE DEF C, D
  <2> DEFINE a == sim.core
             b == sim.derived
             i == CoreInterval
  <2>5. a \in Nat /\ b \in Nat /\ i \in Nat \ {0} /\ b - a = k * i
        /\ C = a + m * i /\ D = b + n * (q * i)
    BY <1>2, <1>3, <2>1, <2>2, <2>3, <2>4
  <2> HIDE DEF a, b, i
  <2>6. \E l \in Int : (b + n * (q * i)) - (a + m * i) = l * i
    BY <2>5, GridMoves
  <2>7. QED  BY <2>5, <2>6 DEF i
<1>7. /\ goesOn => sim' = [sim EXCEPT !.at = "make"]
      /\ ~ goesOn => sim' = [sim EXCEPT !.at = "loop", !.batch = <<>>, !.due = {},
                                        !.core = C, !.derived = D]
  BY DEF Finish
<1>8. /\ sim.at = "publish"
      /\ goesOn => ~ Snapshots /\ sim.due = {"core", "derived"} /\ sim.batch[1].kind = "core"
      /\ ~ goesOn => Snapshots \/ sim.due # {"core", "derived"} \/ sim.batch[1].kind # "core"
  BY DEF Finish
<1> HIDE DEF C, D, goesOn
<1>9. /\ sim' \in Process /\ sim'.run = sim.run /\ sim'.tick = sim.tick
      /\ sim'.sink = sim.sink
      /\ goesOn => /\ sim'.at = "make" /\ sim'.batch = sim.batch /\ sim'.due = sim.due
                   /\ sim'.core = sim.core /\ sim'.derived = sim.derived
      /\ ~ goesOn => /\ sim'.at = "loop" /\ sim'.batch = <<>>
                     /\ sim'.core = C /\ sim'.derived = D
  <2>1. CASE goesOn  BY <1>1, <1>7, <2>1 DEF Process, Stage
  <2>2. CASE ~ goesOn
    <3>1. C \in Nat /\ D \in Nat  BY <1>4, <1>5
    <3>2. {} \in SUBSET Kind /\ <<>> \in Seq(Made) /\ "loop" \in Stage  BY DEF Stage
    <3>3. sim' = [sim EXCEPT !.at = "loop", !.batch = <<>>, !.due = {},
                            !.core = C, !.derived = D]
      BY <1>7, <2>2
    <3>4. QED  BY <1>1, <2>2, <3>1, <3>2, <3>3 DEF Process
  <2>3. QED  BY <2>1, <2>2
<1>10. UNCHANGED <<clock, faults, transport, kafka, made>>
  BY DEF Finish, bridgeOnly
<1>11. SimTyped'  BY <1>9, <1>10 DEF SimTyped
<1>12. ReadingsAreOld' /\ IdsAreUnique'
  BY <1>9, <1>10 DEF ReadingsAreOld, IdsAreUnique, ObservationId
<1>13. Batches'
  <2>1. <<>> \in Seq(made)  OBVIOUS
  <2>2. QED  BY <1>8, <1>9, <1>10, <2>1 DEF Batches, Snapshots
<1>14. DualLoop'
  <2> SUFFICES ASSUME ~ Snapshots PROVE DualLoop'
    BY <1>10 DEF DualLoop, Snapshots
  <2>1. PICK r \in made : sim.batch = <<r>> /\ r.kind \in sim.due
                            /\ (r.kind = "core" => NoDerivedYet)
    BY <1>8 DEF DualLoop
  <2>2. sim.batch[1] = r /\ r.kind \in Kind /\ sim.due \in SUBSET Kind
    BY <1>1, <2>1 DEF Made, Process
  <2>3. Grid  BY DEF DualLoop
  <2>4. NoDerivedYet <=> NoDerivedYet'
    BY <1>9, <1>10 DEF NoDerivedYet
  <2>5. CASE goesOn
    <3>1. Grid'  BY <1>9, <1>10, <2>3, <2>5 DEF Grid
    <3>2. NoDerivedYet'  BY <1>8, <2>1, <2>2, <2>4, <2>5
    <3>3. sim'.at = "make" /\ sim'.batch # <<>> /\ "derived" \in sim'.due
      <4>1. <<r>> # <<>>  OBVIOUS
      <4>2. QED  BY <1>8, <1>9, <2>1, <2>5, <4>1
    <3>4. QED  BY <3>1, <3>2, <3>3 DEF DualLoop
  <2>6. CASE ~ goesOn
    <3>1. sim.core <= clock + CoreInterval  BY <2>3 DEF Grid
    <3>2. C <= clock + CoreInterval  BY <1>4, <3>1
    <3>3. PICK l \in Int : D - C = l * CoreInterval  BY <1>6, <2>3
    <3>4. Grid'  BY <1>9, <1>10, <2>6, <3>2, <3>3 DEF Grid
    <3>5. NoDerivedYet' \/ C <= D
      <4>1. CASE r.kind = "core"  BY <2>1, <2>4, <4>1
      <4>2. CASE r.kind = "derived"
        <5>1. D > clock  BY <1>5, <2>1, <4>2
        <5>2. C <= D
          BY <1>1, <1>3, <1>4, <1>5, <3>2, <3>3, <5>1, FirstSlotIsFirst
        <5>3. QED  BY <5>2
      <4>3. QED  BY <2>2, <4>1, <4>2 DEF Kind
    <3>6. sim'.at = "loop" /\ sim'.core = C /\ sim'.derived = D  BY <1>9, <2>6
    <3>7. QED  BY <3>4, <3>5, <3>6 DEF DualLoop
  <2>7. QED  BY <2>5, <2>6
<1>15. QED  BY <1>11, <1>12, <1>13, <1>14

----------------------------------------------------------------------------
(* The simulator's actions keep what the sinks have.                       *)

(* Nothing is to be shown for a transport with neither HTTP nor two sinks. *)
LEMMA OtherTransport ==
    ASSUME transport \notin {"http", "kafka+http"}, UNCHANGED transport
    PROVE  SinkInv'
BY DEF SinkInv, SinksAgree, HttpProgress, SinkProgress

(* A step after which the batch is under way as before, or empty. *)
LEMMA IdleSinks ==
    ASSUME SinkInv, UNCHANGED <<transport, store, kafka, made>>,
           sim'.batch = sim.batch, sim'.run = sim.run,
           \/ sim'.at = sim.at /\ sim'.next = sim.next /\ sim'.sink = sim.sink
           \/ sim'.at = "down"
           \/ sim'.at \in {"loop", "make"} /\ sim.batch = <<>>
    PROVE  SinkInv'
<1> USE DEF SinkInv
<1>1. Range(<<>>) = {}  BY DEF Range
<1>3. \A id : Stored(id)' <=> Stored(id)  BY DEF Stored
<1>4. SinksAgree'  BY <1>3 DEF SinksAgree
<1>5. HttpProgress'  BY <1>1, <1>3 DEF HttpProgress
<1>6. SinkProgress'  BY <1>3 DEF SinkProgress
<1>7. QED  BY <1>4, <1>5, <1>6

LEMMA MakeSinks ==
    ASSUME SimInv, SinkInv, Make
    PROVE  SinkInv'
<1> USE DEF SimInv, SinkInv
<1>1. transport # "kafka+http" /\ transport' = transport
  BY DEF Make, Batches, Snapshots
<1> SUFFICES ASSUME transport = "http" PROVE SinkInv'
  BY <1>1, OtherTransport
<1>2. PICK r : /\ sim' = [sim EXCEPT !.at = "publish", !.batch = <<r>>,
                                    !.sink = 1, !.next = 1, !.attempt = 1]
               /\ made' = made \cup {r}
  BY DEF Make, Publishing
<1>3. sim \in Process  BY DEF SimTyped
<1>4. sim'.at = "publish" /\ sim'.batch = <<r>> /\ sim'.next = 1 /\ sim'.run = sim.run
  BY <1>2, <1>3 DEF Process
<1>5. \A n \in DOMAIN <<r>> : ~ (n < 1)  OBVIOUS
<1>6. r \in Range(<<r>>)  BY DEF Range
<1>7. \A s \in made : Stored(ObservationId(s)) \/ s.run < sim.run
  BY DEF HttpProgress, Make
<1>8. \A id : Stored(id)' <=> Stored(id)  BY DEF Stored, Make, bridgeOnly
<1>9. HttpProgress'
  BY <1>2, <1>4, <1>5, <1>6, <1>7, <1>8 DEF HttpProgress
<1>10. QED  BY <1>1, <1>9 DEF SinksAgree, SinkProgress

LEMMA SnapshotSinks ==
    ASSUME SimInv, SinkInv, Snapshot
    PROVE  SinkInv'
<1> USE DEF SimInv, SinkInv
<1>1. transport # "http" /\ transport' = transport
  BY DEF Snapshot, Snapshots
<1>2. sim'.at = "publish" /\ sim'.next = 1 /\ sim'.sink = 1 /\ sim'.run = sim.run
      /\ sim'.batch = <<Told("core"), Told("derived")>>
  BY SnapshotShape
<1>3. sim.batch = <<>>  BY DEF Snapshot, Batches
<1>4. Range(<<>>) = {}  BY DEF Range
<1>5. \A id : Stored(id)' <=> Stored(id)  BY DEF Stored, Snapshot, bridgeOnly
<1>6. store' = store /\ kafka' = kafka  BY DEF Snapshot, bridgeOnly
<1>7. SinksAgree'
  BY <1>1, <1>2, <1>3, <1>4, <1>5, <1>6 DEF SinksAgree
<1>8. SinkProgress'
  <2>1. \A n \in DOMAIN sim'.batch : ~ (n < 1)  BY <1>2
  <2>2. QED  BY <1>2, <2>1 DEF SinkProgress
<1>9. QED  BY <1>1, <1>7, <1>8 DEF HttpProgress

(* Where a reading goes says how far the publisher is. *)
LEMMA WhichSink ==
    ASSUME SimInv, NEW s, PublishingTo(s)
    PROVE  /\ s = "http" => \/ transport = "http" /\ sim.sink = 1
                            \/ transport = "kafka+http" /\ sim.sink = 2
           /\ s = "kafka" => \/ transport = "kafka" /\ sim.sink = 1
                             \/ transport = "kafka+http" /\ sim.sink = 1
           /\ s = "mqtt" => transport = "mqtt"
           /\ sim.at = "publish" /\ sim.next \in DOMAIN sim.batch
           /\ Current \in Range(sim.batch) /\ Current \in made
<1> USE DEF SimInv
<1>1. sim.at = "publish" /\ sim.next <= Len(sim.batch) /\ Sinks[sim.sink] = s
  BY DEF PublishingTo, Sink
<1>2. sim.batch \in Seq(made) /\ sim.next \in Nat \ {0}
  BY DEF Batches, SimTyped, Process, Positive
<1>3. sim.next \in DOMAIN sim.batch /\ Current \in made  BY <1>1, <1>2 DEF Current
<1>4. Current \in Range(sim.batch)  BY <1>3 DEF Range, Current
<1>5. CASE sim.sink = 2 /\ transport = "kafka+http"
  <2>1. s = "http"  BY <1>1, <1>5, SinksOf
  <2>2. QED  BY <1>1, <1>3, <1>4, <1>5, <2>1
<1>6. CASE sim.sink = 1 /\ transport = "kafka+http"
  <2>1. s = "kafka"  BY <1>1, <1>6, SinksOf
  <2>2. QED  BY <1>1, <1>3, <1>4, <1>6, <2>1
<1>7. CASE sim.sink = 1 /\ transport # "kafka+http"
  <2>1. s = transport  BY <1>1, <1>7, SinksOf
  <2>2. QED  BY <1>1, <1>3, <1>4, <1>7, <2>1
<1>8. QED  BY <1>5, <1>6, <1>7 DEF Batches

LEMMA AdvanceFields ==
    ASSUME SimInv, Advance
    PROVE  /\ sim'.at = sim.at /\ sim'.batch = sim.batch /\ sim'.run = sim.run
           /\ sim'.sink = sim.sink /\ sim'.next = sim.next + 1
BY DEF SimInv, SimTyped, Process, Advance

LEMMA CrashFields ==
    ASSUME SimInv, Crash
    PROVE  sim'.at = "down" /\ sim'.batch = sim.batch /\ sim'.run = sim.run
BY DEF SimInv, SimTyped, Process, Crash

LEMMA KafkaSendSinks ==
    ASSUME SimInv, SinkInv, KafkaSend
    PROVE  SinkInv'
<1> USE DEF SinkInv
<1>1. PublishingTo("kafka") /\ UNCHANGED <<store, transport, made>>
  BY DEF KafkaSend, bridgeOnly
<1>2. CASE UNCHANGED kafka /\ Crash  BY <1>1, <1>2, CrashFields, IdleSinks
<1>3. CASE kafka' = Append(kafka, Current) /\ Advance
  <2>1. /\ transport \in {"kafka", "kafka+http"} /\ sim.sink = 1 /\ sim.at = "publish"
        /\ sim.next \in DOMAIN sim.batch /\ Current \in Range(sim.batch)
    BY <1>1, WhichSink
  <2> SUFFICES ASSUME transport = "kafka+http" PROVE SinkInv'
    BY <1>1, <2>1, OtherTransport
  <2>2. /\ sim'.at = sim.at /\ sim'.batch = sim.batch /\ sim'.run = sim.run
        /\ sim'.sink = sim.sink /\ sim'.next = sim.next + 1
    BY <1>3, AdvanceFields
  <2>3. kafka \in Seq(made) /\ sim.next \in Nat /\ sim.batch \in Seq(made)
    BY DEF SimInv, SimTyped, Process, Positive, Batches
  <2>4. /\ DOMAIN kafka' = 1 .. Len(kafka) + 1
        /\ \A i \in DOMAIN kafka : i \in DOMAIN kafka' /\ kafka'[i] = kafka[i]
        /\ Len(kafka) + 1 \in DOMAIN kafka' /\ kafka'[Len(kafka) + 1] = Current
        /\ \A i \in DOMAIN kafka' : i \in DOMAIN kafka \/ kafka'[i] = Current
    BY <1>3, <2>3
  <2>5. Range(kafka) \subseteq Range(kafka') /\ Current \in Range(kafka')
    BY <2>4 DEF Range
  <2>6. \A id : Stored(id)' <=> Stored(id)  BY <1>1 DEF Stored
  <2>7. SinksAgree'
    BY <1>1, <2>1, <2>2, <2>4, <2>6 DEF SinksAgree
  <2>8. SinkProgress'
    <3>1. \A n \in DOMAIN sim.batch : n < sim.next + 1 => n < sim.next \/ n = sim.next
      BY <2>3
    <3>2. \A n \in DOMAIN sim.batch : n < sim.next + 1 => sim.batch[n] \in Range(kafka')
      BY <2>1, <2>5, <3>1 DEF SinkProgress, Current
    <3>3. QED  BY <1>1, <2>1, <2>2, <3>2 DEF SinkProgress
  <2>9. QED  BY <1>1, <2>7, <2>8 DEF HttpProgress
<1>4. QED  BY <1>2, <1>3 DEF KafkaSend

(* The answer to a POST, whoever sends it. *)
LEMMA AcceptGrows ==
    ASSUME NEW id, NEW key, Accept(id, key)
    PROVE  /\ store \subseteq store' /\ \E x \in store' : x.id = id
           /\ \A x \in store' : x \in store \/ x = [id |-> id, key |-> key]
           /\ \A x \in store' \ store : ~ Stored(id)
<1> DEFINE o == [id |-> id, key |-> key]
<1>1. o.id = id  OBVIOUS
<1>2. store' = IF Stored(id) THEN store ELSE store \cup {o}  BY DEF Accept
<1> HIDE DEF o
<1>3. CASE Stored(id)  BY <1>2, <1>3 DEF Stored
<1>4. CASE ~ Stored(id)  BY <1>1, <1>2, <1>4 DEF o
<1>5. QED  BY <1>3, <1>4

LEMMA HttpPostSinks ==
    ASSUME SimInv, SinkInv, HttpPost
    PROVE  SinkInv'
<1> USE DEF SinkInv
<1> DEFINE r == Current
           Then(id) == \E x \in store' : x.id = id
<1>1. PublishingTo("http") /\ UNCHANGED <<kafka, transport, made>>
  BY DEF HttpPost
<1>2. /\ \/ transport = "http" /\ sim.sink = 1
         \/ transport = "kafka+http" /\ sim.sink = 2
      /\ sim.at = "publish" /\ sim.next \in DOMAIN sim.batch /\ r \in Range(sim.batch)
  BY <1>1, WhichSink
<1>3. ASSUME NEW key, Accept(ObservationId(r), key)
      PROVE  /\ store \subseteq store' /\ Then(ObservationId(r))
             /\ \A x \in store' : x \in store \/ x.id = ObservationId(r)
  <2> DEFINE i == ObservationId(r)
  <2>1. Accept(i, key)  BY <1>3
  <2> HIDE DEF i
  <2>2. /\ store \subseteq store' /\ \E x \in store' : x.id = i
        /\ \A x \in store' : x \in store \/ x = [id |-> i, key |-> key]
    BY <2>1, AcceptGrows
  <2>3. QED  BY <2>2 DEF i
<1>4. /\ store \subseteq store'
      /\ \A x \in store' : x \in store \/ x.id = ObservationId(r)
      /\ \/ Advance /\ Then(ObservationId(r))
         \/ Crash
         \/ sim' = [sim EXCEPT !.attempt = @ + 1]
  <2> DEFINE m == Message(r)
  <2>1. m.id = ObservationId(r)  BY DEF Message
  <2>2. \/ Accept(m.id, m.key) /\ Advance
        \/ UNCHANGED store /\ Crash
        \/ /\ UNCHANGED store \/ Accept(m.id, m.key)
           /\ Crash \/ sim' = [sim EXCEPT !.attempt = @ + 1]
    BY DEF HttpPost, Answered, ServerError, TransportError
  <2> HIDE DEF m, r
  <2>3. QED  BY <1>3, <2>1, <2>2
<1>5. \A id : Stored(id) => Then(id)  BY <1>4 DEF Stored
<1>6. sim \in Process  BY DEF SimInv, SimTyped
<1>7. /\ sim'.batch = sim.batch /\ sim'.run = sim.run
      /\ \/ /\ sim'.at = sim.at /\ sim'.next = sim.next + 1 /\ sim'.sink = sim.sink
            /\ Then(ObservationId(r))
         \/ sim'.at = "down"
         \/ sim'.at = sim.at /\ sim'.next = sim.next /\ sim'.sink = sim.sink
  <2>1. CASE Advance /\ Then(ObservationId(r))  BY <2>1, AdvanceFields
  <2>2. CASE Crash  BY <2>2, CrashFields
  <2>3. CASE sim' = [sim EXCEPT !.attempt = @ + 1]  BY <1>6, <2>3 DEF Process
  <2>4. QED  BY <1>4, <2>1, <2>2, <2>3
<1>8. sim.next \in Nat /\ sim.batch \in Seq(made)
  BY DEF SimInv, SimTyped, Process, Positive, Batches
<1>9. \A n \in DOMAIN sim.batch : n < sim.next + 1 => n < sim.next \/ n = sim.next
  BY <1>8
<1> HIDE DEF Then
<1>10. sim'.at = "publish" =>
         \A n \in DOMAIN sim.batch : n < sim'.next => Then(ObservationId(sim.batch[n]))
  <2>1. \A n \in DOMAIN sim.batch : n < sim.next => Stored(ObservationId(sim.batch[n]))
    BY <1>2 DEF HttpProgress, SinkProgress
  <2>2. QED  BY <1>2, <1>5, <1>7, <1>9, <2>1 DEF Current
<1>11. \A id : Stored(id)' <=> Then(id)  BY DEF Stored, Then
<1> HIDE DEF r
<1>12. HttpProgress'
  BY <1>1, <1>2, <1>5, <1>7, <1>10, <1>11 DEF HttpProgress, ObservationId
<1>13. SinkProgress'
  BY <1>1, <1>2, <1>7, <1>10, <1>11 DEF SinkProgress, ObservationId
<1>14. SinksAgree'
  <2> SUFFICES ASSUME transport = "kafka+http" PROVE SinksAgree'
    BY <1>1 DEF SinksAgree
  <2>1. r \in Range(kafka)
    BY <1>2 DEF SinkProgress, Current, r
  <2>2. \E i \in DOMAIN kafka : ObservationId(kafka[i]) = ObservationId(r)
    BY <2>1 DEF Range
  <2>3. QED  BY <1>1, <1>4, <1>5, <1>7, <1>11, <2>2 DEF SinksAgree, ObservationId
<1>15. QED  BY <1>12, <1>13, <1>14

LEMMA NextSinkSinks ==
    ASSUME SimInv, SinkInv, NextSink
    PROVE  SinkInv'
<1> USE DEF SinkInv
<1>1. sim \in Process /\ sim.batch \in Seq(made) /\ sim.next \in Nat
  BY DEF SimInv, SimTyped, Batches, Process, Positive
<1>2. /\ sim'.at = sim.at /\ sim'.batch = sim.batch /\ sim'.run = sim.run
      /\ sim'.next = 1 /\ sim.at = "publish" /\ sim.next > Len(sim.batch)
  BY <1>1 DEF NextSink, Process
<1>3. \A n \in DOMAIN sim.batch : n < sim.next /\ ~ (n < 1)  BY <1>1, <1>2
<1>4. \A id : Stored(id)' <=> Stored(id)  BY DEF Stored, NextSink, bridgeOnly
<1>5. UNCHANGED <<transport, store, kafka, made>>  BY DEF NextSink, bridgeOnly
<1>6. SinksAgree'  BY <1>2, <1>4, <1>5 DEF SinksAgree
<1>7. HttpProgress'  BY <1>2, <1>3, <1>4, <1>5 DEF HttpProgress
<1>8. SinkProgress'
  BY <1>2, <1>3, <1>4, <1>5 DEF SinkProgress, SimInv, Batches
<1>9. QED  BY <1>6, <1>7, <1>8

LEMMA FinishSinks ==
    ASSUME SimInv, SinkInv, Finish
    PROVE  SinkInv'
<1> USE DEF SinkInv
<1>1. sim \in Process /\ sim.batch \in Seq(made) /\ sim.next \in Nat
  BY DEF SimInv, SimTyped, Batches, Process, Positive
<1>2. UNCHANGED <<transport, store, kafka, made>>  BY DEF Finish, bridgeOnly
<1>3. sim.at = "publish" /\ sim.next > Len(sim.batch) /\ sim.sink = Len(Sinks)
  BY DEF Finish
<1> SUFFICES ASSUME transport \in {"http", "kafka+http"} PROVE SinkInv'
  BY <1>2, OtherTransport
<1>4. \A n \in DOMAIN sim.batch : n < sim.next  BY <1>1, <1>3
<1>5. transport = "kafka+http" => sim.sink = 2  BY <1>3, SinksOf
<1>6. \A n \in DOMAIN sim.batch : Stored(ObservationId(sim.batch[n]))
  BY <1>3, <1>4, <1>5 DEF HttpProgress, SinkProgress
<1>7. \A r \in Range(sim.batch) : Stored(ObservationId(r))  BY <1>6 DEF Range
<1>8. \A id : Stored(id)' <=> Stored(id)  BY <1>2 DEF Stored
<1>9. /\ sim'.run = sim.run /\ sim'.at \in {"make", "loop"}
      /\ sim'.batch = sim.batch \/ sim'.batch = <<>>
  BY <1>1 DEF Finish, Process
<1>10. Range(<<>>) = {}  BY DEF Range
<1>11. Range(sim'.batch) \subseteq Range(sim.batch)  BY <1>9, <1>10
<1>12. SinksAgree'
  BY <1>2, <1>7, <1>8, <1>9 DEF SinksAgree
<1>13. HttpProgress'
  BY <1>2, <1>7, <1>8, <1>9, <1>11 DEF HttpProgress
<1>14. SinkProgress'  BY <1>9 DEF SinkProgress
<1>15. QED  BY <1>12, <1>13, <1>14

LEMMA RestartSinks ==
    ASSUME SimInv, SinkInv, Restart
    PROVE  SinkInv'
<1> USE DEF SinkInv
<1>1. kafka \in Seq(made) /\ made \subseteq Made /\ sim.run \in Nat
  BY DEF SimInv, SimTyped, Process, Positive
<1>2. UNCHANGED <<transport, store, kafka, made>>  BY DEF Restart, bridgeOnly
<1>3. sim'.run = sim.run + 1 /\ sim'.at = "loop"  BY DEF Restart, Fresh
<1>4. \A r \in made : r.run < sim'.run
  BY <1>1, <1>3 DEF SimInv, ReadingsAreOld, Made
<1>5. \A i \in DOMAIN kafka : kafka[i].run < sim'.run  BY <1>1, <1>4
<1>6. SinksAgree'  BY <1>2, <1>5 DEF SinksAgree
<1>7. HttpProgress'  BY <1>2, <1>3, <1>4 DEF HttpProgress
<1>8. SinkProgress'  BY <1>3 DEF SinkProgress
<1>9. QED  BY <1>6, <1>7, <1>8

----------------------------------------------------------------------------
(* The bridge's part.                                                      *)

LEMMA UnacknowledgedFinite ==
    ASSUME NEW S, NEW b \in Seq(S)
    PROVE  IsFiniteSet({i \in DOMAIN b : b[i].out})
<1>1. DOMAIN b = 1 .. Len(b) /\ Len(b) \in Nat  OBVIOUS
<1>2. IsFiniteSet(1 .. Len(b))  BY <1>1, FS_Interval
<1>3. {i \in DOMAIN b : b[i].out} \subseteq 1 .. Len(b)  BY <1>1
<1>4. QED  BY <1>2, <1>3, FS_Subset

LEMMA ConcatParts ==
    ASSUME NEW S, NEW x \in Seq(S), NEW y \in Seq(S)
    PROVE  /\ x \o y \in Seq(S) /\ Len(x \o y) = Len(x) + Len(y)
           /\ DOMAIN (x \o y) = 1 .. Len(x \o y)
           /\ \A j \in 1 .. Len(x \o y) :
                (x \o y)[j] = IF j <= Len(x) THEN x[j] ELSE y[j - Len(x)]
<1>1. x \o y \in Seq(S) /\ Len(x \o y) = Len(x) + Len(y)  OBVIOUS
<1>2. \A j \in 1 .. Len(x) + Len(y) :
        (x \o y)[j] = IF j <= Len(x) THEN x[j] ELSE y[j - Len(x)]
  OBVIOUS
<1>3. QED  BY <1>1, <1>2

(* One entry less: the rest keeps its order, and no more are out. *)
LEMMA RemoveAtKeeps ==
    ASSUME NEW S, NEW b \in Seq(S), NEW i \in DOMAIN b
    PROVE  /\ RemoveAt(b, i) \in Seq(S)
           /\ Cardinality({j \in DOMAIN RemoveAt(b, i) : RemoveAt(b, i)[j].out})
                <= Cardinality({j \in DOMAIN b : b[j].out})
<1> DEFINE c == RemoveAt(b, i)
           at == [j \in 1 .. Len(b) - 1 |-> IF j < i THEN j ELSE j + 1]
           C == {j \in DOMAIN c : c[j].out}
           B == {j \in DOMAIN b : b[j].out}
<1>1. Len(b) \in Nat /\ DOMAIN b = 1 .. Len(b) /\ i \in 1 .. Len(b)  OBVIOUS
<1>2. /\ c \in Seq(S) /\ DOMAIN c = 1 .. Len(b) - 1
      /\ \A j \in 1 .. Len(b) - 1 : c[j] = b[at[j]]
  <2> DEFINE x == SubSeq(b, 1, i - 1)
             y == SubSeq(b, i + 1, Len(b))
  <2>1. x \in Seq(S) /\ Len(x) = i - 1 /\ \A j \in 1 .. i - 1 : x[j] = b[j]
    BY <1>1
  <2>2. y \in Seq(S) /\ Len(y) = Len(b) - i /\ \A j \in 1 .. Len(b) - i : y[j] = b[j + i]
    BY <1>1
  <2>3. c = x \o y  BY DEF RemoveAt
  <2> HIDE DEF x, y, c
  <2>4. /\ c \in Seq(S) /\ Len(c) = Len(x) + Len(y) /\ DOMAIN c = 1 .. Len(c)
        /\ \A j \in 1 .. Len(c) : c[j] = IF j <= Len(x) THEN x[j] ELSE y[j - Len(x)]
    BY <2>1, <2>2, <2>3, ConcatParts
  <2>5. DOMAIN c = 1 .. Len(b) - 1  BY <1>1, <2>1, <2>2, <2>4
  <2>6. ASSUME NEW j \in 1 .. Len(b) - 1 PROVE c[j] = b[at[j]]
    <3>1. CASE j < i  BY <1>1, <2>1, <2>2, <2>4, <3>1
    <3>2. CASE ~ (j < i)
      <4>1. c[j] = y[j - (i - 1)]  BY <1>1, <2>1, <2>2, <2>4, <3>2
      <4>2. j - (i - 1) \in 1 .. Len(b) - i  BY <1>1, <3>2
      <4>3. y[j - (i - 1)] = b[(j - (i - 1)) + i]  BY <2>2, <4>2
      <4>4. (j - (i - 1)) + i = j + 1 /\ at[j] = j + 1  BY <1>1, <3>2
      <4>5. QED  BY <4>1, <4>3, <4>4
    <3>3. QED  BY <3>1, <3>2
  <2>7. QED  BY <2>4, <2>5, <2>6
<1>3. /\ \A j \in 1 .. Len(b) - 1 : at[j] \in DOMAIN b
      /\ \A j, k \in 1 .. Len(b) - 1 : at[j] = at[k] => j = k
  BY <1>1
<1> HIDE DEF c, at
<1> DEFINE f == [j \in C |-> at[j]]
<1>4. f \in Injection(C, B)
  <2>1. \A j \in C : f[j] \in B  BY <1>2, <1>3
  <2>2. \A j, k \in C : f[j] = f[k] => j = k  BY <1>2, <1>3
  <2>3. QED  BY <2>1, <2>2 DEF Injection, IsInjective
<1>5. IsFiniteSet(B)  BY UnacknowledgedFinite
<1>6. Cardinality(C) <= Cardinality(B)  BY <1>4, <1>5, FS_Injection
<1>7. QED  BY <1>2, <1>6 DEF c

(* A step that leaves the bridge, its session and the store alone. *)
LEMMA IdleBridge ==
    ASSUME SimInv, BridgeInv, clock' \in Nat, clock' >= clock, made \subseteq made',
           UNCHANGED <<store, broker, online, handling, transport, sent, acked>>
    PROVE  BridgeInv'
<1> USE DEF BridgeInv
<1>1. BridgeTyped'  BY DEF BridgeTyped, Entry, Unacknowledged
<1>2. Messages'  BY DEF Messages, Message, ObservationId
<1>3. IdsInStore' /\ StoreFromSent'
  BY DEF IdsInStore, StoreFromSent, IdOf, Bare
<1>4. \A t \in 0 .. clock : t \in 0 .. clock'
  BY BridgeAssumption DEF SimInv, SimTyped
<1>5. HandlingResolved'
  BY <1>4 DEF HandlingResolved, Resolved, IdOf, Bare
<1>6. AckedSettled'
  BY <1>4 DEF AckedSettled, Settled, Stored, IdOf, Bare
<1>7. QED  BY <1>1, <1>2, <1>3, <1>5, <1>6

(* A message enters the broker. *)
Sends(m) ==
    /\ Enqueue(m) /\ sent' = sent \cup {m}
    /\ UNCHANGED <<clock, store, online, handling, transport, acked>>

LEMMA SendsBridge ==
    ASSUME SimInv, BridgeInv, NEW m, Sends(m), Messages'
    PROVE  BridgeInv'
<1> USE DEF BridgeInv
<1> DEFINE e == [msg |-> m, out |-> FALSE]
<1>1. broker' = Append(broker, e) /\ e.out = FALSE  BY DEF Sends, Enqueue
<1>2. e \in Entry' /\ Entry \subseteq Entry'  BY DEF Entry, Sends
<1> HIDE DEF e
<1>3. broker \in Seq(Entry)  BY DEF BridgeTyped
<1>4. broker' \in Seq(Entry')
  <2>1. broker \in Seq(Entry')  BY <1>2, <1>3, SeqGrows
  <2>2. QED  BY <1>1, <1>2, <2>1
<1>5. Unacknowledged' = Unacknowledged
  <2>1. /\ \A i \in DOMAIN broker : i \in DOMAIN broker' /\ broker'[i] = broker[i]
        /\ \A i \in DOMAIN broker' : i \in DOMAIN broker \/ broker'[i] = e
    BY <1>1, <1>3
  <2>2. QED  BY <1>1, <2>1 DEF Unacknowledged
<1>6. BridgeTyped'
  BY <1>4, <1>5 DEF BridgeTyped, Sends
<1>7. IdsInStore' /\ StoreFromSent'
  BY DEF IdsInStore, StoreFromSent, IdOf, Bare, Sends
<1>8. HandlingResolved'
  BY DEF HandlingResolved, Resolved, IdOf, Bare, Sends
<1>9. AckedSettled'
  BY DEF AckedSettled, Settled, Stored, IdOf, Bare, Sends
<1>10. QED  BY <1>6, <1>7, <1>8, <1>9

LEMMA MqttPublishBridge ==
    ASSUME SimInv, BridgeInv, MqttPublish
    PROVE  BridgeInv'
<1> USE DEF BridgeInv
<1> DEFINE r == Current
           m == Message(r)
<1>1. PublishingTo("mqtt") /\ UNCHANGED <<clock, store, online, handling, transport, made, acked>>
  BY DEF MqttPublish
<1>2. transport = "mqtt" /\ r \in made  BY <1>1, WhichSink
<1>3. CASE UNCHANGED <<broker, sent>>
  <2>1. clock \in Nat  BY BridgeAssumption DEF SimInv, SimTyped
  <2>2. QED  BY <1>1, <1>3, <2>1, IdleBridge
<1>4. CASE Enqueue(m) /\ sent' = sent \cup {m}
  <2>1. Sends(m)  BY <1>1, <1>4 DEF Sends
  <2>2. \A s \in made : Message(s)' = Message(s)  BY DEF Message, ObservationId
  <2>3. \A p \in sent' : \E s \in made : p = Message(s)
    BY <1>2, <1>4 DEF Messages
  <2>4. ASSUME NEW s \in made, NEW t \in made, Message(s).key = Message(t).key
        PROVE  s = t
    <3>1. s \in Made /\ t \in Made  BY DEF SimInv, SimTyped
    <3>2. s.run = t.run /\ s.tick = t.tick /\ s.kind = t.kind /\ s.at = t.at
      BY <2>4 DEF Message
    <3>3. QED  BY <3>1, <3>2 DEF Made
  <2>5. \A p, q \in sent' : p.key = q.key => p = q
    BY <2>3, <2>4
  <2>6. Messages'
    BY <1>1, <1>2, <2>2, <2>3, <2>5 DEF Messages
  <2>7. QED  BY <2>1, <2>6, SendsBridge
<1>5. QED  BY <1>3, <1>4 DEF MqttPublish

(* The devices' messages are numbered, so a new one is new. *)
LEMMA DeviceBridge ==
    ASSUME SimInv, BridgeInv, Device
    PROVE  BridgeInv'
<1> USE DEF BridgeInv
<1> DEFINE n == Cardinality({m \in sent : m.key[1] = 0})
           N == Cardinality(sent)
<1>1. transport = "devices"  BY DEF Device
<1>2. IsFiniteSet(sent)  BY <1>1 DEF Messages
<1>3. N \in Nat  BY <1>2, FS_CardinalityType
<1>4. ASSUME NEW p \in sent
      PROVE  \E k \in 0 .. N - 1 :
               p = [key |-> <<0, k, "device", 0>>, id |-> None,
                    stamp |-> p.stamp, form |-> p.form]
  BY <1>1 DEF Messages
<1>5. n = N
  <2>1. \A p \in sent : p.key[1] = 0
    <3> TAKE p \in sent
    <3>1. PICK k \in 0 .. N - 1 : p = [key |-> <<0, k, "device", 0>>, id |-> None,
                                       stamp |-> p.stamp, form |-> p.form]
      BY <1>4
    <3>2. p.key = <<0, k, "device", 0>>  BY <3>1
    <3>3. QED  BY <3>2
  <2>2. {m \in sent : m.key[1] = 0} = sent  BY <2>1
  <2>3. QED  BY <2>2
<1>6. PICK stamp, form : LET m == [key |-> <<0, n, "device", 0>>, id |-> None,
                                   stamp |-> stamp, form |-> form]
                         IN Enqueue(m) /\ sent' = sent \cup {m}
  BY DEF Device
<1> DEFINE m == [key |-> <<0, N, "device", 0>>, id |-> None, stamp |-> stamp, form |-> form]
<1>7. Sends(m)  BY <1>5, <1>6 DEF Sends, Device
<1>8. m.key = <<0, N, "device", 0>>
      /\ m = [key |-> <<0, N, "device", 0>>, id |-> None, stamp |-> m.stamp, form |-> m.form]
  OBVIOUS
<1>9. sent' = sent \cup {m}  BY <1>7 DEF Sends
<1> HIDE DEF m, N, n
<1>10. \A p \in sent : p.key # m.key
  <2> TAKE p \in sent
  <2>1. PICK k \in 0 .. N - 1 : p = [key |-> <<0, k, "device", 0>>, id |-> None,
                                     stamp |-> p.stamp, form |-> p.form]
    BY <1>4
  <2>2. p.key = <<0, k, "device", 0>> /\ k # N  BY <1>3, <2>1
  <2>3. QED  BY <1>8, <2>2
<1>11. IsFiniteSet(sent') /\ Cardinality(sent') = N + 1
  <2>1. m \notin sent  BY <1>10
  <2>2. QED  BY <1>2, <1>9, <2>1, FS_AddElement DEF N
<1>12. \A p \in sent' : \E k \in 0 .. N :
         p = [key |-> <<0, k, "device", 0>>, id |-> None,
              stamp |-> p.stamp, form |-> p.form]
  <2>1. \A k \in 0 .. N - 1 : k \in 0 .. N  BY <1>3
  <2>2. N \in 0 .. N  BY <1>3
  <2>3. QED  BY <1>4, <1>8, <1>9, <2>1, <2>2
<1>13. \A p, q \in sent' : p.key = q.key => p = q
  BY <1>9, <1>10 DEF Messages
<1>14. Messages'
  <2>1. Cardinality(sent') - 1 = N  BY <1>3, <1>11
  <2>2. transport' = transport  BY DEF Device
  <2>3. QED  BY <1>1, <1>11, <1>12, <1>13, <2>1, <2>2 DEF Messages
<1>15. QED  BY <1>7, <1>14, SendsBridge

LEMMA AcceptKeepsIds ==
    ASSUME IdsInStore, NEW id, NEW key, Accept(id, key)
    PROVE  IdsInStore'
<1> DEFINE o == [id |-> id, key |-> key]
<1>1. o.id = id  OBVIOUS
<1>2. store' = IF Stored(id) THEN store ELSE store \cup {o}  BY DEF Accept
<1> HIDE DEF o
<1>3. QED  BY <1>1, <1>2 DEF IdsInStore, Stored

LEMMA HttpPostBridge ==
    ASSUME SimInv, BridgeInv, HttpPost
    PROVE  BridgeInv'
<1> USE DEF BridgeInv
<1>1. /\ PublishingTo("http")
      /\ UNCHANGED <<clock, broker, online, handling, transport, made, sent, acked>>
  BY DEF HttpPost
<1>2. transport \in {"http", "kafka+http"}  BY <1>1, WhichSink
<1>3. sent = {} /\ acked = {}  BY <1>2 DEF Messages, AckedSettled
<1>4. BridgeTyped'  BY <1>1 DEF BridgeTyped, Entry, Unacknowledged
<1>5. Messages'  BY <1>1, <1>2, <1>3 DEF Messages
<1>6. IdsInStore'
  <2>1. store' = store \/ \E id, key : Accept(id, key)
    BY DEF HttpPost, Answered, ServerError, TransportError
  <2>2. CASE store' = store  BY <2>2 DEF IdsInStore
  <2>3. QED  BY <2>1, <2>2, AcceptKeepsIds
<1>7. StoreFromSent'  BY <1>1, <1>2 DEF StoreFromSent
<1>8. HandlingResolved'
  BY <1>1 DEF HandlingResolved, Resolved, IdOf, Bare
<1>9. AckedSettled'  BY <1>1, <1>3 DEF AckedSettled
<1>10. QED  BY <1>4, <1>5, <1>6, <1>7, <1>8, <1>9

(* What a step of the bridge must show; Gone(m) is how BridgeStep knows an *)
(* acknowledgement.                                                        *)
Gone(m) ==
    /\ online' /\ handling # None /\ handling.msg = m
    /\ \A i \in DOMAIN broker' : broker'[i].msg # m

BridgeKept ==
    /\ BridgeTyped' /\ IdsInStore' /\ StoreFromSent' /\ HandlingResolved'
    /\ store \subseteq store'
    /\ \A m \in sent : m.form = "valid" /\ m \in Range([i \in DOMAIN broker |-> broker[i].msg])
                          /\ Gone(m) => Settled(m)'

Quiet == UNCHANGED <<transport, made, sent>>

LEMMA StoreKept ==
    ASSUME BridgeInv, Quiet, store' = store
    PROVE  IdsInStore' /\ StoreFromSent'
BY DEF BridgeInv, IdsInStore, StoreFromSent, IdOf, Bare, Quiet

(* If the queue is as it was, nothing is acknowledged. *)
LEMMA NothingGone ==
    ASSUME broker' = broker, NEW m, m \in Range([i \in DOMAIN broker |-> broker[i].msg])
    PROVE  ~ Gone(m)
BY DEF Gone, Range

LEMMA DeliverKept ==
    ASSUME BridgeInv, Quiet, Deliver
    PROVE  BridgeKept
<1> USE DEF BridgeInv
<1>1. PICK i \in Waiting :
        /\ broker' = [broker EXCEPT ![i].out = TRUE]
        /\ handling' = [msg |-> broker[i].msg, id |-> None]
  BY DEF Deliver
<1>2. UNCHANGED <<clock, store, online, transport, made, sent>> /\ handling = None
      /\ Cardinality(Unacknowledged) < Window
  BY DEF Deliver, Quiet
<1>3. broker \in Seq(Entry) /\ i \in DOMAIN broker /\ i \notin Unacknowledged
  BY DEF BridgeTyped, Waiting
<1>4. broker[i] \in Entry  BY <1>3
<1>5. broker[i].msg \in sent  BY <1>4 DEF Entry
<1>6. [broker[i] EXCEPT !.out = TRUE] \in Entry
      /\ [broker[i] EXCEPT !.out = TRUE].out = TRUE
  BY <1>4 DEF Entry
<1>7. Entry' = Entry  BY <1>2 DEF Entry
<1>8. broker' \in Seq(Entry')  BY <1>1, <1>3, <1>6, <1>7
<1>9. Unacknowledged' = Unacknowledged \cup {i}
  BY <1>1, <1>3, <1>6 DEF Unacknowledged
<1>10. Cardinality(Unacknowledged') <= Window
  <2>1. IsFiniteSet(Unacknowledged)  BY <1>3, UnacknowledgedFinite DEF Unacknowledged
  <2>2. Cardinality(Unacknowledged) \in Nat  BY <2>1, FS_CardinalityType
  <2>3. Cardinality(Unacknowledged') = Cardinality(Unacknowledged) + 1
    BY <1>3, <1>9, <2>1, FS_AddElement
  <2>4. QED  BY <1>2, <2>2, <2>3, BridgeAssumption
<1>11. handling'.msg \in sent /\ handling'.id = None
       /\ handling' = [msg |-> handling'.msg, id |-> handling'.id]
  BY <1>1, <1>5
<1>12. BridgeTyped'  BY <1>2, <1>8, <1>10, <1>11 DEF BridgeTyped
<1>13. HandlingResolved'  BY <1>11 DEF HandlingResolved
<1>14. QED  BY <1>2, <1>12, <1>13, StoreKept DEF BridgeKept, Gone

LEMMA ReconnectKept ==
    ASSUME BridgeInv, Quiet, Reconnect
    PROVE  BridgeKept
<1> USE DEF BridgeInv
<1>1. UNCHANGED <<clock, store, handling, transport, made, sent>>
      /\ online' = TRUE /\ handling = None
      /\ broker' = [i \in DOMAIN broker |-> [broker[i] EXCEPT !.out = FALSE]]
  BY DEF Reconnect, Quiet
<1>2. broker \in Seq(Entry)  BY DEF BridgeTyped
<1>3. \A i \in DOMAIN broker : /\ [broker[i] EXCEPT !.out = FALSE] \in Entry
                               /\ [broker[i] EXCEPT !.out = FALSE].out = FALSE
  <2> TAKE i \in DOMAIN broker
  <2>1. broker[i] \in Entry  BY <1>2
  <2>2. QED  BY <2>1 DEF Entry
<1>4. broker' \in Seq(Entry)
  <2>1. DOMAIN broker = 1 .. Len(broker) /\ Len(broker) \in Nat  BY <1>2
  <2>2. QED  BY <1>1, <1>3, <2>1
<1>5. Unacknowledged' = {}  BY <1>1, <1>3 DEF Unacknowledged
<1>6. Cardinality(Unacknowledged') <= Window  BY <1>5, FS_EmptySet, BridgeAssumption
<1>7. Entry' = Entry  BY <1>1 DEF Entry
<1>8. BridgeTyped'  BY <1>1, <1>4, <1>6, <1>7 DEF BridgeTyped
<1>9. HandlingResolved'  BY <1>1 DEF HandlingResolved
<1>10. QED  BY <1>1, <1>8, <1>9, StoreKept DEF BridgeKept, Gone

LEMMA CutKept ==
    ASSUME BridgeInv, Quiet, Disconnect \/ CrashBridge
    PROVE  BridgeKept
<1> USE DEF BridgeInv
<1>1. /\ UNCHANGED <<clock, store, broker, transport, made, sent>> /\ online' = FALSE
      /\ handling' = handling \/ handling' = None
  BY DEF Disconnect, CrashBridge, Quiet
<1>2. BridgeTyped'  BY <1>1 DEF BridgeTyped, Entry, Unacknowledged
<1>3. HandlingResolved'
  BY <1>1 DEF HandlingResolved, Resolved, IdOf, Bare
<1>4. QED  BY <1>1, <1>2, <1>3, StoreKept DEF BridgeKept, Gone

(* An acknowledgement takes an entry out of the queue, or does nothing. *)
LEMMA AcknowledgeTyped ==
    ASSUME BridgeInv, Quiet, Acknowledge, handling' = None, online' = online
    PROVE  BridgeTyped'
<1> USE DEF BridgeInv
<1>1. Entry' = Entry  BY DEF Entry, Quiet
<1>2. broker \in Seq(Entry) /\ Cardinality(Unacknowledged) <= Window
      /\ online \in BOOLEAN
  BY DEF BridgeTyped
<1>3. CASE broker' = broker
  BY <1>1, <1>2, <1>3 DEF BridgeTyped, Unacknowledged
<1>4. ASSUME NEW i \in DOMAIN broker, broker' = RemoveAt(broker, i)
      PROVE  BridgeTyped'
  <2>1. broker' \in Seq(Entry)
        /\ Cardinality(Unacknowledged') <= Cardinality(Unacknowledged)
    BY <1>2, <1>4, RemoveAtKeeps DEF Unacknowledged
  <2>2. IsFiniteSet(Unacknowledged) /\ IsFiniteSet(Unacknowledged')
    BY <1>2, <2>1, UnacknowledgedFinite DEF Unacknowledged
  <2>3. Cardinality(Unacknowledged) \in Nat /\ Cardinality(Unacknowledged') \in Nat
    BY <2>2, FS_CardinalityType
  <2>4. Cardinality(Unacknowledged') <= Window
    BY <1>2, <2>1, <2>3, BridgeAssumption
  <2>5. QED  BY <1>1, <1>2, <2>1, <2>4 DEF BridgeTyped
<1>5. QED  BY <1>3, <1>4 DEF Acknowledge, Unacknowledged

LEMMA MapKept ==
    ASSUME SimInv, BridgeInv, Quiet, Map
    PROVE  BridgeKept
<1> USE DEF BridgeInv
<1>1. UNCHANGED <<clock, store, online, transport, made, sent>> /\ handling # None
  BY DEF Map, Quiet
<1>2. handling.msg \in sent /\ handling = [msg |-> handling.msg, id |-> handling.id]
  BY <1>1 DEF BridgeTyped
<1>3. CASE handling.msg.form = "malformed"
  <2>1. Acknowledge /\ handling' = None  BY <1>3 DEF Map
  <2>2. BridgeTyped'  BY <1>1, <2>1, AcknowledgeTyped
  <2>3. HandlingResolved'  BY <2>1 DEF HandlingResolved
  <2>4. QED  BY <1>1, <1>3, <2>2, <2>3, StoreKept DEF BridgeKept, Gone
<1>4. CASE handling.msg.form # "malformed"
  <2> DEFINE m == handling.msg
             i == ResolveId(m)
  <2>1. broker' = broker /\ handling' = [handling EXCEPT !.id = i]  BY <1>4 DEF Map
  <2>2. handling' = [msg |-> m, id |-> i] /\ handling'.msg = m /\ handling'.id = i
    <3> HIDE DEF i
    <3>1. QED  BY <1>2, <2>1
  <2>3. clock \in 0 .. clock  BY BridgeAssumption DEF SimInv, SimTyped
  <2>4. Resolved(m, i)
    BY <2>3 DEF Resolved, ResolveId, IdOf, Bare
  <2>5. HandlingResolved'
    BY <1>1, <2>2, <2>4 DEF HandlingResolved, Resolved, IdOf, Bare
  <2>6. BridgeTyped'
    <3> HIDE DEF i
    <3>1. QED  BY <1>1, <1>2, <2>1, <2>2 DEF BridgeTyped, Entry, Unacknowledged
  <2>7. QED  BY <1>1, <2>1, <2>5, <2>6, StoreKept, NothingGone DEF BridgeKept
<1>5. QED  BY <1>3, <1>4

(* What an accepted POST of the bridge leaves in the store. *)
LEMMA ForwardStores ==
    ASSUME BridgeInv, Quiet, handling # None, handling.id # None, clock' = clock,
           Accept(handling.id, handling.msg.key)
    PROVE  /\ IdsInStore' /\ StoreFromSent' /\ store \subseteq store'
           /\ \A m : m = handling.msg => Settled(m)'
<1> USE DEF BridgeInv
<1> DEFINE h == handling.msg
           i == handling.id
           o == [id |-> i, key |-> h.key]
<1>1. /\ store \subseteq store' /\ \E x \in store' : x.id = i
      /\ \A x \in store' : x \in store \/ x = o
  <2> HIDE DEF h, i
  <2>1. Accept(i, h.key)  BY DEF h, i
  <2>2. QED  BY <2>1, AcceptGrows
<1>2. IdsInStore'
  <2> HIDE DEF h, i
  <2>1. Accept(i, h.key)  BY DEF h, i
  <2>2. QED  BY <2>1, AcceptKeepsIds
<1>3. h \in sent /\ Resolved(h, i)  BY DEF BridgeTyped, HandlingResolved
<1>4. o.id = i /\ o.key = h.key  OBVIOUS
<1> HIDE DEF h, i, o
<1>5. StoreFromSent'
  <2>1. ~ Bare(h) => i = IdOf(h)  BY <1>3 DEF Resolved
  <2>2. \A x \in store' : transport \in {"mqtt", "devices"} =>
          \E m \in sent : x.key = m.key /\ (~ Bare(m) => x.id = IdOf(m))
    BY <1>1, <1>3, <1>4, <2>1 DEF StoreFromSent
  <2>3. QED  BY <2>2 DEF StoreFromSent, Quiet, IdOf, Bare
<1>6. ASSUME NEW m, m = h PROVE Settled(m)'
  <2>1. Resolved(m, i)  BY <1>3, <1>6
  <2>2. CASE Bare(m)
    BY <1>1, <2>1, <2>2 DEF Settled, Resolved, Stored, Bare
  <2>3. CASE ~ Bare(m)
    BY <1>1, <2>1, <2>3 DEF Settled, Resolved, Stored, Bare, IdOf
  <2>4. QED  BY <2>2, <2>3
<1>7. QED  BY <1>1, <1>2, <1>5, <1>6 DEF h

LEMMA ForwardSettledKept ==
    ASSUME BridgeInv, Quiet, ForwardSettled
    PROVE  BridgeKept
<1>1. /\ handling # None /\ handling.id # None /\ Acknowledge /\ handling' = None
      /\ UNCHANGED <<clock, online>>
  BY DEF ForwardSettled
<1>2. BridgeTyped'  BY <1>1, AcknowledgeTyped
<1>3. HandlingResolved'  BY <1>1 DEF HandlingResolved
<1>4. CASE handling.msg.form = "refused"
  <2>1. store' = store  BY <1>4 DEF ForwardSettled
  <2>2. QED  BY <1>2, <1>3, <1>4, <2>1, StoreKept DEF BridgeKept, Gone
<1>5. CASE handling.msg.form # "refused"
  <2>1. Accept(handling.id, handling.msg.key)  BY <1>5 DEF ForwardSettled, Answered
  <2>2. /\ IdsInStore' /\ StoreFromSent' /\ store \subseteq store'
        /\ \A m : m = handling.msg => Settled(m)'
    BY <1>1, <2>1, ForwardStores
  <2>3. QED  BY <1>2, <1>3, <2>2 DEF BridgeKept, Gone
<1>6. QED  BY <1>4, <1>5

LEMMA ForwardRetryableKept ==
    ASSUME BridgeInv, Quiet, ForwardRetryable
    PROVE  BridgeKept
<1>1. /\ handling # None /\ handling.id # None /\ handling' = None
      /\ UNCHANGED <<clock, broker, online>>
      /\ store' = store \/ Accept(handling.id, handling.msg.key)
  BY DEF ForwardRetryable, ServerError, TransportError
<1>2. BridgeTyped'
  BY <1>1 DEF BridgeInv, BridgeTyped, Entry, Unacknowledged, Quiet
<1>3. HandlingResolved'  BY <1>1 DEF HandlingResolved
<1>4. IdsInStore' /\ StoreFromSent' /\ store \subseteq store'
  BY <1>1, StoreKept, ForwardStores
<1>5. QED  BY <1>1, <1>2, <1>3, <1>4, NothingGone DEF BridgeKept

LEMMA BridgeStepBridge ==
    ASSUME SimInv, BridgeInv, BridgeStep
    PROVE  BridgeInv' /\ SimInv' /\ SinkInv'
<1> USE DEF BridgeInv
<1>1. Quiet /\ transport \in {"mqtt", "devices"} /\ UNCHANGED <<sim, kafka>>
  BY DEF BridgeStep, Quiet
<1>2. clock' = clock /\ (faults' = faults \/ Fail)
  BY DEF BridgeStep, Bridge, BridgeFaults, Deliver, Map, ForwardSettled, ForwardRetryable,
     Reconnect, Disconnect, CrashBridge, Answered, ServerError, TransportError, NoFault
<1>3. BridgeKept
  BY <1>1, DeliverKept, MapKept, ForwardSettledKept, ForwardRetryableKept, ReconnectKept,
     CutKept
  DEF BridgeStep, Bridge, BridgeFaults
<1>4. Messages'
  BY <1>1 DEF Messages, Message, ObservationId, Quiet
<1>5. AckedSettled'
  <2>1. acked' \subseteq sent'
    BY <1>1 DEF BridgeStep, AckedSettled, Quiet
  <2>2. \A m \in acked : Settled(m) => Settled(m)'
    BY <1>2, <1>3 DEF Settled, Stored, IdOf, Bare, BridgeKept
  <2>3. ASSUME NEW m \in acked', m \notin acked, m.form = "valid"
        PROVE  Settled(m)'
    <3>1. /\ m \in sent /\ Gone(m)
          /\ \E i \in DOMAIN broker : broker[i] = [msg |-> m, out |-> TRUE]
      BY <2>3 DEF BridgeStep, Gone
    <3>2. m \in Range([i \in DOMAIN broker |-> broker[i].msg])
      BY <3>1 DEF Range
    <3>3. QED  BY <2>3, <3>1, <3>2, <1>3 DEF BridgeKept
  <2>4. QED  BY <2>1, <2>2, <2>3 DEF AckedSettled
<1>6. BridgeInv'  BY <1>3, <1>4, <1>5 DEF BridgeKept
<1>7. faults' \in 0 .. MaxFaults
  BY <1>2, BridgeAssumption DEF SimInv, SimTyped, Fail, MayFail
<1>8. SimInv'
  BY <1>1, <1>2, <1>7, BridgeAssumption, IdleSim DEF SimInv, SimTyped, Quiet
<1>9. SinkInv'  BY <1>1, OtherTransport DEF Quiet
<1>10. QED  BY <1>6, <1>8, <1>9

----------------------------------------------------------------------------
(* Every step keeps the invariant.                                         *)

LEMMA StepHolds == TransportInv /\ [Next]_vars => TransportInv'
<1> SUFFICES ASSUME TransportInv, [Next]_vars PROVE TransportInv'  OBVIOUS
<1> USE DEF TransportInv
<1>1. clock \in 0 .. MaxTime /\ clock \in Nat /\ clock >= clock /\ faults \in 0 .. MaxFaults
      /\ kafka \in Seq(made) /\ sim \in Process
  BY BridgeAssumption DEF SimInv, SimTyped
<1>2. Fail => faults' \in 0 .. MaxFaults
  BY <1>1, BridgeAssumption DEF Fail, MayFail
<1>3. CASE UNCHANGED vars
  <2>1. UNCHANGED <<clock, faults, store, broker, online, handling, transport, sim,
                    kafka, made, sent, acked>>
    BY <1>3 DEF vars
  <2>2. QED  BY <1>1, <2>1, IdleSim, IdleSinks, IdleBridge
<1>4. CASE Pass
  <2>1. clock' \in 0 .. MaxTime /\ clock' >= clock /\ clock' \in Nat
    BY <1>1, <1>4, BridgeAssumption DEF Pass
  <2>2. UNCHANGED <<faults, store, broker, online, handling, transport, sim, kafka,
                    made, sent, acked>>
    BY <1>4 DEF Pass
  <2>3. QED  BY <1>1, <2>1, <2>2, IdleSim, IdleSinks, IdleBridge
<1>5. ASSUME UNCHANGED <<bridgeOnly, transport, sent, acked>>, made \subseteq made'
      PROVE  BridgeInv'
  BY <1>1, <1>5, IdleBridge DEF bridgeOnly
<1>6. CASE Wake
  <2>1. sim'.at = "make" /\ sim'.batch = sim.batch /\ sim'.run = sim.run
        /\ sim.batch = <<>>
    BY <1>1, <1>6 DEF Wake, Process, SimInv, Batches
  <2>2. SinkInv'  BY <1>6, <2>1, IdleSinks DEF Wake, bridgeOnly
  <2>3. QED  BY <1>5, <1>6, <2>2, WakeSim DEF Wake
<1>7. CASE Make  BY <1>5, <1>7, MakeSim, MakeSinks DEF Make
<1>8. CASE Snapshot  BY <1>5, <1>8, SnapshotSim, SnapshotSinks DEF Snapshot
<1>9. CASE KafkaSend
  <2>1. Current \in made /\ sim.at = "publish"  BY <1>9, WhichSink DEF KafkaSend
  <2>2. kafka' \in Seq(made)  BY <1>1, <1>9, <2>1 DEF KafkaSend
  <2>3. Progress /\ faults' \in 0 .. MaxFaults
    BY <1>1, <1>2, <1>9, <2>1 DEF KafkaSend, Progress, bridgeOnly, NoFault
  <2>4. QED  BY <1>5, <1>9, <2>2, <2>3, ProgressSim, KafkaSendSinks DEF KafkaSend
<1>10. CASE MqttPublish
  <2>1. transport = "mqtt" /\ sim.at = "publish"  BY <1>10, WhichSink DEF MqttPublish
  <2>2. Progress /\ faults' \in 0 .. MaxFaults /\ kafka' = kafka /\ transport' = transport
    BY <1>1, <1>2, <1>10, <2>1 DEF MqttPublish, Progress, NoFault
  <2>3. QED  BY <1>1, <1>10, <2>1, <2>2, ProgressSim, OtherTransport, MqttPublishBridge
<1>11. CASE HttpPost
  <2>1. sim.at = "publish"  BY <1>11, WhichSink DEF HttpPost
  <2>2. Progress /\ faults' \in 0 .. MaxFaults /\ kafka' = kafka
    BY <1>1, <1>2, <1>11, <2>1
    DEF HttpPost, Progress, NoFault, Answered, ServerError, TransportError
  <2>3. QED  BY <1>1, <1>11, <2>2, ProgressSim, HttpPostSinks, HttpPostBridge
<1>12. CASE NextSink  BY <1>5, <1>12, NextSinkSim, NextSinkSinks DEF NextSink
<1>13. CASE Finish  BY <1>5, <1>13, FinishSim, FinishSinks DEF Finish
<1>14. CASE Restart  BY <1>5, <1>14, RestartSim, RestartSinks DEF Restart
<1>15. CASE Device
  <2>1. UNCHANGED <<clock, faults, transport, sim, kafka, made>> /\ transport = "devices"
    BY <1>15 DEF Device
  <2>2. QED  BY <1>1, <1>15, <2>1, IdleSim, OtherTransport, DeviceBridge
<1>16. CASE BridgeStep  BY <1>16, BridgeStepBridge
<1>17. QED
  BY <1>3, <1>4, <1>6, <1>7, <1>8, <1>9, <1>10, <1>11, <1>12, <1>13, <1>14, <1>15, <1>16
  DEF Next, Simulator

(***************************************************************************)
(* The invariant above holds in every behaviour of the simulator, its      *)
(* publishers and the bridge.                                              *)
(***************************************************************************)
THEOREM TransportInvariant == Spec => []TransportInv
<1>1. QED  BY InitHolds, StepHolds, PTL DEF Spec

(***************************************************************************)
(* Whatever the transport and the cadences, no two readings share an id,   *)
(* the sinks agree up to the batch under way, and what the bridge          *)
(* acknowledges is stored, once, or cannot be (__main__.py,                *)
(* composite_publisher.py, mqtt_bridge ingestion_service.py).              *)
(***************************************************************************)
THEOREM TransportStaysFaithful == Spec => []TransportIsFaithful
<1>1. QED  BY TransportInvariant, InvGivesProperty, PTL
=============================================================================
