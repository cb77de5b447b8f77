--------------------------- MODULE PlantSimulator ---------------------------
(***************************************************************************)
(* The live plant simulator and its publishers, on top of MqttBridge. One  *)
(* asset, one core and one derived measurement stand for all of them: the  *)
(* loops over assets and measurements do the same for each.                *)
(*                                                                         *)
(* Over HTTP and MQTT core and derived readings have cadences of their     *)
(* own; with Kafka one snapshot holds both and goes to every sink in turn. *)
(* A failed publish ends the process; Docker starts it again with a new    *)
(* run id and the first tick.                                              *)
(***************************************************************************)
EXTENDS MqttBridge

CONSTANTS
    CoreInterval, DerivedInterval,      \* publish intervals of the dual loop
    SnapshotInterval,                   \* kafka_publish_interval_seconds
    MaxAttempts,                        \* _MAX_ATTEMPTS of the HTTP publisher
    MaxDevice                           \* bound: messages of other devices

(* The settings of the platform and of the scripts: a derived slot is also *)
(* a core slot.                                                            *)
ASSUME CadenceAssumption ==
    /\ {CoreInterval, DerivedInterval, SnapshotInterval, MaxAttempts} \subseteq Nat \ {0}
    /\ DerivedInterval % CoreInterval = 0
    /\ MaxDevice \in Nat

VARIABLES
    transport,      \* settings.transport
    sim,            \* the process: at, run, tick, deadlines and progress
    kafka,          \* readings on the telemetry topic, in order
    made,           \* history: every reading constructed
    sent,           \* history: messages the broker has taken
    acked           \* history: messages the bridge has acknowledged

vars == <<clock, faults, store, broker, online, handling,
          transport, sim, kafka, made, sent, acked>>

(* "devices": the plant is not simulated, other devices publish. *)
Transport == {"http", "mqtt", "kafka", "kafka+http", "devices"}

----------------------------------------------------------------------------
(* Readings.                                                               *)

Kinds == <<"core", "derived">>

(* observation_id: the time of a reading is not part of it. *)
ObservationId(r) == <<r.run, r.tick, r.kind>>

Reading(kind) == [run |-> sim.run, tick |-> sim.tick, kind |-> kind, at |-> clock]

Message(r) == [key |-> <<r.run, r.tick, r.kind, r.at>>, id |-> ObservationId(r),
               stamp |-> r.at, form |-> "valid"]

(* _build_publisher: the sinks of a transport, in order. *)
Sinks == CASE transport = "kafka" -> <<"kafka">>
           [] transport = "kafka+http" -> <<"kafka", "http">>
           [] OTHER -> <<transport>>

Snapshots == transport \in {"kafka", "kafka+http"}

----------------------------------------------------------------------------
(* The process. "due" says which readings the present pass of the loop     *)
(* makes, "batch" what publisher.publish has been given, "sink" and "next" *)
(* how far it is.                                                          *)

(* main: resolved_run_id gives a new id to every start. *)
Fresh(run, now) ==
    [at |-> "loop", run |-> run, tick |-> 0, core |-> now, derived |-> now,
     due |-> {}, batch |-> <<>>, sink |-> 1, next |-> 1, attempt |-> 1]

Init ==
    /\ clock = 0 /\ faults = 0 /\ store = {}
    /\ broker = <<>> /\ online = TRUE /\ handling = None
    /\ transport \in Transport
    /\ sim = [Fresh(1, 0) EXCEPT !.at = IF transport = "devices" THEN "off" ELSE "loop"]
    /\ kafka = <<>> /\ made = {} /\ sent = {} /\ acked = {}

bridgeOnly == <<clock, store, broker, online, handling>>

(* Time passes: asleep until the earliest deadline, or while a publish is  *)
(* under way.                                                              *)
Pass ==
    /\ clock < MaxTime
    /\ sim.at \in {"publish", "off"} \/ (sim.at = "loop" /\ clock < sim.core /\ clock < sim.derived)
    /\ clock' = clock + 1
    /\ UNCHANGED <<faults, store, broker, online, handling, transport, sim, kafka,
                   made, sent, acked>>

Publishing(readings) ==
    sim' = [sim EXCEPT !.at = "publish", !.batch = readings,
                       !.sink = 1, !.next = 1, !.attempt = 1]

(* _run_dual_cadence_loop: which readings are due; a core slot also ticks. *)
Wake ==
    /\ ~ Snapshots /\ sim.at = "loop"
    /\ clock >= sim.core \/ clock >= sim.derived
    /\ sim' = [sim EXCEPT !.at = "make",
                 !.tick = IF clock >= sim.core THEN @ + 1 ELSE @,
                 !.due = {k \in {"core", "derived"} : clock >= sim[k]}]
    /\ UNCHANGED <<faults, bridgeOnly, transport, kafka, made, sent, acked>>

(* The readings of one cadence, stamped when they are made. *)
Make ==
    /\ sim.at = "make"
    /\ LET r == Reading(IF "core" \in sim.due /\ sim.batch = <<>> THEN "core" ELSE "derived")
       IN Publishing(<<r>>) /\ made' = made \cup {r}
    /\ UNCHANGED <<faults, bridgeOnly, transport, kafka, sent, acked>>

(* _publish_kafka_snapshot: tick, one timestamp, both kinds. *)
Snapshot ==
    /\ Snapshots /\ sim.at = "loop" /\ clock >= sim.core
    /\ LET rs == [i \in 1 .. 2 |-> [Reading(Kinds[i]) EXCEPT !.tick = @ + 1]]
       IN /\ sim' = [sim EXCEPT !.at = "publish", !.batch = rs, !.sink = 1, !.next = 1,
                       !.attempt = 1, !.tick = @ + 1, !.due = {"core", "derived"},
                       !.core = clock + SnapshotInterval, !.derived = clock + SnapshotInterval]
          /\ made' = made \cup Range(rs)
    /\ UNCHANGED <<faults, bridgeOnly, transport, kafka, sent, acked>>

----------------------------------------------------------------------------
(* publisher.publish, one reading at a time.                               *)

Current == sim.batch[sim.next]
Sink == Sinks[sim.sink]
PublishingTo(s) == sim.at = "publish" /\ sim.next <= Len(sim.batch) /\ Sink = s

Advance == sim' = [sim EXCEPT !.next = @ + 1, !.attempt = 1]
Crash == sim' = [sim EXCEPT !.at = "down"]

KafkaSend ==
    /\ PublishingTo("kafka")
    /\ \/ kafka' = Append(kafka, Current) /\ Advance /\ NoFault
       \/ UNCHANGED kafka /\ Crash /\ Fail
    /\ UNCHANGED <<bridgeOnly, transport, made, sent, acked>>

MqttPublish ==
    /\ PublishingTo("mqtt")
    /\ LET m == Message(Current)
       IN \/ Enqueue(m) /\ sent' = sent \cup {m} /\ Advance /\ NoFault
          \/ UNCHANGED <<broker, sent>> /\ Crash /\ Fail
    /\ UNCHANGED <<clock, store, online, handling, transport, kafka, made, acked>>

(* _publish_one: 202 and 409 are success, a transport error is retried,    *)
(* another status raises.                                                  *)
HttpPost ==
    /\ PublishingTo("http")
    /\ LET m == Message(Current)
       IN \/ Answered(m.id, m.key) /\ Advance
          \/ ServerError /\ Crash
          \/ /\ TransportError(m.id, m.key)
             /\ IF sim.attempt = MaxAttempts THEN Crash
                ELSE sim' = [sim EXCEPT !.attempt = @ + 1]
    /\ UNCHANGED <<clock, broker, online, handling, transport, kafka, made, sent, acked>>

(* CompositeObservationPublisher: the next sink gets the same readings. *)
NextSink ==
    /\ sim.at = "publish" /\ sim.next > Len(sim.batch) /\ sim.sink < Len(Sinks)
    /\ sim' = [sim EXCEPT !.sink = @ + 1, !.next = 1]
    /\ UNCHANGED <<faults, bridgeOnly, transport, kafka, made, sent, acked>>

(* _advance_publish_deadline: the first slot after now. *)
AdvancePublishDeadline(deadline, interval, now) ==
    IF now < deadline THEN deadline
    ELSE deadline + ((now - deadline) \div interval + 1) * interval

(* The pass ends, or goes on with the derived readings. *)
Finish ==
    /\ sim.at = "publish" /\ sim.next > Len(sim.batch) /\ sim.sink = Len(Sinks)
    /\ sim' =
         IF ~ Snapshots /\ sim.due = {"core", "derived"} /\ sim.batch[1].kind = "core"
         THEN [sim EXCEPT !.at = "make"]
         ELSE [sim EXCEPT !.at = "loop", !.batch = <<>>, !.due = {},
                 !.core = IF "core" \in sim.due /\ ~ Snapshots
                          THEN AdvancePublishDeadline(@, CoreInterval, clock) ELSE @,
                 !.derived = IF "derived" \in sim.due /\ ~ Snapshots
                             THEN AdvancePublishDeadline(@, DerivedInterval, clock) ELSE @]
    /\ UNCHANGED <<faults, bridgeOnly, transport, kafka, made, sent, acked>>

Restart ==
    /\ sim.at = "down"
    /\ sim' = Fresh(sim.run + 1, clock)
    /\ UNCHANGED <<faults, bridgeOnly, transport, kafka, made, sent, acked>>

Simulator ==
    \/ Wake \/ Make \/ Snapshot \/ KafkaSend \/ MqttPublish \/ HttpPost
    \/ NextSink \/ Finish \/ Restart

----------------------------------------------------------------------------
(* Another device publishes: with a timestamp or without, or something     *)
(* that cannot be mapped or that the API refuses.                          *)
Device ==
    /\ transport = "devices"
    /\ LET n == Cardinality({m \in sent : m.key[1] = 0})
       IN /\ n < MaxDevice
          /\ \E stamp \in {None, 0}, form \in Form :
               LET m == [key |-> <<0, n, "device", 0>>, id |-> None,
                         stamp |-> stamp, form |-> form]
               IN Enqueue(m) /\ sent' = sent \cup {m}
    /\ UNCHANGED <<clock, faults, store, online, handling, transport, sim, kafka,
                   made, acked>>

(* The bridge, with what it acknowledges recorded. *)
BridgeStep ==
    /\ transport \in {"mqtt", "devices"} /\ (Bridge \/ BridgeFaults)
    /\ acked' = acked \cup
         {m \in sent :
            /\ online' /\ handling # None /\ handling.msg = m
            /\ \E i \in DOMAIN broker : broker[i] = [msg |-> m, out |-> TRUE]
            /\ \A i \in DOMAIN broker' : broker'[i].msg # m}
    /\ UNCHANGED <<transport, sim, kafka, made, sent>>

Next == Pass \/ Simulator \/ Device \/ BridgeStep

Fairness ==
    /\ WF_vars(Pass) /\ WF_vars(Simulator)
    /\ WF_vars(BridgeStep /\ faults' = faults)

Spec == Init /\ [][Next]_vars /\ Fairness

----------------------------------------------------------------------------
TypeOK ==
    /\ clock \in 0 .. MaxTime /\ faults \in 0 .. MaxFaults
    /\ transport \in Transport
    /\ sim.at \in {"off", "loop", "make", "publish", "down"} /\ sim.attempt \in 1 .. MaxAttempts
    /\ handling = None \/ handling.msg \in sent
    /\ Cardinality(Unacknowledged) <= Window

(* No two readings share an id. *)
IdsAreUnique ==
    \A r, s \in made : ObservationId(r) = ObservationId(s) => r = s

(* Whatever reached the store over HTTP is on the topic already, and what  *)
(* is on the topic only is of the batch under way or of a run that ended.  *)
SinksAgree ==
    transport = "kafka+http" =>
      /\ \A o \in store : \E i \in DOMAIN kafka : ObservationId(kafka[i]) = o.id
      /\ \A i \in DOMAIN kafka :
           \/ Stored(ObservationId(kafka[i]))
           \/ kafka[i] \in Range(sim.batch)
           \/ kafka[i].run < sim.run

(***************************************************************************)
(* The simulator's readings arrive as they were made. An id never stands   *)
(* for two of them, although it does not hold the time and a late pass     *)
(* makes derived readings without a tick (__main__.py:118-136, 255-303);   *)
(* nothing is stored that Kafka has not got, and of a run that goes on     *)
(* only the batch under way may be on one side (composite_publisher.py).   *)
(* Over HTTP a pass ends with its readings stored, retries included.       *)
(***************************************************************************)
ReadingsArrive ==
    /\ TypeOK /\ IdsAreUnique /\ SinksAgree
    /\ transport = "http" =>
         \A r \in made : \/ Stored(ObservationId(r))
                         \/ r \in Range(sim.batch) \/ r.run < sim.run

Bare(m) == m.id = None /\ m.stamp = None

(***************************************************************************)
(* What the bridge acknowledges is settled: stored, by it or under the     *)
(* same id before, or malformed or refused. And a message is stored once,  *)
(* however often it is delivered, if it has an id or a timestamp           *)
(* (ingestion_service.py:60-113, observation_mapper.py:118-124).           *)
(***************************************************************************)
AcknowledgedIsSettled ==
    /\ \A m \in acked : m.form = "valid" =>
         IF Bare(m) THEN \E t \in 0 .. clock : Stored(<<"mqtt", t>>)
         ELSE Stored(ResolveId(m))
    /\ \A m \in sent : ~ Bare(m) => Cardinality({o \in store : o.key = m.key}) <= 1

(***************************************************************************)
(* Both ways into the platform deliver what was made, once.                *)
(***************************************************************************)
TransportIsFaithful == ReadingsArrive /\ AcknowledgedIsSettled

Held(m) == \E i \in DOMAIN broker : broker[i].msg = m
Parked(i) == broker[i].out /\ (handling = None \/ handling.msg # broker[i].msg)
Stuck(m) == \/ \E i \in DOMAIN broker : broker[i].msg = m /\ Parked(i)
            \/ Cardinality({i \in DOMAIN broker : Parked(i)}) = Window

(***************************************************************************)
(* A message is not forgotten: in the end it is acknowledged, or stays in  *)
(* the broker behind the one thing the bridge never ends by itself, an     *)
(* unacknowledged delivery on a connection that stays up: the message      *)
(* itself, or a full window of others (ingestion_service.py:101-108).      *)
(***************************************************************************)
MessagesProgress ==
    \A k \in {<<1, 1, "core", 0>>} \cup {<<0, n, "device", 0>> : n \in 0 .. MaxDevice - 1} :
      (\E m \in sent : m.key = k) ~>
         (\/ \E m \in acked : m.key = k
          \/ \E m \in sent : m.key = k /\ Held(m) /\ Stuck(m))
=============================================================================
