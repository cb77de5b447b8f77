----------------------------- MODULE MqttBridge -----------------------------
(***************************************************************************)
(* The MQTT ingestion bridge between the broker and POST /observations.    *)
(* The broker keeps the bridge's session (clean_session False): a message  *)
(* stays until the bridge acknowledges it, by hand, on the connection that *)
(* delivered it, and is delivered again only after a reconnect. At most    *)
(* Window deliveries may be unacknowledged at a time.                      *)
(*                                                                         *)
(* A message is a record: key names it, id and stamp are what its payload  *)
(* carries (None if absent), form says whether it can be mapped and        *)
(* whether the API takes it.                                               *)
(***************************************************************************)
EXTENDS Integers, Sequences, FiniteSets, SequencesExt

CONSTANTS
    None,           \* no id, no timestamp, no message
    Window,         \* the broker's limit of unacknowledged deliveries
    MaxTime,        \* bound: the clock
    MaxFaults       \* bound: failed requests, cut connections and crashes

ASSUME BridgeAssumption ==
    Window \in Nat \ {0} /\ {MaxTime, MaxFaults} \subseteq Nat

VARIABLES
    clock,          \* the wall clock
    faults,         \* faults so far
    store,          \* observations: [id, key] with key the message they are of
    broker,         \* messages of the session, in order: [msg, out]
    online,         \* is the bridge connected?
    handling        \* the delivery in _handle_delivery: [msg, id], or None

Form == {"valid", "malformed", "refused"}

MayFail == faults < MaxFaults
Fail == MayFail /\ faults' = faults + 1
NoFault == UNCHANGED faults

----------------------------------------------------------------------------
(* The API: a new id is stored (202), a known one is a conflict (409).     *)

Stored(id) == \E o \in store : o.id = id

Accept(id, key) ==
    store' = IF Stored(id) THEN store ELSE store \cup {[id |-> id, key |-> key]}

(* The answer to a POST, or its failure: no connection, no answer although *)
(* it was stored (a timeout), or a server error.                           *)
Answered(id, key) ==
    /\ Accept(id, key)
    /\ NoFault
TransportError(id, key) ==
    /\ Fail
    /\ UNCHANGED store \/ Accept(id, key)
ServerError ==
    /\ Fail
    /\ UNCHANGED store

----------------------------------------------------------------------------
(* The broker's side of the session.                                       *)

Enqueue(m) == broker' = Append(broker, [msg |-> m, out |-> FALSE])

Unacknowledged == {i \in DOMAIN broker : broker[i].out}
Waiting == DOMAIN broker \ Unacknowledged

Deliver ==
    /\ online /\ handling = None
    /\ Waiting # {} /\ Cardinality(Unacknowledged) < Window
    /\ \E i \in Waiting :
         /\ \A j \in Waiting : i <= j
         /\ broker' = [broker EXCEPT ![i].out = TRUE]
         /\ handling' = [msg |-> broker[i].msg, id |-> None]
    /\ UNCHANGED <<clock, faults, store, online>>

(* An acknowledgement reaches the broker only over a live connection. *)
Acknowledge ==
    \/ ~ online /\ UNCHANGED broker
    \/ online /\ \E i \in Unacknowledged :
          broker[i].msg = handling.msg /\ broker' = RemoveAt(broker, i)

(* Mutant: clean_session is left on, and the broker forgets the session. *)
DisconnectCleanSession ==
    /\ online /\ Fail
    /\ online' = FALSE
    /\ broker' = <<>>
    /\ UNCHANGED <<clock, store, handling>>

(* The session survives its connection. *)
Disconnect ==
    /\ online /\ Fail
    /\ online' = FALSE
    /\ UNCHANGED <<clock, store, broker, handling>>

(* The process dies with what it was handling. *)
CrashBridge ==
    /\ Fail
    /\ online' = FALSE /\ handling' = None
    /\ UNCHANGED <<clock, store, broker>>

(* loop_forever reconnects after the handler; on_connect subscribes again  *)
(* and the broker delivers all that it has not seen acknowledged.          *)
Reconnect ==
    /\ ~ online /\ handling = None
    /\ online' = TRUE
    /\ broker' = [i \in DOMAIN broker |-> [broker[i] EXCEPT !.out = FALSE]]
    /\ UNCHANGED <<clock, faults, store, handling>>

----------------------------------------------------------------------------
(* _handle_delivery.                                                       *)

(* Mutant: an id that is missing always comes from the clock. *)
ResolveIdFromClock(m) == IF m.id # None THEN m.id ELSE <<"mqtt", clock>>

(* _resolve_timestamp and _resolve_id. *)
ResolveId(m) ==
    IF m.id # None THEN m.id
    ELSE <<"mqtt", IF m.stamp = None THEN clock ELSE m.stamp>>

(* map_message; what cannot be mapped is acknowledged and dropped. *)
Map ==
    /\ handling # None /\ handling.id = None
    /\ IF handling.msg.form = "malformed"
       THEN Acknowledge /\ handling' = None
       ELSE handling' = [handling EXCEPT !.id = ResolveId(handling.msg)] /\ UNCHANGED broker
    /\ UNCHANGED <<clock, faults, store, online>>

(* forward answered 202 or 409, or a refusal: all three are acknowledged. *)
ForwardSettled ==
    /\ handling # None /\ handling.id # None
    /\ IF handling.msg.form = "refused" THEN NoFault /\ UNCHANGED store
       ELSE Answered(handling.id, handling.msg.key)
    /\ Acknowledge /\ handling' = None
    /\ UNCHANGED <<clock, online>>

(* RETRYABLE: left unacknowledged, for the broker to deliver again. *)
ForwardRetryable ==
    /\ handling # None /\ handling.id # None /\ handling.msg.form = "valid"
    /\ ServerError \/ TransportError(handling.id, handling.msg.key)
    /\ handling' = None
    /\ UNCHANGED <<clock, broker, online>>

Bridge == Deliver \/ Map \/ ForwardSettled \/ ForwardRetryable \/ Reconnect
BridgeFaults == Disconnect \/ CrashBridge
=============================================================================
