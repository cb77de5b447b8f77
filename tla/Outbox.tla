------------------------------- MODULE Outbox -------------------------------
(***************************************************************************)
(* The transactional outbox.  A process (an API request, the reasoning     *)
(* worker, the reasoning bridge) commits outbox rows together with the     *)
(* change they announce and then calls OutboxDispatcher.dispatch(), which  *)
(* takes EVERY undispatched row, whoever wrote it: it publishes each on    *)
(* the in-process bus (cache invalidation and SSE through Redis, then the  *)
(* timeline, in the order the handlers are registered) and on Kafka, and   *)
(* marks the delivered ones in one commit at the end.                      *)
(*                                                                         *)
(* No lock is taken on the rows and nothing dispatches by the clock: the   *)
(* passes of two processes may overlap, and a row one pass leaves behind   *)
(* waits for the next transaction somebody commits.                        *)
(***************************************************************************)
EXTENDS Naturals

CONSTANTS
    Event,          \* outbox rows; numbers, in the order of created_at
    TypeOf,         \* the event_type of a row
    Txn,            \* the sets of rows that are committed together
    Proc,           \* processes that write events and dispatch
    MaxFaults       \* bound: failed deliveries, failed handlers, crashes

ASSUME EventAssumption ==
    /\ Event \subseteq Nat
    /\ Txn \subseteq SUBSET Event
    /\ MaxFaults \in Nat

VARIABLES
    outbox,         \* outbox[e]: absent, pending (dispatched_at IS NULL) or dispatched
    pc,             \* pc[p]: where process p is in dispatch()
    batch,          \* batch[p]: the rows its loop has yet to finish
    marked,         \* marked[p]: rows it has given a dispatched_at, uncommitted
    delivered,      \* delivered[l][e]: deliveries of e on leg l, 2 meaning "at least 2"
    failed,         \* history: rows some pass failed to deliver
    overlapped,     \* history: rows two passes held at the same time
    faults          \* faults so far

vars == <<outbox, pc, batch, marked, delivered, failed, overlapped, faults>>

(* The in-process bus handlers subscribe to these types, *)
CacheTypes == {"HealthChanged", "RiskChanged", "RecommendationUpdated",
               "NotificationCreated", "ReasoningCompleted",
               "InvestigationTransitionRecorded"}
MonitoringTypes == {"ObservationCreated", "ReasoningCompleted",
                    "AiFaultInvestigationUpdated"}
RunTypes == {"ObservationCreated", "ReasoningStarted", "ReasoningCompleted",
             "RecommendationUpdated", "TrendChanged", "HealthChanged",
             "RiskChanged", "NotificationCreated"}
TimelineTypes == RunTypes \cup {"InvestigationTransitionRecorded"}

(* and these are mapped to an integration event. *)
KafkaTypes == {"ReasoningCompleted", "HealthChanged", "RiskChanged", "TrendChanged",
               "RecommendationUpdated", "NotificationCreated",
               "InvestigationTransitionRecorded"}

(* The types _deserialize_domain_event knows.  A row of another type, left *)
(* by a newer release, is skipped by every pass.                           *)
KnownTypes == MonitoringTypes \cup TimelineTypes

Leg == {"redis", "timeline", "kafka"}
LegsOf(e) ==
    {l \in Leg : \/ l = "redis" /\ TypeOf[e] \in CacheTypes \cup MonitoringTypes
                 \/ l = "timeline" /\ TypeOf[e] \in TimelineTypes
                 \/ l = "kafka" /\ TypeOf[e] \in KafkaTypes}

Pending == {e \in Event : outbox[e] = "pending"}
Known(e) == TypeOf[e] \in KnownTypes

(* The row p's loop is at: the oldest it has not finished. *)
IsCurrent(p, e) == e \in batch[p] /\ \A f \in batch[p] : e <= f

(* The rows p's pass is responsible for. *)
Held(p) == batch[p] \cup marked[p]

(* A delivery of e on leg l, if e has that leg. *)
Deliver(l, e) ==
    IF l \in LegsOf(e)
    THEN [delivered EXCEPT ![l][e] = IF @ = 0 THEN 1 ELSE 2]
    ELSE delivered

TypeOK ==
    /\ outbox \in [Event -> {"absent", "pending", "dispatched"}]
    /\ pc \in [Proc -> {"idle", "selecting", "loop", "recording", "sending"}]
    /\ batch \in [Proc -> SUBSET Event]
    /\ marked \in [Proc -> SUBSET Event]
    /\ delivered \in [Leg -> [Event -> 0 .. 2]]
    /\ failed \subseteq Event
    /\ overlapped \subseteq Event
    /\ faults \in 0 .. MaxFaults

Init ==
    /\ outbox = [e \in Event |-> "absent"]
    /\ pc = [p \in Proc |-> "idle"]
    /\ batch = [p \in Proc |-> {}]
    /\ marked = [p \in Proc |-> {}]
    /\ delivered = [l \in Leg |-> [e \in Event |-> 0]]
    /\ failed = {}
    /\ overlapped = {}
    /\ faults = 0

----------------------------------------------------------------------------
Goto(p, label) == pc' = [pc EXCEPT ![p] = label]

Fault ==
    /\ faults < MaxFaults
    /\ faults' = faults + 1

(* uow.commit() of a change and its outbox rows; dispatch() is called next. *)
AddEvents(p, T) ==
    /\ pc[p] = "idle"
    /\ \A e \in T : outbox[e] = "absent"
    /\ outbox' = [e \in Event |-> IF e \in T THEN "pending" ELSE outbox[e]]
    /\ Goto(p, "selecting")
    /\ UNCHANGED <<batch, marked, delivered, failed, overlapped, faults>>

(* The same for a transaction whose rows are not among Event. *)
OtherTraffic(p) ==
    /\ pc[p] = "idle"
    /\ Goto(p, "selecting")
    /\ UNCHANGED <<outbox, batch, marked, delivered, failed, overlapped, faults>>

(* Mutant: the pass selects the rows after the last dispatched one. *)
SelectAfterCursor(p) ==
    /\ pc[p] = "selecting"
    /\ batch' = [batch EXCEPT ![p] =
                   {e \in Pending : \A f \in Event : outbox[f] = "dispatched" => f < e}]
    /\ overlapped' = overlapped \cup (batch'[p] \cap UNION {Held(q) : q \in Proc})
    /\ Goto(p, "loop")
    /\ UNCHANGED <<outbox, marked, delivered, failed, faults>>

(* Mutant: the WHERE clause is missing. *)
SelectEverything(p) ==
    /\ pc[p] = "selecting"
    /\ batch' = [batch EXCEPT ![p] = {e \in Event : outbox[e] # "absent"}]
    /\ overlapped' = overlapped \cup (batch'[p] \cap UNION {Held(q) : q \in Proc})
    /\ Goto(p, "loop")
    /\ UNCHANGED <<outbox, marked, delivered, failed, faults>>

(* dispatch() reads every row with dispatched_at IS NULL. *)
Select(p) ==
    /\ pc[p] = "selecting"
    /\ batch' = [batch EXCEPT ![p] = Pending]
    /\ overlapped' = overlapped \cup (Pending \cap UNION {Held(q) : q \in Proc})
    /\ Goto(p, "loop")
    /\ UNCHANGED <<outbox, marked, delivered, failed, faults>>

(* Mutant: an unknown row ends the loop. *)
SkipTheRest(p, e) ==
    /\ pc[p] = "loop"
    /\ IsCurrent(p, e)
    /\ ~Known(e)
    /\ batch' = [batch EXCEPT ![p] = {}]
    /\ UNCHANGED <<outbox, pc, marked, delivered, failed, overlapped, faults>>

(* _deserialize_domain_event returned None: continue. *)
SkipUnknown(p, e) ==
    /\ pc[p] = "loop"
    /\ IsCurrent(p, e)
    /\ ~Known(e)
    /\ batch' = [batch EXCEPT ![p] = @ \ {e}]
    /\ UNCHANGED <<outbox, pc, marked, delivered, failed, overlapped, faults>>

(***************************************************************************)
(* event_bus.publish, its first handlers: the cache invalidation and the   *)
(* SSE event, both of which log and swallow a Redis error.                 *)
(***************************************************************************)
Notify(p, e) ==
    /\ pc[p] = "loop"
    /\ IsCurrent(p, e)
    /\ Known(e)
    /\ \/ delivered' = Deliver("redis", e) /\ UNCHANGED faults
       \/ UNCHANGED delivered /\ "redis" \in LegsOf(e) /\ Fault
    /\ Goto(p, "recording")
    /\ UNCHANGED <<outbox, batch, marked, failed, overlapped>>

(* Its last handler: TimelineEventHandler commits a row of its own. *)
Record(p, e) ==
    /\ pc[p] = "recording"
    /\ IsCurrent(p, e)
    /\ delivered' = Deliver("timeline", e)
    /\ Goto(p, "sending")
    /\ UNCHANGED <<outbox, batch, marked, failed, overlapped, faults>>

(***************************************************************************)
(* p's pass is abandoned: the session rolls back, its marks are gone.  A   *)
(* process that has committed but not selected yet abandons what is there. *)
(***************************************************************************)
Abandon(p) ==
    /\ Fault
    /\ failed' = failed \cup (IF pc[p] = "selecting" THEN Pending ELSE Held(p))
    /\ batch' = [batch EXCEPT ![p] = {}]
    /\ marked' = [marked EXCEPT ![p] = {}]
    /\ Goto(p, "idle")
    /\ UNCHANGED <<outbox, delivered, overlapped>>

(* The timeline handler raised: publish, and with it dispatch(), raises. *)
RecordRaises(p, e) ==
    /\ pc[p] = "recording"
    /\ IsCurrent(p, e)
    /\ "timeline" \in LegsOf(e)
    /\ Abandon(p)

(* The process dies, or a statement of dispatch() itself fails. *)
Crash(p) ==
    /\ pc[p] # "idle"
    /\ Abandon(p)

(* _publish_integration_event returned True: acknowledged by Kafka, or no *)
(* Kafka leg.  row.dispatched_at = now.                                   *)
Send(p, e) ==
    /\ pc[p] = "sending"
    /\ IsCurrent(p, e)
    /\ delivered' = Deliver("kafka", e)
    /\ marked' = [marked EXCEPT ![p] = @ \cup {e}]
    /\ batch' = [batch EXCEPT ![p] = @ \ {e}]
    /\ Goto(p, "loop")
    /\ UNCHANGED <<outbox, failed, overlapped, faults>>

(* Mutant: a failed publish marks the row all the same. *)
SendFailsMarked(p, e) ==
    /\ pc[p] = "sending"
    /\ IsCurrent(p, e)
    /\ "kafka" \in LegsOf(e)
    /\ Fault
    /\ delivered' \in {delivered, Deliver("kafka", e)}
    /\ marked' = [marked EXCEPT ![p] = @ \cup {e}]
    /\ batch' = [batch EXCEPT ![p] = @ \ {e}]
    /\ Goto(p, "loop")
    /\ UNCHANGED <<outbox, failed, overlapped>>

(* publish returned False, which after a timeout of five seconds does not  *)
(* mean that the broker never gets the message: continue with the next row. *)
SendFails(p, e) ==
    /\ pc[p] = "sending"
    /\ IsCurrent(p, e)
    /\ "kafka" \in LegsOf(e)
    /\ Fault
    /\ delivered' \in {delivered, Deliver("kafka", e)}
    /\ failed' = failed \cup {e}
    /\ batch' = [batch EXCEPT ![p] = @ \ {e}]
    /\ Goto(p, "loop")
    /\ UNCHANGED <<outbox, marked, overlapped>>

(* The loop is over: uow.commit() if anything was marked. *)
Commit(p) ==
    /\ pc[p] = "loop"
    /\ batch[p] = {}
    /\ outbox' = [e \in Event |-> IF e \in marked[p] THEN "dispatched" ELSE outbox[e]]
    /\ marked' = [marked EXCEPT ![p] = {}]
    /\ Goto(p, "idle")
    /\ UNCHANGED <<batch, delivered, failed, overlapped, faults>>

----------------------------------------------------------------------------
Begin(p) == OtherTraffic(p) \/ (\E T \in Txn : AddEvents(p, T))

(* A step of dispatch() without a failure. *)
Pass(p) ==
    \/ Select(p)
    \/ Commit(p)
    \/ \E e \in Event : SkipUnknown(p, e) \/ Notify(p, e) \/ Record(p, e) \/ Send(p, e)

Failure(p) ==
    Crash(p) \/ (\E e \in Event : RecordRaises(p, e) \/ SendFails(p, e))

Next == \E p \in Proc : Begin(p) \/ Pass(p) \/ Failure(p)

(* dispatch() once called runs to its end; nobody has to call it. *)
Safety == Init /\ [][Next]_vars
Spec == Safety /\ \A p \in Proc : WF_vars(Pass(p))

----------------------------------------------------------------------------
(* The properties. *)

(***************************************************************************)
(* A row is only ever marked dispatched once it has reached the durable    *)
(* legs it has: its timeline entry is committed and Kafka has acknowledged *)
(* it, whatever failed, was abandoned or overlapped on the way.            *)
(***************************************************************************)
DispatchedIsDelivered ==
    \A e \in Event : outbox[e] = "dispatched" =>
        \A l \in LegsOf(e) \ {"redis"} : delivered[l][e] > 0

(***************************************************************************)
(* Nothing is delivered twice without a cause: a second timeline entry, a  *)
(* second Kafka message or a second invalidation of a row follows a failed *)
(* pass over that row, or two passes that held it at the same time.        *)
(***************************************************************************)
DuplicateHasCause ==
    \A l \in Leg, e \in Event : delivered[l][e] > 1 => e \in failed \cup overlapped

(***************************************************************************)
(* The writer's own call of dispatch() is enough unless a pass fails: a    *)
(* committed row is dispatched, or some pass failed over it.  Rows of an   *)
(* unknown type in front of it do not stop it.                             *)
(***************************************************************************)
DispatchedUnlessFailed ==
    \A e \in Event : (e \in Pending /\ Known(e))
                       ~> (outbox[e] = "dispatched" \/ e \in failed)

(***************************************************************************)
(* While transactions keep being committed somewhere, every row is         *)
(* dispatched in the end, also the ones a failed pass left behind.         *)
(***************************************************************************)
DispatchedWhileTrafficLasts ==
    []<>(\E p \in Proc : pc[p] = "selecting")
      => \A e \in Event : (e \in Pending /\ Known(e)) ~> (outbox[e] = "dispatched")

(* "A transactional outbox guarantees domain events reach Kafka." *)
EventsReachKafka ==
    \A e \in Event : (e \in Pending /\ "kafka" \in LegsOf(e))
                       ~> (delivered["kafka"][e] > 0)
============================================================================
