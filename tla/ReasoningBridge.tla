-------------------------- MODULE ReasoningBridge --------------------------
(***************************************************************************)
(* The reasoning bridge: one worker consumes fault-alert transitions from  *)
(* a Kafka partition, records each as evidence of an AI fault              *)
(* investigation in one PostgreSQL transaction, dispatches the outbox,     *)
(* publishes a reasoning result and commits its offset.                    *)
(*                                                                         *)
(* poll() hands out a batch and moves the consumer's position behind it;   *)
(* commit(), called without offsets, commits that position; a handler that *)
(* returns False ends the batch, without moving the position back.         *)
(***************************************************************************)
EXTENDS Integers, Sequences

CONSTANTS
    Asset,          \* the assets of this partition
    MaxLog,         \* bound: messages in the partition
    MaxPoll,        \* bound: messages of one poll()
    MaxFaults       \* bound: failures and crashes

ASSUME BridgeAssumption ==
    /\ MaxLog \in Nat
    /\ MaxPoll \in Nat \ {0}
    /\ MaxFaults \in Nat

VARIABLES
    log,            \* the partition of the alert-transition topic
    sent,           \* sent[a]: transitions of a that were emitted; their timestamps
    committed,      \* the consumer group's committed offset
    position,       \* the consumer's position: messages poll() has handed out
    cur,            \* the message being handled; cur .. position is left of the batch
    pc,             \* where the worker is
    evidence,       \* the ai_fault_evidence table
    results,        \* reasoning results on the output topic
    skipped,        \* history: a message was given up before it was recorded
    faults          \* failures and crashes so far

upstream == <<log, sent>>
consumer == <<committed, position, cur>>
vars == <<log, sent, committed, position, cur, pc,
          evidence, results, skipped, faults>>

TransitionType == {"confirmed", "class_changed", "cleared"}

(* A rejected message is one that validation, or the class table, refuses. *)
Message == [asset : Asset, at : 0 .. MaxLog, type : TransitionType \cup {"rejected"}]

(* The deterministic event id of a transition: its asset and its timestamp. *)
Id(m) == <<m.asset, m.at>>

(* An investigation is named by the event that opened it. *)
EvidenceRow ==
    [asset : Asset, at : 0 .. MaxLog, inv : Asset \X (0 .. MaxLog),
     status : {"OPEN", "CLEARED"}]

TypeOK ==
    /\ log \in Seq(Message) /\ Len(log) <= MaxLog
    /\ sent \in [Asset -> 0 .. MaxLog]
    /\ committed \in 0 .. Len(log)
    /\ position \in committed .. Len(log)
    /\ cur \in 1 .. Len(log) + 1
    /\ pc \in {"polling", "handling", "dispatching", "publishing", "committing", "down"}
    /\ evidence \subseteq EvidenceRow
    /\ results \subseteq (Asset \X (0 .. MaxLog)) \X (Asset \X (0 .. MaxLog))
    /\ skipped \in BOOLEAN
    /\ faults \in 0 .. MaxFaults

Init ==
    /\ log = <<>>
    /\ sent = [a \in Asset |-> 0]
    /\ committed = 0
    /\ position = 0
    /\ cur = 1
    /\ pc = "polling"
    /\ evidence = {}
    /\ results = {}
    /\ skipped = FALSE
    /\ faults = 0

----------------------------------------------------------------------------
(* The fault-inference worker and its alert state machine, upstream. *)

(***************************************************************************)
(* A transition of any type: the state machine's own alternation of        *)
(* confirmations and clears does not show in the topic, for the worker may *)
(* restart cold, without its alerts, or fail to publish a transition.      *)
(***************************************************************************)
Emit(a, type) ==
    /\ Len(log) < MaxLog
    /\ log' = Append(log, [asset |-> a, at |-> sent[a] + 1, type |-> type])
    /\ sent' = [sent EXCEPT ![a] = @ + 1]
    /\ UNCHANGED <<consumer, pc, evidence, results, skipped, faults>>

(* What validation makes of a message it refuses: no field of it is used. *)
Refused(m) == [asset |-> m.asset, at |-> 0, type |-> "rejected"]

(* A retried publish leaves an asset's last transition in the topic twice, *)
(* or somebody writes what the bridge refuses.                             *)
Resend(a) ==
    /\ Len(log) < MaxLog
    /\ \E i \in 1 .. Len(log) :
         /\ log[i].asset = a /\ log[i].at = sent[a]
         /\ log' \in {Append(log, log[i]), Append(log, Refused(log[i]))}
    /\ UNCHANGED <<sent, consumer, pc, evidence, results, skipped, faults>>

----------------------------------------------------------------------------
(* decide_investigation, on the evidence table. *)

(* get_latest_for_asset *)
IsLatest(r, a) ==
    r \in evidence /\ r.asset = a /\ \A s \in evidence : s.asset = a => s.at <= r.at

(* Mutant: any latest row is taken to be active. *)
ActiveOfAnyStatus(a) == {r \in evidence : IsLatest(r, a)}

(* The asset's active open investigation: none or one row. *)
Active(a) == {r \in evidence : IsLatest(r, a) /\ r.status = "OPEN"}

(* The row that records m; the investigation is reused or minted. *)
Evidence(m) ==
    [asset |-> m.asset, at |-> m.at,
     inv |-> IF Active(m.asset) = {} THEN Id(m)
             ELSE (CHOOSE r \in Active(m.asset) : TRUE).inv,
     status |-> IF m.type = "cleared" THEN "CLEARED" ELSE "OPEN"]

(* Mutant: the table is not asked for the event id. *)
NeverRecorded(m) == FALSE

(* evidence_repository.get(event_id) *)
Recorded(m) == \E r \in evidence : <<r.asset, r.at>> = Id(m)

(* build_reasoning_result_event: its id is derived from these two. *)
ResultOf(m) ==
    {<<<<r.asset, r.at>>, r.inv>> : r \in {s \in evidence : <<s.asset, s.at>> = Id(m)}}

----------------------------------------------------------------------------
(* The worker. *)

Fault ==
    /\ faults < MaxFaults
    /\ faults' = faults + 1

(***************************************************************************)
(* _handle_message returned False: poll_once returns and nothing is        *)
(* committed, but the position stays behind the whole batch.               *)
(***************************************************************************)
GiveUp ==
    /\ Fault
    /\ pc' = "polling"
    /\ cur' = position + 1
    /\ skipped' = (skipped \/ \E i \in cur .. position :
                                log[i].type # "rejected" /\ ~Recorded(log[i]))

Poll ==
    /\ pc = "polling"
    /\ position < Len(log)
    /\ \E n \in 1 .. MaxPoll :
         /\ position + n <= Len(log)
         /\ position' = position + n
    /\ cur' = position + 1
    /\ pc' = "handling"
    /\ UNCHANGED <<upstream, committed, evidence, results, skipped, faults>>

(* poll() times out with nothing to hand out. *)
PollNothing ==
    /\ pc = "polling"
    /\ position = Len(log)
    /\ UNCHANGED vars

(* Mutant: a message that cannot be parsed is not committed over. *)
RejectAndRetry ==
    /\ pc = "handling"
    /\ log[cur].type = "rejected"
    /\ pc' = "polling"
    /\ position' = IF cur - 1 < committed THEN committed ELSE cur - 1
    /\ cur' = position' + 1
    /\ UNCHANGED <<upstream, committed, evidence, results, skipped, faults>>

(* Malformed, invalid or of an unsupported class: logged and left behind. *)
Reject ==
    /\ pc = "handling"
    /\ log[cur].type = "rejected"
    /\ pc' = "committing"
    /\ UNCHANGED <<upstream, consumer, evidence, results, skipped, faults>>

(* Already recorded: is_duplicate, return True. *)
IgnoreDuplicate ==
    /\ pc = "handling"
    /\ log[cur].type # "rejected"
    /\ Recorded(log[cur])
    /\ pc' = "committing"
    /\ UNCHANGED <<upstream, consumer, evidence, results, skipped, faults>>

(***************************************************************************)
(* process_alert_transition commits the evidence, its timeline entries and *)
(* its outbox row.  The worker is the table's only writer.                 *)
(***************************************************************************)
Persist ==
    /\ pc = "handling"
    /\ log[cur].type # "rejected"
    /\ ~Recorded(log[cur])
    /\ evidence' = evidence \cup {Evidence(log[cur])}
    /\ pc' = "dispatching"
    /\ UNCHANGED <<upstream, consumer, results, skipped, faults>>

(* The transaction fails: an exception, caught in _handle_message. *)
PersistFails ==
    /\ pc = "handling"
    /\ log[cur].type # "rejected"
    /\ GiveUp
    /\ UNCHANGED <<upstream, committed, position, evidence, results>>

DispatchReturns ==
    /\ pc = "dispatching"
    /\ pc' = "publishing"
    /\ UNCHANGED <<upstream, consumer, evidence, results, skipped, faults>>

(* outbox_dispatcher.dispatch() raises after the commit: the same handler. *)
DispatchRaises ==
    /\ pc = "dispatching"
    /\ GiveUp
    /\ UNCHANGED <<upstream, committed, position, evidence, results>>

Publish ==
    /\ pc = "publishing"
    /\ results' = results \cup ResultOf(log[cur])
    /\ pc' = "committing"
    /\ UNCHANGED <<upstream, consumer, evidence, skipped, faults>>

(* publish_with_retry gives up, which does not mean that nothing was sent. *)
PublishFails ==
    /\ pc = "publishing"
    /\ GiveUp
    /\ results' \in {results, results \cup ResultOf(log[cur])}
    /\ UNCHANGED <<upstream, committed, position, evidence>>

(* consumer.commit() and on to the next message of the batch. *)
CommitOffset ==
    /\ pc = "committing"
    /\ committed' = position
    /\ cur' = cur + 1
    /\ pc' = IF cur < position THEN "handling" ELSE "polling"
    /\ UNCHANGED <<upstream, position, evidence, results, skipped, faults>>

(* Killed, or commit() raises and the exception ends the process. *)
Crash ==
    /\ pc # "down"
    /\ Fault
    /\ pc' = "down"
    /\ UNCHANGED <<upstream, consumer, evidence, results, skipped>>

(* A new consumer of the group starts at the committed offset. *)
Restart ==
    /\ pc = "down"
    /\ position' = committed
    /\ cur' = committed + 1
    /\ pc' = "polling"
    /\ UNCHANGED <<upstream, committed, evidence, results, skipped, faults>>

----------------------------------------------------------------------------
Upstream == \E a \in Asset : (\E type \in TransitionType : Emit(a, type)) \/ Resend(a)

Work ==
    \/ Poll \/ PollNothing \/ Reject \/ IgnoreDuplicate \/ Persist \/ DispatchReturns
    \/ Publish \/ CommitOffset \/ Restart

Failure == PersistFails \/ DispatchRaises \/ PublishFails \/ Crash

Next == Upstream \/ Work \/ Failure

(* The worker polls for ever and is restarted; nothing has to fail. *)
Safety == Init /\ [][Next]_vars
Spec == Safety /\ WF_vars(Work)

----------------------------------------------------------------------------
(* The properties. *)

(* An investigation's status is that of its latest row. *)
IsOpen(i) ==
    \E r \in evidence : /\ r.inv = i /\ r.status = "OPEN"
                        /\ \A s \in evidence : s.inv = i => s.at <= r.at

(***************************************************************************)
(* A message that is delivered again, by Kafka or by upstream, is a no-op: *)
(* one evidence row per transition, and "at most one logical" reasoning    *)
(* result of it, the one that row stands for.                              *)
(***************************************************************************)
ReplayIsANoOp ==
    /\ \A r, s \in evidence : (r.asset = s.asset /\ r.at = s.at) => r = s
    /\ \A x, y \in results : x[1] = y[1] => x = y
    /\ \A x \in results : \E r \in evidence : x = <<<<r.asset, r.at>>, r.inv>>

(***************************************************************************)
(* The lifecycle of investigations, as long as no message is given up      *)
(* before it was recorded: at most one is open per asset, the asset's      *)
(* latest row tells which, and nothing joins a cleared one.  Crashes,      *)
(* messages lost behind a committed batch, duplicates, cold restarts and   *)
(* lost transitions upstream do not disturb it.                            *)
(***************************************************************************)
LifecycleInOrder ==
    ~skipped =>
      /\ \A r \in evidence : IsOpen(r.inv) =>
           \A s \in evidence : (s.asset = r.asset /\ s.inv # r.inv) => ~IsOpen(s.inv)
      /\ \A r, s \in evidence : (r.status = "CLEARED" /\ s.inv = r.inv) => s.at <= r.at

(***************************************************************************)
(* No message wedges the consumer: whatever is in the topic, invalid or    *)
(* failing, is handed out in the end and so is what comes after it.        *)
(***************************************************************************)
NoMessageBlocks ==
    \A i \in 1 .. MaxLog : (i <= Len(log)) ~> (position >= i)

(* Without failures every valid transition is recorded and its result      *)
(* published, also in a batch that holds duplicates and invalid messages.  *)
Settled(m) == m.type = "rejected" \/ (Recorded(m) /\ ResultOf(m) \subseteq results)
AlertsSettleWithoutFaults ==
    \A i \in 1 .. MaxLog :
        (i <= Len(log)) ~> (faults > 0 \/ (i <= Len(log) /\ Settled(log[i])))

(* "The consumer offset is committed only after the triggering message's   *)
(* required persistence and publish have both succeeded", and a redelivery *)
(* "still re-attempts the publish".                                        *)
TriggeringMessageIsSettled == pc = "committing" => Settled(log[cur])
============================================================================
