---------------------------- MODULE FaultAdvice ----------------------------
(***************************************************************************)
(* What becomes of an asset's alerts: every event of the session is a      *)
(* transition message; the reasoning bridge checks it against the trends   *)
(* of the asset's telemetry, files it under an investigation, advises the  *)
(* operator, writes the timeline, and the dashboard reads the result.      *)
(* ReasoningBridge has the consumer's faults; here a message is delivered  *)
(* in order, or lost.                                                      *)
(***************************************************************************)
EXTENDS FaultSession

CONSTANTS
    FaultName,              \* the mapped fault classes, by class
    Series,                 \* the readings a measurement may have in the window
    MinObservations,        \* MIN_OBSERVATIONS_FOR_TREND
    MinDirectional,         \* _MIN_SAMPLES_FOR_DIRECTIONAL_TREND
    SampleLimit,            \* corroboration_sample_limit
    HistoryLimit,           \* investigations listed by the API
    MaxInbox                \* bound: messages under way

ASSUME AdviceAssumption ==
    /\ DOMAIN FaultName = Class \ {Healthy}
    /\ Range(FaultName) \subseteq {"cooling_degradation", "hydrogen_supply_issue",
                                   "sensor_anomaly"}
    /\ MinObservations \in Nat \ {0} /\ MinDirectional \in Nat
    /\ SampleLimit \in Nat \ {0} /\ HistoryLimit \in Nat \ {0} /\ MaxInbox \in Nat \ {0}

----------------------------------------------------------------------------
(* Corroboration.                                                          *)

SumOf(v) == FoldLeft(+, 0, v)

(* TrendDetector.detect *)
Detect(v) ==
    LET n == Len(v)
        mid == n \div 2
        shift == SumOf(SubSeq(v, n - mid + 1, n)) - SumOf(SubSeq(v, 1, mid))
        spread == n * SumOf([i \in 1 .. n |-> v[i] * v[i]]) - SumOf(v) * SumOf(v)
    IN CASE n < MinDirectional \/ 25 * shift * shift * n * n < 16 * mid * mid * spread
              \/ shift = 0 -> "stable"
         [] OTHER -> IF shift > 0 THEN "increasing" ELSE "decreasing"

(* fetch: of a window that holds more than the limit, the oldest. *)
Fetch(readings) == SubSeq(readings, 1, Min({SampleLimit, Len(readings)}))

(* _trend *)
Trend(readings) ==
    IF Len(Fetch(readings)) < MinObservations THEN "unknown" ELSE Detect(Fetch(readings))

(* relevant_measurements, as far as a rule reads them. *)
Relevant(name) ==
    CASE name = "cooling_degradation" -> {"stack_temperature", "coolant_flow"}
      [] name = "hydrogen_supply_issue" -> {"fuel_flow", "voltage"}
      [] name = "sensor_anomaly" -> {"stack_temperature", "current", "voltage", "fuel_flow"}

CorroborateCooling(temperature, coolant) ==
    CASE temperature = "unknown" -> "insufficient_evidence"
      [] temperature \in {"stable", "decreasing"} -> "not_corroborated"
      [] temperature = "increasing" /\ coolant = "increasing" -> "not_corroborated"
      [] temperature = "increasing" /\ coolant \in {"unknown", "stable"} ->
           "partially_corroborated"
      [] temperature = "increasing" /\ coolant = "decreasing" -> "corroborated"

CorroborateHydrogen(fuel, voltage) ==
    CASE fuel = "unknown" -> "insufficient_evidence"
      [] fuel \in {"stable", "increasing"} -> "not_corroborated"
      [] fuel = "decreasing" /\ voltage # "decreasing" -> "partially_corroborated"
      [] fuel = "decreasing" /\ voltage = "decreasing" -> "corroborated"

(* related: the trends of the related signals, those that are known. *)
CorroborateSensor(temperature, related) ==
    CASE temperature = "unknown" -> "insufficient_evidence"
      [] temperature = "stable" -> "not_corroborated"
      [] temperature \in {"increasing", "decreasing"} ->
           CASE related = {} -> "partially_corroborated"
             [] related = {"stable"} -> "corroborated"
             [] related # {} /\ "stable" \notin related -> "not_corroborated"
             [] OTHER -> "partially_corroborated"

(* _corroborate, on the window of every measurement. *)
Corroborate(name, window) ==
    LET t == [m \in DOMAIN window |-> Trend(window[m])]
    IN CASE name = "cooling_degradation" ->
              CorroborateCooling(t["stack_temperature"], t["coolant_flow"])
         [] name = "hydrogen_supply_issue" ->
              CorroborateHydrogen(t["fuel_flow"], t["voltage"])
         [] name = "sensor_anomaly" ->
              CorroborateSensor(t["stack_temperature"],
                  {t[m] : m \in {"current", "voltage", "fuel_flow"}} \ {"unknown"})

(* What the telemetry may make of an alert for class c. *)
Outcomes == [c \in DOMAIN FaultName |->
    {Corroborate(FaultName[c], w) : w \in [Relevant(FaultName[c]) -> Series]}]

(* build_recommendation *)
Recommendation(result) ==
    CASE result = "corroborated" ->
           [status |-> "produced", category |-> "investigate", urgency |-> "ELEVATED"]
      [] result = "partially_corroborated" ->
           [status |-> "produced", category |-> "investigate",
            urgency |-> "INSPECTION_REQUIRED"]
      [] result \in {"not_corroborated", "insufficient_evidence"} ->
           [status |-> "withheld", category |-> "monitor", urgency |-> "INFORMATIONAL"]

NoRecommendation == [status |-> "none", category |-> "none", urgency |-> "none"]

----------------------------------------------------------------------------
VARIABLES
    inbox,          \* transitions on their way to the bridge
    history,        \* the last investigations: the latest evidence of each and
                    \* the kinds of its timeline entries
    lost            \* history: transitions that have yet to arrive before the
                    \* bridge has caught up with one lost or an alert forgotten

adviceVars == <<inbox, history, lost>>
allVars == <<vars, adviceVars>>

(* build_transition_event *)
TransitionType ==
    [new_alert |-> "confirmed", class_change |-> "class_changed", cleared |-> "cleared"]

(* The class is that of the state an alert that is cleared leaves, of the  *)
(* state it enters otherwise.                                              *)
Transition(e) == [type |-> TransitionType[e.type], class |-> e.class]

(* get_latest_for_asset, and whether its investigation is open. *)
HasOpen == history # <<>> /\ Last(history).status = "OPEN"

(* The entries of _write_timeline_entries. *)
TimelineEntries(type, isNew) ==
    IF type = "cleared" THEN {"alert_received", "alert_cleared"}
    ELSE {"alert_received", "corroboration_completed", "recommendation_recorded",
          IF isNew THEN "investigation_opened" ELSE "investigation_updated"}

(* decide_investigation, previous_diagnosed_fault_class. *)
PreviousClass(t) ==
    IF HasOpen /\ (t.type = "cleared" \/ Last(history).class # t.class)
    THEN Last(history).class ELSE None

(* Mutant: an investigation stays with the class it was opened for. *)
EvidenceKeepingClass(t, result) ==
    [class |-> IF HasOpen THEN Last(history).class ELSE t.class,
     previous |-> PreviousClass(t),
     status |-> IF t.type = "cleared" THEN "CLEARED" ELSE "OPEN",
     result |-> result,
     recommendation |-> IF t.type = "cleared" THEN NoRecommendation
                        ELSE Recommendation(result),
     timeline |-> TimelineEntries(t.type, ~ HasOpen)]

(* AiFaultEvidence: the row that records transition t. *)
EvidenceOf(t, result) ==
    [class |-> t.class,
     previous |-> PreviousClass(t),
     status |-> IF t.type = "cleared" THEN "CLEARED" ELSE "OPEN",
     result |-> result,
     recommendation |-> IF t.type = "cleared" THEN NoRecommendation
                        ELSE Recommendation(result),
     timeline |-> TimelineEntries(t.type, ~ HasOpen)]

(***************************************************************************)
(* decide_investigation and save: the row joins the open investigation,    *)
(* whose latest row it becomes, or begins one. Those beyond the limit of   *)
(* the list are not kept.                                                  *)
(***************************************************************************)
File(row) ==
    IF HasOpen
    THEN [history EXCEPT ![Len(history)] = [row EXCEPT !.timeline = @ \cup Last(history).timeline]]
    ELSE Append(IF Len(history) = HistoryLimit THEN Tail(history) ELSE history, row)

(* process_alert_transition of the next message. *)
Deliver ==
    /\ inbox # <<>>
    /\ LET t == Head(inbox)
       IN \E result \in IF t.type = "cleared" THEN {"not_applicable"} ELSE Outcomes[t.class] :
            history' = File(EvidenceOf(t, result))
    /\ inbox' = Tail(inbox)
    /\ lost' = Max({lost - 1, 0})
    /\ UNCHANGED vars

(* Its publication, or its processing, was given up. *)
Lose ==
    /\ inbox # <<>>
    /\ inbox' = Tail(inbox)
    /\ lost' = Max({lost - 1, 1})
    /\ UNCHANGED <<vars, history>>

(* The session takes a sample; its event is published. *)
Sample ==
    /\ UNCHANGED <<history, lost>>
    /\ Ingest
    /\ event' # NoEvent => Len(inbox) < MaxInbox
    /\ inbox' = IF event' = NoEvent THEN inbox ELSE Append(inbox, Transition(event'))

(* A cold start: the alert that was up is forgotten without an event. *)
ColdStart ==
    /\ Reset
    /\ lost' = IF machine.confirmed = None THEN lost ELSE Len(inbox) + 1
    /\ UNCHANGED <<inbox, history>>

AdviceInit == Init /\ inbox = <<>> /\ history = <<>> /\ lost = 0

AdviceNext == Sample \/ ColdStart \/ Deliver \/ Lose

(* Samples keep coming, and the bridge keeps polling. *)
AdviceSpec == AdviceInit /\ [][AdviceNext]_allVars /\ WF_allVars(Sample) /\ WF_allVars(Deliver)

----------------------------------------------------------------------------
(* The read model.                                                         *)

(* get_active_for_asset *)
ActiveForAsset == IF HasOpen THEN {Last(history)} ELSE {}

(* FaultInvestigationSummaryResponse.from_domain *)
Summary(row) ==
    [class |-> row.class, status |-> row.status, result |-> row.result,
     urgency |-> row.recommendation.urgency,
     recommendationStatus |-> row.recommendation.status]

(* list_for_asset_grouped_by_investigation: newest first. *)
HistoryResponse == Reverse([i \in DOMAIN history |-> Summary(history[i])])

ActiveResponse == {Summary(row) : row \in ActiveForAsset}

----------------------------------------------------------------------------
AdviceTypeOK ==
    /\ TypeOK
    /\ Len(inbox) <= MaxInbox /\ Len(history) <= HistoryLimit
    /\ lost \in 0 .. MaxInbox + 1

(***************************************************************************)
(* The alert machine does what its docstring promises, and no more: an     *)
(* unbroken streak raises, a streak of another class switches, a           *)
(* persisting fault is confirmed, only healthy rows clear, no counter      *)
(* outlives its state, and the evidence names the diagnosis                *)
(* (state_machine.py, evidence.py), whatever resets intervene.             *)
(***************************************************************************)
AlertsAreJustified ==
    /\ AdviceTypeOK
    /\ NewAlertNeedsStreak /\ SwitchNeedsStreak /\ StreakConfirms
    /\ ClearNeedsHealthyRows
    /\ CountersMatchState /\ EvidenceNamesDiagnosis

(***************************************************************************)
(* The dashboard's active investigation is about the alert that is up, and *)
(* there is none when there is no alert; when transitions were lost, or a  *)
(* cold start forgot an alert, from the next transition on that arrives.   *)
(* (investigation_lifecycle.py:39, fault_investigation_service.py:35.)     *)
(***************************************************************************)
AdviceFollowsAlert ==
    inbox = <<>> /\ lost = 0 =>
      {row.class : row \in ActiveResponse} = {machine.confirmed} \ {None}

(***************************************************************************)
(* The list, the active view and the timeline tell one story, whatever was *)
(* lost or forgotten: only the newest investigation can be open, a cleared *)
(* one is never taken up again, one that was ever diagnosed says when it   *)
(* was opened, and advice is shown exactly while it is open.               *)
(* (fault_investigations.py:41-95, reasoning_bridge_service.py:243.)       *)
(***************************************************************************)
ReadModelIsCoherent ==
    /\ \A i \in DOMAIN HistoryResponse :
         /\ HistoryResponse[i].status = "OPEN" =>
              i = 1 /\ ActiveResponse = {HistoryResponse[i]}
         /\ HistoryResponse[i].status = "OPEN" <=> HistoryResponse[i].urgency # "none"
    /\ \A i \in DOMAIN history :
         /\ history[i].status = "CLEARED" <=> "alert_cleared" \in history[i].timeline
         /\ "corroboration_completed" \in history[i].timeline
              <=> "investigation_opened" \in history[i].timeline
         /\ history[i].status = "OPEN" => history[i].previous # history[i].class
         /\ history[i].status = "CLEARED" /\ history[i].previous = None
              => "investigation_opened" \notin history[i].timeline

(***************************************************************************)
(* What an operator reads is one story, and it is the alert's.             *)
(***************************************************************************)
AdviceIsCoherent == AdviceFollowsAlert /\ ReadModelIsCoherent

(***************************************************************************)
(* Once only healthy and insufficient rows come, and not only insufficient *)
(* ones, the alert is cleared for good, and so is the investigation unless *)
(* its last transition was lost or its alert forgotten.                    *)
(***************************************************************************)
RecoveryCloses ==
    (/\ <>[](rows # <<>> => ~ Valid(Last(rows)) \/ (/\ SpeaksForHealth(Last(rows))
                                                        /\ ~ Qualifies(Config, Last(rows))))
     /\ []<>(status = "valid_prediction"))
    => <>[](machine.confirmed = None /\ (lost > 0 \/ ActiveForAsset = {}))
=============================================================================
