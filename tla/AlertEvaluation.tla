-------------------------- MODULE AlertEvaluation --------------------------
(***************************************************************************)
(* The studies that choose an alert policy: recorded runs are replayed     *)
(* through the alert state machine (or a plain persistence rule), scored   *)
(* by detections and false alerts, and a grid of policies is searched on   *)
(* the validation split alone.                                             *)
(*                                                                         *)
(* A row's elapsed time is its place in the run; one row is one time step. *)
(* A run keeps its valid rows in features.parquet and the others in        *)
(* feature_rejections.parquet.                                             *)
(***************************************************************************)
EXTENDS AlertMachine

CONSTANTS
    Run,            \* the recorded runs
    Info,           \* Info[r]: split, fault class (Healthy: none) and onset
    Rows,           \* the rows that may be recorded
    MaxRows,        \* bound: MaxRows[r] rows of run r
    Grid,           \* the policies searched, in the order of the loops
    Frozen,         \* FROZEN_ALERT_POLICY, also what the live session runs
    Persistence,    \* PERSISTENCE_GRID, in order
    Threshold,      \* CONFIDENCE_THRESHOLD_GRID, in order
    MaxMissed,      \* MAX_MISSED_VALIDATION_*_RUNS
    Tolerance,      \* LATENCY_DEGRADATION_TOLERANCE_SECONDS, in rows, doubled
    Uncertain       \* UNCERTAIN_LABEL

ASSUME EvaluationAssumption ==
    /\ \A r \in Run : /\ Info[r].split \in {"train", "validation", "test"}
                      /\ Info[r].fault \in Class /\ Info[r].onset \in Nat \ {0}
                      /\ Info[r].ramp \in Nat /\ MaxRows[r] \in Nat
    /\ IsFiniteSet(Run) /\ Rows \subseteq Row
    /\ MaxMissed \in Nat /\ Tolerance \in Nat
    /\ \A i \in DOMAIN Grid : /\ Grid[i].entryPersistence \in Nat
                            /\ Grid[i].exitPersistence \in Nat
    /\ Grid \in Seq(Range(Grid))
    /\ Persistence \in Seq(Nat) /\ Persistence # <<>>
    /\ Threshold \in Seq(Nat) /\ Threshold # <<>>

VARIABLES
    recorded,       \* recorded[r]: the rows of run r, valid or not
    live,           \* live[r]: the session that saw them as they came
    selection       \* what the studies selected; None when a validation run
                    \* has grown since

evaluationVars == <<recorded, live, selection>>

Absent == -1        \* no latency: the run was missed

----------------------------------------------------------------------------
(* Rows and runs.                                                          *)

Timed(s) == [i \in 1 .. Len(s) |-> [at |-> i, row |-> s[i]]]

(* The elements of s at the places of S. *)
Kept(s, S) ==
    LET kept[n \in 0 .. Len(s)] ==
          IF n = 0 THEN <<>>
          ELSE IF n \in S THEN Append(kept[n - 1], s[n]) ELSE kept[n - 1]
    IN kept[Len(s)]

ValidPlaces(s) == {i \in 1 .. Len(s) : Valid(s[i])}

(* ExperimentDataset: the valid rows of a run's target asset. *)
FeaturesOf(s) == Kept(Timed(s), ValidPlaces(s))
Features(r) == FeaturesOf(recorded[r])

(* InsufficientDataSummary.rejected_rows. *)
RejectionsOf(s) == Kept(Timed(s), (1 .. Len(s)) \ ValidPlaces(s))
Rejections(r) == RejectionsOf(recorded[r])

(* _target_asset_gapped_sequences: both, merged in the order of time; there *)
(* is one row at a time.                                                    *)
Merged(S, n) == [i \in 1 .. n |-> CHOOSE x \in S : x.at = i]
GappedOf(s) == Merged(Range(FeaturesOf(s)) \cup Range(RejectionsOf(s)), Len(s))
GappedSequence(r) == GappedOf(recorded[r])

IsFaultRun(r) == Info[r].fault # Healthy

(* split_mask: the runs of a split that have a row in the dataset. *)
SplitMask(split) == {r \in Run : Info[r].split = split /\ Features(r) # <<>>}

(* Mutant: the search also sees the rows of the test split. *)
LeakingSplit == SplitMask("validation") \cup SplitMask("test")

(* _load_validation_split: its runs are those with a valid row. *)
ValidationSplit == SplitMask("validation")

(* The rows before the fault; all of them in a healthy run. *)
HealthySegment(r, s) ==
    IF IsFaultRun(r) THEN Kept(s, {i \in 1 .. Len(s) : s[i].at < Info[r].onset}) ELSE s

----------------------------------------------------------------------------
(* Replaying the state machine.                                            *)

RowState(m, row) ==
    CASE ~ Valid(row) -> "insufficient_data"
      [] Valid(row) /\ m.confirmed # None -> "confirmed"
      [] Valid(row) /\ m.confirmed = None /\ m.pending # None -> "pending"
      [] OTHER -> "healthy"

(* One row of a replay, after its step. *)
Replayed(acc, x, step) ==
    [machine |-> step.machine,
     states |-> Append(acc.states, RowState(step.machine, x.row)),
     events |-> IF step.event = NoEvent THEN acc.events
                ELSE Append(acc.events, [type |-> step.event.type,
                                         class |-> step.event.class, at |-> x.at])]

(* run_state_machine, from a fresh state. *)
RunStateMachine(cfg, s) ==
    LET replay[n \in 0 .. Len(s)] ==
          IF n = 0 THEN [machine |-> FreshMachine, states |-> <<>>, events |-> <<>>]
          ELSE LET acc == replay[n - 1]
               IN Replayed(acc, s[n], StepStateMachine(cfg, acc.machine, s[n].row))
    IN replay[Len(s)]

Confirms(e) == e.type \in {"new_alert", "class_change"}

(* The latency of the first of the events at the places of S. *)
Latency(events, S, onset) == IF S = {} THEN Absent ELSE events[Min(S)].at - onset

FromOnset(e, onset) == e.at >= onset

(***************************************************************************)
(* evaluate_run_detection: the first alert at or after the onset, of any   *)
(* class and of the right one, and what was already confirmed before it.   *)
(***************************************************************************)
DetectionIn(events, fault, onset) ==
    LET earlier == {i \in DOMAIN events : ~ FromOnset(events[i], onset)}
        alerts == {i \in DOMAIN events : FromOnset(events[i], onset) /\ Confirms(events[i])}
        correct == {i \in alerts : events[i].class = fault}
    IN [correct |-> Latency(events, correct, onset),
        any |-> Latency(events, alerts, onset),
        wrongFirst |-> /\ alerts # {} /\ events[Min(alerts)].class # fault
                       /\ correct = {} \/ events[Min(alerts)].at < events[Min(correct)].at,
        atOnset |-> IF earlier = {} \/ ~ Confirms(events[Max(earlier)])
                    THEN None ELSE events[Max(earlier)].class]

EvaluateRunDetection(cfg, s, fault, onset) ==
    DetectionIn(RunStateMachine(cfg, s).events, fault, onset)

(* evaluate_detection: over the valid rows only. *)
EvaluateDetection(mask, cfg) ==
    [r \in {q \in mask : IsFaultRun(q)} |->
       EvaluateRunDetection(cfg, Features(r), Info[r].fault, Info[r].onset)]

(* evaluate_gapped_detection: rejected rows interrupt the machine. *)
EvaluateGappedDetection(mask, cfg) ==
    [r \in {q \in mask : IsFaultRun(q)} |->
       EvaluateRunDetection(cfg, GappedSequence(r), Info[r].fault, Info[r].onset)]

MissedRuns(detection) == {r \in DOMAIN detection : detection[r].correct = Absent}
AnyFaultMissedRuns(detection) == {r \in DOMAIN detection : detection[r].any = Absent}

(* The k-th least of the latencies of runs, given as pairs. *)
KthLeast(S, k) ==
    CHOOSE x \in {p[2] : p \in S} : /\ Cardinality({p \in S : p[2] < x}) < k
                                    /\ k <= Cardinality({p \in S : p[2] <= x})

(* np.median of the latencies there are, doubled; Absent when there is none. *)
Median(latency) ==
    LET found == {p \in {<<r, latency[r]>> : r \in DOMAIN latency} : p[2] # Absent}
        n == Cardinality(found)
    IN IF n = 0 THEN Absent
       ELSE KthLeast(found, (n + 1) \div 2) + KthLeast(found, (n \div 2) + 1)

MedianLatency(detection) == Median([r \in DOMAIN detection |-> detection[r].correct])

(* Mutant: a class change goes on with the episode, from its own time. *)
NextEpisodeJoined(acc, e) ==
    IF Confirms(e) THEN [open |-> e.at, closed |-> acc.closed]
    ELSE [open |-> Absent, closed |-> Append(acc.closed, [from |-> acc.open, to |-> e.at])]

(* One event of episodes_from_events: a class change ends one episode and  *)
(* starts another.                                                         *)
NextEpisode(acc, e) ==
    IF e.type = "new_alert" THEN [open |-> e.at, closed |-> acc.closed]
    ELSE IF acc.open # Absent
         THEN [open |-> IF e.type = "cleared" THEN Absent ELSE e.at,
               closed |-> Append(acc.closed, [from |-> acc.open, to |-> e.at])]
         ELSE acc

EpisodesFromEvents(events, end) ==
    LET after[n \in 0 .. Len(events)] ==
          IF n = 0 THEN [open |-> Absent, closed |-> <<>>]
          ELSE NextEpisode(after[n - 1], events[n])
        done == after[Len(events)]
    IN IF done.open = Absent THEN done.closed
       ELSE Append(done.closed, [from |-> done.open, to |-> end])

Duration(episodes) == SumFunction([i \in DOMAIN episodes |-> episodes[i].to - episodes[i].from])

(* The false alerts of one healthy segment. *)
FalseAlertsIn(result, segment) ==
    LET episodes == IF segment = <<>> THEN <<>>
                    ELSE EpisodesFromEvents(result.events, Last(segment).at + 1)
    IN [events |-> Len(episodes), duration |-> Duration(episodes),
        rows |-> Cardinality({i \in DOMAIN result.states :
                                result.states[i] \notin {"healthy", "insufficient_data"}}),
        healthyRows |-> Cardinality({i \in DOMAIN segment : Valid(segment[i].row)})]

RunFalseAlerts(cfg, segment) == FalseAlertsIn(RunStateMachine(cfg, segment), segment)

Summed(mask, of) ==
    [events |-> SumFunction([r \in mask |-> of[r].events]),
     duration |-> SumFunction([r \in mask |-> of[r].duration]),
     rows |-> SumFunction([r \in mask |-> of[r].rows]),
     healthyRows |-> SumFunction([r \in mask |-> of[r].healthyRows]),
     affected |-> Cardinality({r \in mask : of[r].events > 0})]

(* compute_false_alert_summary. *)
ComputeFalseAlertSummary(mask, cfg) ==
    Summed(mask, [r \in mask |-> RunFalseAlerts(cfg, HealthySegment(r, Features(r)))])

(* evaluate_gapped_false_alerts. *)
EvaluateGappedFalseAlerts(mask, cfg) ==
    Summed(mask, [r \in mask |-> RunFalseAlerts(cfg, HealthySegment(r, GappedSequence(r)))])

----------------------------------------------------------------------------
(* The persistence rule on predicted labels, without a state machine.      *)

(* abstention.diagnose: the class, or Uncertain below the threshold. *)
Diagnose(row, threshold) ==
    IF row[Argmax(row)] >= threshold THEN Diagnosis(row) ELSE Uncertain

Labels(s, threshold) == [i \in 1 .. Len(s) |-> Diagnose(s[i].row, threshold)]

(* Mutant: every sample of a long enough streak is an alarm. *)
NextAlarmEverySample(acc, x, n) ==
    LET streak == IF x = acc.current THEN acc.streak + 1 ELSE 1
    IN [current |-> x, streak |-> streak,
        count |-> IF streak >= n /\ x \notin {Healthy, Uncertain}
                  THEN acc.count + 1 ELSE acc.count]

(* count_false_alarm_events, of the models' study and of the calibration's. *)
NextAlarm(acc, x, n) ==
    LET streak == IF x = acc.current THEN acc.streak + 1 ELSE 1
    IN [current |-> x, streak |-> streak,
        count |-> IF streak = n /\ x \notin {Healthy, Uncertain}
                  THEN acc.count + 1 ELSE acc.count]

CountFalseAlarmEvents(labels, n) ==
    LET after[k \in 0 .. Len(labels)] ==
          IF k = 0 THEN [current |-> None, streak |-> 0, count |-> 0]
          ELSE NextAlarm(after[k - 1], labels[k], n)
    IN after[Len(labels)].count

(* find_first_qualifying_detection: a streak counts from the onset on. *)
NextHit(acc, at, hit, n) ==
    LET streak == IF hit THEN acc.streak + 1 ELSE 0
    IN [streak |-> streak,
        first |-> IF acc.first = Absent /\ streak >= n THEN at ELSE acc.first]

FindFirstQualifyingDetection(s, threshold, target, onset, n) ==
    LET after[k \in 0 .. Len(s)] ==
          IF k = 0 THEN [streak |-> 0, first |-> Absent]
          ELSE NextHit(after[k - 1], s[k].at,
                       s[k].at >= onset /\ Diagnose(s[k].row, threshold) = target, n)
    IN after[Len(s)].first

(* The latency of the rule in run r, and its false alarms. *)
RuleLatency(r, s, threshold, n) ==
    LET first == FindFirstQualifyingDetection(s, threshold, Info[r].fault, Info[r].onset, n)
    IN IF first = Absent THEN Absent ELSE first - Info[r].onset

RuleAlarms(r, s, threshold, n) ==
    CountFalseAlarmEvents(Labels(HealthySegment(r, s), threshold), n)

(* evaluate_detection of the models and evaluate_alert_policy of the        *)
(* calibration: missed runs, latencies and false alarms of one rule.        *)
EvaluateRule(mask, threshold, n) ==
    LET latency == [r \in {q \in mask : IsFaultRun(q)} |->
                      RuleLatency(r, Features(r), threshold, n)]
    IN [missed |-> Cardinality({r \in DOMAIN latency : latency[r] = Absent}),
        total |-> Cardinality(DOMAIN latency),
        median |-> Median(latency),
        events |-> SumFunction([r \in mask |-> RuleAlarms(r, Features(r), threshold, n)])]

(* compute_row_sequence_false_alerts: the maximal blocks of one label. *)
RowSequenceEpisodes(labels, n) ==
    {b \in (1 .. Len(labels)) \X (1 .. Len(labels)) :
       /\ b[1] <= b[2] /\ b[2] - b[1] + 1 >= n
       /\ labels[b[1]] # Healthy
       /\ \A k \in b[1] .. b[2] : labels[k] = labels[b[1]]
       /\ b[1] > 1 => labels[b[1] - 1] # labels[b[1]]
       /\ b[2] < Len(labels) => labels[b[2] + 1] # labels[b[2]]}

(* compute_coverage_metrics: how many rows of the mask keep a diagnosis. *)
Covered(labels) == Cardinality({i \in DOMAIN labels : labels[i] # Uncertain})

Coverage(mask, threshold) ==
    SumFunction([r \in mask |-> Covered(Labels(Features(r), threshold))])

----------------------------------------------------------------------------
(***************************************************************************)
(* Searching a policy. All candidates of a search see the same rows, so    *)
(* that events per healthy hour compare like events, and, where these are  *)
(* equal, mean durations like their sums.                                  *)
(***************************************************************************)
KeyLess(a, b) ==
    \E i \in DOMAIN a : a[i] < b[i] /\ \A j \in 1 .. i - 1 : a[j] = b[j]

(* min(..., key): the first of the smallest. *)
FirstLeast(S, key) ==
    CHOOSE i \in S : /\ \A j \in S : ~ KeyLess(key[j], key[i])
                     /\ \A j \in S : j < i => KeyLess(key[i], key[j])

(* No median counts as an infinite one: last, and all alike. *)
Undetected(median) == IF median = Absent THEN 1 ELSE 0

PolicyKey(cfg, alerts, median) ==
    <<alerts.events, alerts.affected, alerts.duration, Undetected(median), median,
      cfg.entryPersistence + cfg.exitPersistence>>

TooSlow(median, baseline) ==
    baseline # Absent /\ median # Absent /\ median > baseline + Tolerance

(* What a candidate is kept or rejected for. *)
Judged(cfg, detection, alerts, baseline) ==
    LET median == MedianLatency(detection)
        missed == Cardinality(MissedRuns(detection))
    IN [key |-> PolicyKey(cfg, alerts, median), missed |-> missed,
        rejected |-> missed > MaxMissed \/ TooSlow(median, baseline)]

(* _evaluate_candidate of the alert policy study. *)
EvaluateCandidate(mask, cfg, baseline) ==
    Judged(cfg, EvaluateDetection(mask, cfg), ComputeFalseAlertSummary(mask, cfg), baseline)

(* _evaluate_candidate of the robustness study: no fault run may go unseen. *)
JudgedRobust(cfg, detection, alerts, baseline) ==
    [Judged(cfg, detection, alerts, baseline) EXCEPT
       !.rejected = @ \/ AnyFaultMissedRuns(detection) # {}]

EvaluateRobustCandidate(mask, cfg, baseline) ==
    JudgedRobust(cfg, EvaluateGappedDetection(mask, cfg),
                 EvaluateGappedFalseAlerts(mask, cfg), baseline)

(* The best survivor's place in the grid, or 0. *)
Selected(candidates) ==
    LET survivors == {i \in DOMAIN candidates : ~ candidates[i].rejected}
    IN IF survivors = {} THEN 0
       ELSE FirstLeast(survivors, [i \in survivors |-> candidates[i].key])

(* run_alert_policy_experiment: baseline and search on validation. *)
AlertPolicyCandidates ==
    LET baseline == EvaluateRule(ValidationSplit, 0, Persistence[Len(Persistence)]).median
    IN [i \in DOMAIN Grid |-> EvaluateCandidate(ValidationSplit, Grid[i], baseline)]

SearchPolicies == Selected(AlertPolicyCandidates)

(* run_policy_selection, its search: the baseline is the frozen policy. *)
RobustCandidates ==
    LET baseline == MedianLatency(EvaluateGappedDetection(ValidationSplit, Frozen))
    IN [i \in DOMAIN Grid |-> EvaluateRobustCandidate(ValidationSplit, Grid[i], baseline)]

SearchRobustPolicies == Selected(RobustCandidates)

(* search_policies of the calibration: rejected ones when nothing is left. *)
CalibrationCandidates ==
    [x \in (DOMAIN Threshold) \X (DOMAIN Persistence) |->
       LET rule == EvaluateRule(ValidationSplit, Threshold[x[1]], Persistence[x[2]])
       IN [key |-> <<rule.events, Undetected(rule.median), rule.median,
                     0 - Coverage(ValidationSplit, Threshold[x[1]])>>,
           rejected |-> rule.missed > MaxMissed]]

BestCalibrated(c) ==
    LET survivors == {x \in DOMAIN c : ~ c[x].rejected}
        pool == IF survivors = {} THEN DOMAIN c ELSE survivors
        place(x) == (x[1] - 1) * Len(Persistence) + x[2]
    IN CHOOSE x \in pool :
         /\ \A y \in pool : ~ KeyLess(c[y].key, c[x].key)
         /\ \A y \in pool : place(y) < place(x) => KeyLess(c[x].key, c[y].key)

SearchCalibratedPolicies == BestCalibrated(CalibrationCandidates)

(* run_calibration_experiment: the coverage of every threshold and the search *)
(* on validation, then the selected pair once on the test split.              *)
CalibrationExperiment ==
    LET best == SearchCalibratedPolicies
        threshold == Threshold[best[1]]
    IN [selected |-> best,
        grid |-> [t \in DOMAIN Threshold |-> Coverage(ValidationSplit, Threshold[t])],
        testCoverage |-> Coverage(SplitMask("test"), threshold),
        testAlerts |-> EvaluateRule(SplitMask("test"), threshold, Persistence[best[2]])]

(* run_experiment, its persistence: most runs detected, fewest false alarms. *)
SelectPersistence ==
    LET rule == [p \in DOMAIN Persistence |->
                   EvaluateRule(ValidationSplit, 0, Persistence[p])]
    IN FirstLeast(DOMAIN Persistence,
                  [p \in DOMAIN Persistence |-> <<rule[p].missed, rule[p].events>>])

----------------------------------------------------------------------------
(* What every study of the recorded runs selects. *)
Selections ==
    [alertPolicy |-> SearchPolicies, robustPolicy |-> SearchRobustPolicies,
     calibrated |-> SearchCalibratedPolicies, persistence |-> SelectPersistence]

EvaluationTypeOK ==
    /\ recorded \in [Run -> Seq(Rows)]
    /\ \A r \in Run : /\ Len(recorded[r]) <= MaxRows[r]
                      /\ Len(live[r].confirmed) = Len(recorded[r])

EvaluationInit ==
    /\ recorded = [r \in Run |-> <<>>]
    /\ live = [r \in Run |-> [machine |-> FreshMachine, confirmed |-> <<>>]]
    /\ selection = None

(* A sample of run r is simulated, turned into a row and classified; the    *)
(* live session of replay.py takes the same row as it comes.                *)
Record(r, row) ==
    /\ Len(recorded[r]) < MaxRows[r]
    /\ recorded' = [recorded EXCEPT ![r] = Append(@, row)]
    /\ live' = [live EXCEPT ![r] =
         LET m == StepStateMachine(Frozen, live[r].machine, row).machine
         IN [machine |-> m, confirmed |-> Append(live[r].confirmed, m.confirmed)]]
    /\ selection' = IF Info[r].split = "validation" THEN None ELSE selection

(* The studies are run. *)
RunStudies ==
    /\ selection = None
    /\ selection' = Selections
    /\ UNCHANGED <<recorded, live>>

EvaluationNext == RunStudies \/ \E r \in Run, row \in Rows : Record(r, row)

EvaluationSpec == EvaluationInit /\ [][EvaluationNext]_evaluationVars

----------------------------------------------------------------------------
(* What the evaluation of a model on a cohort reports.                     *)

(* The label of a row by the run's ground truth. *)
TrueLabel(r, at) == IF IsFaultRun(r) /\ at >= Info[r].onset THEN Info[r].fault ELSE Healthy

(* ramp_group_labels. *)
Stage(r, at) ==
    CASE TrueLabel(r, at) = Healthy -> None
      [] TrueLabel(r, at) # Healthy /\ at - Info[r].onset >= Info[r].ramp -> "post_ramp"
      [] OTHER -> "ramp"

(* The rows of the mask, each with its run: in a table. *)
Table(mask, Of(_)) == UNION {{[run |-> r, x |-> Of(r)[i]] : i \in DOMAIN Of(r)} : r \in mask}

(* recall_by_group: the rows of a class that are in a group, and those the *)
(* model names.                                                            *)
RecallByGroup(mask, class, group) ==
    LET rows == {y \in Table(mask, Features) : /\ TrueLabel(y.run, y.x.at) = class
                                               /\ Stage(y.run, y.x.at) \in group}
    IN [rows |-> Cardinality(rows),
        caught |-> Cardinality({y \in rows : Diagnosis(y.x.row) = class}),
        runs |-> Cardinality({y.run : y \in rows})]

(* evaluate_row_diagnosis: recall per class, whole and by stage, and the   *)
(* healthy rows that are taken for a fault.                                *)
EvaluateRowDiagnosis(mask) ==
    [recall |-> [c \in Class |-> RecallByGroup(mask, c, {None, "ramp", "post_ramp"})],
     ramp |-> [c \in Class |-> RecallByGroup(mask, c, {"ramp"})],
     postRamp |-> [c \in Class |-> RecallByGroup(mask, c, {"post_ramp"})]]

(* filter_insufficient_data_summary_to_runs: the rejected rows of the runs *)
(* that also have a valid one.                                             *)
ScopedRejections(mask) == Table(mask, Rejections)

(* _longest_consecutive_streak_rows. *)
LongestStreak(mask) ==
    LET streak(s) == FoldLeft(LAMBDA acc, x :
            LET n == IF x.at = acc.previous + 1 THEN acc.current + 1 ELSE 1
            IN [previous |-> x.at, current |-> n,
                longest |-> IF n > acc.longest THEN n ELSE acc.longest],
            [previous |-> Absent, current |-> 0, longest |-> 0], s).longest
    IN Max({0} \cup {streak(Rejections(r)) : r \in mask})

(* compute_availability_metrics. *)
Availability(mask) ==
    LET rejected == ScopedRejections(mask)
        at(stage) == {y \in rejected : Stage(y.run, y.x.at) = stage}
    IN [eligible |-> Cardinality(Table(mask, Features)) + Cardinality(rejected),
        rejected |-> Cardinality(rejected),
        longest |-> LongestStreak(mask),
        ramp |-> Cardinality(at("ramp")), postRamp |-> Cardinality(at("post_ramp")),
        outside |-> Cardinality(at(None)),
        interrupted |-> {y.run : y \in rejected \ at(None)}]

(* _build_timeline: the alert states of a case are replayed over its valid *)
(* rows alone.                                                             *)
BuildTimeline(r, cfg) == RunStateMachine(cfg, Features(r)).states

(* select_representative_cases: sorted(...)[0] of each category, names in  *)
(* the order CHOOSE takes.                                                 *)
RepresentativeCases(detection, alerted) ==
    LET detected == {r \in DOMAIN detection : detection[r].correct # Absent}
        wrongFirst == {r \in DOMAIN detection : detection[r].wrongFirst}
        best == CHOOSE r \in detected :
                  \A q \in detected : detection[r].correct <= detection[q].correct
        latest == CHOOSE r \in detected :
                  \A q \in detected : detection[r].correct >= detection[q].correct
        one(category, S) ==
            IF S = {} THEN {} ELSE {[category |-> category, run |-> CHOOSE r \in S : TRUE]}
    IN one("successful_easy_fault", IF detected = {} THEN {} ELSE {best})
         \cup one("delayed_detection", IF detected = {} THEN {} ELSE {latest} \ {best})
         \cup one("incorrect_class_alert", wrongFirst)
         \cup one("missed_fault", AnyFaultMissedRuns(detection))
         \cup one("false_alert_on_healthy_run", alerted)

(* healthy_run_ids_with_alert. *)
RunsWithAlert(mask, cfg) ==
    {r \in mask : RunFalseAlerts(cfg, HealthySegment(r, GappedSequence(r))).events > 0}

(* The runs an evaluation covers. Without a split the rejections are not   *)
(* scoped, and runs without a valid row are in; with one they are out.     *)
CohortRuns(split) ==
    IF split = None THEN {r \in Run : recorded[r] # <<>>} ELSE SplitMask(split)

(* predict(): a model does not score an empty table. *)
Evaluable(split) == \E r \in CohortRuns(split) : Features(r) # <<>>

(* evaluate_model_on_cohort, of an evaluable cohort; how many runs raised  *)
(* a false alert is part of the false-alert summary.                       *)
EvaluateModelOnCohort(split, cfg) ==
    LET mask == CohortRuns(split)
    IN [diagnosis |-> EvaluateRowDiagnosis(mask),
        detection |-> EvaluateGappedDetection(mask, cfg),
        alerted |-> RunsWithAlert(mask, cfg),
        availability |-> Availability(mask)]

----------------------------------------------------------------------------
(* The class the live session had confirmed after row i, or None. *)
ConfirmedAt(r, i) == IF i = 0 THEN None ELSE live[r].confirmed[i]

(* The rows at which the live session newly confirmed a class of S. *)
Confirmations(r, S) ==
    {i \in 1 .. Len(recorded[r]) :
       ConfirmedAt(r, i) \in S /\ ConfirmedAt(r, i) # ConfirmedAt(r, i - 1)}

(***************************************************************************)
(* The gapped evaluation of a recorded run judges what a live session did: *)
(* a detection is the first confirmation at or after the onset, a run      *)
(* counts as missed though an alert of its class is up only if that alert  *)
(* was up at the onset, and atOnset says so (detection.py:63, session.py). *)
(***************************************************************************)
LiveDetected(r, d) ==
      LET later(S) == {i \in Confirmations(r, S) : i >= Info[r].onset}
      IN /\ d.correct = IF later({Info[r].fault}) = {} THEN Absent
                        ELSE Min(later({Info[r].fault})) - Info[r].onset
         /\ d.any = IF later(Class) = {} THEN Absent ELSE Min(later(Class)) - Info[r].onset
         /\ Len(recorded[r]) >= Info[r].onset =>
              d.atOnset = ConfirmedAt(r, Info[r].onset - 1)
         /\ d.correct = Absent =>
              \A i \in Info[r].onset .. Len(recorded[r]) :
                ConfirmedAt(r, i) = Info[r].fault => d.atOnset = Info[r].fault

DetectionMatchesLive ==
    \A r \in Run : IsFaultRun(r) =>
      LiveDetected(r, EvaluateRunDetection(Frozen, GappedSequence(r), Info[r].fault,
                                           Info[r].onset))

(***************************************************************************)
(* The false episodes of a healthy segment cover exactly the time during   *)
(* which the live session had an alert up: none is lost at a class change  *)
(* or at the end, and none overlaps (event_metrics.py:112). A class change *)
(* starts an episode of its own, and one still up at the end lasts through *)
(* the last row, that is to one step after it (:199), where the docstring  *)
(* of FalseEpisode (:37-40) says to its time, and :4-9 that new_alert      *)
(* alone is counted.                                                       *)
(***************************************************************************)
EpisodesCoverAlerts ==
    \A r \in Run :
      LET segment == HealthySegment(r, GappedSequence(r))
      IN RunFalseAlerts(Frozen, segment).duration =
           Cardinality({i \in 1 .. Len(segment) : ConfirmedAt(r, i) # None})

(***************************************************************************)
(* Two studies count the false alarms of the persistence rule in two ways  *)
(* (models/detection.py:52, alert_policy/comparison.py:108): they agree.   *)
(***************************************************************************)
FalseAlarmCountsAgree ==
    \A r \in Run : \A p \in DOMAIN Persistence :
      LET labels == Labels(HealthySegment(r, Features(r)), 0)
      IN CountFalseAlarmEvents(labels, Persistence[p])
           = Cardinality(RowSequenceEpisodes(labels, Persistence[p]))

(***************************************************************************)
(* The search of the calibration falls back on a rejected policy only when *)
(* all are, and in its report a higher threshold never covers more rows    *)
(* (calibration/policy_search.py:126, calibration/experiment.py:188).      *)
(***************************************************************************)
CalibrationIsSound ==
    LET c == CalibrationCandidates
        report == CalibrationExperiment
    IN /\ c[report.selected].rejected => \A x \in DOMAIN c : c[x].rejected
       /\ \A t, u \in DOMAIN Threshold :
             Threshold[t] <= Threshold[u] => report.grid[t] >= report.grid[u]

(***************************************************************************)
(* A search returns no policy that its own rules reject, returns one       *)
(* whenever there is one, and no other acceptable policy raises fewer      *)
(* false alerts (policy_search.py:175-190 of both studies).                *)
(***************************************************************************)
SelectionIsSound ==
    \A c \in {AlertPolicyCandidates, RobustCandidates} :
      IF Selected(c) = 0 THEN \A i \in DOMAIN c : c[i].rejected
      ELSE /\ c[Selected(c)].missed <= MaxMissed
           /\ ~ c[Selected(c)].rejected
           /\ \A i \in DOMAIN c : ~ c[i].rejected => c[Selected(c)].key[1] <= c[i].key[1]

(***************************************************************************)
(* Nothing recorded of a test run changes what any of the studies selects  *)
(* (policy_generate.py:243-248 asserts it by the order of two clocks).     *)
(***************************************************************************)
SelectionIgnoresTest == selection = Selections

(***************************************************************************)
(* A cohort's report adds up and accounts for the rows of its runs: the    *)
(* stages partition the rows of a fault and the rejected rows, no streak   *)
(* is longer than the rejected rows, a run that is called interrupted has  *)
(* a rejected row in its fault window. The report of the whole cohort      *)
(* counts every row recorded; that of a split leaves out exactly the runs  *)
(* whose rows are all rejected, of which it says nothing, where            *)
(* availability_metrics.py:4-7 wants none "silently excluded".             *)
(***************************************************************************)
Unscored(split) ==
    {r \in Run : /\ split # None /\ Info[r].split = split
                 /\ \A i \in DOMAIN recorded[r] : ~ Valid(recorded[r][i])}

ReportIsConsistent(split, report) ==
    LET a == report.availability
        d == report.diagnosis
        due == {r \in Run : split = None \/ Info[r].split = split}
    IN /\ \A c \in Class \ {Healthy} :
             /\ d.recall[c].rows = d.ramp[c].rows + d.postRamp[c].rows
             /\ d.recall[c].caught = d.ramp[c].caught + d.postRamp[c].caught
       /\ a.rejected = a.ramp + a.postRamp + a.outside
       /\ a.longest <= a.rejected
       /\ (a.longest = 0) <=> (a.rejected = 0)
       /\ a.eligible = MapThenSumSet(LAMBDA r : Len(recorded[r]), due \ Unscored(split))
       /\ \A r \in a.interrupted : \E i \in Info[r].onset .. Len(recorded[r]) :
             ~ Valid(recorded[r][i])

(***************************************************************************)
(* The timeline of a representative case is replayed without the rejected  *)
(* rows, the evaluation it illustrates with them. Its states are the       *)
(* evaluation's up to the first rejected row that dropped a pending alert; *)
(* beyond it the timeline keeps the streak, and may show an alert in a run *)
(* that the evaluation calls missed (error_analysis.py:83 and              *)
(* gapped_alert_evaluation.py:9-14).                                       *)
(***************************************************************************)
TimelineFollows(r) ==
    LET states == RunStateMachine(Frozen, GappedSequence(r)).states
        dropped == {i \in 2 .. Len(states) : /\ states[i] = "insufficient_data"
                                             /\ states[i - 1] = "pending"}
        shown == SelectSeq(SubSeq(states, 1, Min(dropped \cup {Len(states) + 1}) - 1),
                           LAMBDA st : st # "insufficient_data")
        timeline == BuildTimeline(r, Frozen)
    IN /\ IsPrefix(shown, timeline)
       /\ Len(timeline) = Cardinality(ValidPlaces(recorded[r]))

(* Every evaluable cohort has such a report; cases are picked from the     *)
(* whole one alone (ood/generate.py:152).                                  *)
CohortReportIsConsistent ==
    /\ \A split \in {None, "train", "validation", "test"} :
          Evaluable(split) => ReportIsConsistent(split, EvaluateModelOnCohort(split, Frozen))
    /\ Evaluable(None) =>
          LET report == EvaluateModelOnCohort(None, Frozen)
          IN \A x \in RepresentativeCases(report.detection, report.alerted) :
               TimelineFollows(x.run)

(***************************************************************************)
(* The offline evaluation of a recorded run is the live session's: what it *)
(* calls a detection and how long its false episodes last is what a        *)
(* session that saw the rows as they came had confirmed.                   *)
(***************************************************************************)
ReplayMatchesLive ==
    /\ EvaluationTypeOK
    /\ DetectionMatchesLive
    /\ EpisodesCoverAlerts

(***************************************************************************)
(* The reports of the evaluations add up: a cohort's report accounts for   *)
(* the rows it is about, the timelines of its cases show what it counted,  *)
(* up to the gaps named above, and two studies that count false alarms     *)
(* agree.                                                                  *)
(***************************************************************************)
ReportsAddUp == CohortReportIsConsistent /\ FalseAlarmCountsAgree

(***************************************************************************)
(* What the searches selected, soundly, is what they would select now that *)
(* the test runs may have grown: they looked at validation rows alone.     *)
(***************************************************************************)
SearchIsSound ==
    selection # None => SelectionIsSound /\ CalibrationIsSound /\ SelectionIgnoresTest
=============================================================================
