--------------------------- MODULE PromotionStudy ---------------------------
(***************************************************************************)
(* What is concluded from the evaluations of the fault models:             *)
(*  - the frozen original model is evaluated on shifted cohorts; each      *)
(*    evaluation gets a generalization verdict (ood/verdict.py) and a      *)
(*    damage tier, and the isolated shifts a study verdict                 *)
(*    (shift_study/rankings.py, interaction_analysis.py, verdict.py);      *)
(*  - a robust candidate is evaluated on the same cohorts, under the       *)
(*    frozen alert policy ("System B") and under a policy selected for it  *)
(*    ("System C"), and each pair of systems gets a promotion decision     *)
(*    (robustness/promotion.py, policy_promotion.py).                      *)
(*                                                                         *)
(* Accuracies and recalls are percentages, false-alert rates tenths of an  *)
(* event per healthy hour, missed runs counts out of RunsPerClass, and     *)
(* rejected rows tenths of a percent.  How the metrics come out of the     *)
(* rows is module AlertEvaluation; here they are inputs.                   *)
(***************************************************************************)
EXTENDS Integers, Sequences, FiniteSets, FiniteSetsExt, Functions, TLC

CONSTANTS Shift,          \* the isolated shifted cohorts, sorted by name
          Combined,       \* "combined_ood_v1"
          Pilot,          \* the in-distribution test split
          HighLoad, HighNoise,
          Fault,          \* the fault classes
          RunsPerClass,   \* fault runs of each class in a cohort
          ShiftResults,   \* cohort -> evaluations of the original to enumerate
          Baseline,       \* cohort -> the original's evaluation that a
                          \*   candidate is compared with
          Candidate,      \* cohort -> diagnoses of candidates to enumerate
          CandidateAlerts,\* cohort -> alert results to enumerate
          NoValue

VARIABLES original,       \* cohort -> evaluation of the original, or NoValue
          verdict,        \* cohort -> [verdict, damage], or NoValue
          study,          \* the study verdict, or NoValue
          robust,         \* cohort -> evaluation of System B; <<>> before one
          decision,       \* its promotion decision, or NoValue
          policy,         \* cohort -> evaluation of System C; <<>> before one
          policyDecision  \* its promotion decision, or NoValue

studyVars == <<original, verdict, study>>
robustVars == <<robust, decision>>
policyVars == <<policy, policyDecision>>
promotionVars == <<studyVars, robustVars, policyVars>>

Shifts == Range(Shift)
Cohort == Shifts \cup {Combined, Pilot}

(* The first run's diagnosis and alerts side by side make one evaluation.  *)
Evaluated(diagnosis, alerts) ==
    [accuracy |-> diagnosis.accuracy, recall |-> diagnosis.recall,
     rejected |-> diagnosis.rejected, rate |-> alerts.rate,
     missed |-> alerts.missed, wrong |-> alerts.wrong,
     latency |-> alerts.latency]

(* What the evaluations report of the rows and of the alerts of a cohort.  *)
RowResult == [accuracy : 0 .. 100, recall : [Fault -> 0 .. 100], rejected : Nat]

AlertResult == [rate : Nat, missed : [Fault -> Nat], wrong : [Fault -> Nat],
                latency : Nat \cup {NoValue}]

Evaluation == [accuracy : 0 .. 100, recall : [Fault -> 0 .. 100], rejected : Nat,
               rate : Nat, missed : [Fault -> Nat], wrong : [Fault -> Nat],
               latency : Nat \cup {NoValue}]

(* The cohorts a candidate is compared on.                                 *)
Compared == {Pilot, HighNoise, Combined}

ASSUME StudyAssumption ==
    /\ Combined # Pilot /\ {Combined, Pilot} \cap Shifts = {}
    /\ HighNoise \in Shifts
    /\ RunsPerClass \in Nat \ {0}
    /\ Shift \in Seq(Shifts)
    /\ \A i, j \in 1 .. Len(Shift) : Shift[i] = Shift[j] => i = j
    /\ IsFiniteSet(Fault) /\ Fault # {}
    /\ NoValue \notin Int /\ NoValue \notin Shifts /\ NoValue # "promote"

ASSUME ResultsAssumption ==
    /\ \A c \in Shifts \cup {Combined} :
          ShiftResults[c] \subseteq Evaluation /\ NoValue \notin ShiftResults[c]
    /\ Baseline \in [Compared -> Evaluation]
    /\ \A c \in Compared : /\ Candidate[c] \subseteq RowResult
                           /\ CandidateAlerts[c] \subseteq AlertResult

-----------------------------------------------------------------------------
(* Thresholds *)

(* ood/config.py *)
OodConfig ==
    [acceptableDrop |-> 10, collapseFloor |-> 40, recallCollapse |-> 20,
     rateAcceptable |-> 10, rateExcessive |-> 50,
     missedAcceptable |-> 25, missedExcessive |-> 50]

(* shift_study/config.py: three of its bounds are ood/config.py's own.     *)
ShiftConfig ==
    [minorDrop |-> 5, moderateDrop |-> 15,
     catastrophicFloor |-> OodConfig.collapseFloor,
     rateMinor |-> 5, rateMajor |-> OodConfig.rateAcceptable,
     rateCatastrophic |-> OodConfig.rateExcessive,
     missedMajor |-> OodConfig.missedAcceptable,
     missedCatastrophic |-> OodConfig.missedExcessive,
     recallCatastrophic |-> OodConfig.recallCollapse,
     explainedTolerance |-> 115, rejectedMaterial |-> 20]

(* robustness/config.py, PromotionThresholds *)
PromotionThresholds ==
    [pilotDrop |-> 3, pilotRate |-> 10, noiseGain |-> 2, noiseRate |-> 10,
     combinedGain |-> 2, recallFloor |-> 20, missedRegression |-> 1]

-----------------------------------------------------------------------------
(* Comparisons *)

(* ModelDelta and MetricDelta: two values and their difference.            *)
Delta(before, after) ==
    [before |-> before, after |-> after,
     absolute_change |-> IF NoValue \in {before, after} THEN NoValue
                         ELSE after - before]

(* compare_models_on_cohort and compare_id_vs_ood: metric by metric.       *)
Compare(before, after) ==
    [accuracy |-> Delta(before.accuracy, after.accuracy),
     recall   |-> [f \in Fault |-> Delta(before.recall[f], after.recall[f])],
     rate     |-> Delta(before.rate, after.rate),
     wrong    |-> Delta(SumFunction(before.wrong), SumFunction(after.wrong)),
     latency  |-> Delta(before.latency, after.latency)]

CompareIdVsOod(id, ood) == Compare(id, ood)

(* A fault class's share of runs on which no fault was detected, compared  *)
(* with a percentage; every class has runs in every cohort.                *)
MissedOver(e, f, percent) == e.missed[f] * 100 > percent * RunsPerClass

-----------------------------------------------------------------------------
(* Generalization verdict *)

DetermineOodVerdict(e, comparison) ==
    LET collapses == \/ \E f \in Fault : e.recall[f] <= OodConfig.recallCollapse
                     \/ \E f \in Fault : MissedOver(e, f, OodConfig.missedExcessive)
                     \/ e.rate > OodConfig.rateExcessive
                     \/ e.accuracy <= OodConfig.collapseFloor
        drop == comparison.accuracy.absolute_change
        acceptable == /\ drop # NoValue
                      /\ -drop <= OodConfig.acceptableDrop
                      /\ e.rate <= OodConfig.rateAcceptable
                      /\ \A f \in Fault :
                            ~MissedOver(e, f, OodConfig.missedAcceptable)
    IN  CASE collapses -> "does not generalize"
          [] ~collapses /\ acceptable -> "acceptable"
          [] OTHER -> "material degradation"

-----------------------------------------------------------------------------
(* Shift study *)

TierOrder == <<"minor", "moderate", "major", "catastrophic">>
TierRank(tier) == CHOOSE i \in DOMAIN TierOrder : TierOrder[i] = tier

(* Mutant: the floor of the recall is exclusive.                           *)
ClassifyShiftAtBound(drop, e) ==
    IF \/ Min(Range(e.recall)) < ShiftConfig.recallCatastrophic
       \/ \E f \in Fault : MissedOver(e, f, ShiftConfig.missedCatastrophic)
       \/ e.rate > ShiftConfig.rateCatastrophic
       \/ e.accuracy <= ShiftConfig.catastrophicFloor
    THEN "catastrophic"
    ELSE IF drop > ShiftConfig.moderateDrop THEN "major"
    ELSE IF drop <= ShiftConfig.minorDrop THEN "minor"
    ELSE "moderate"

(* classify_shift: catastrophic first, then major, moderate, minor.        *)
ClassifyShift(drop, e) ==
    IF \/ Min(Range(e.recall)) <= ShiftConfig.recallCatastrophic
       \/ \E f \in Fault : MissedOver(e, f, ShiftConfig.missedCatastrophic)
       \/ e.rate > ShiftConfig.rateCatastrophic
       \/ e.accuracy <= ShiftConfig.catastrophicFloor
    THEN "catastrophic"
    ELSE IF \/ drop > ShiftConfig.moderateDrop
            \/ e.rate > ShiftConfig.rateMajor
            \/ \E f \in Fault : MissedOver(e, f, ShiftConfig.missedMajor)
    THEN "major"
    ELSE IF /\ drop <= ShiftConfig.minorDrop
            /\ e.rate <= ShiftConfig.rateMinor
            /\ \A f \in Fault : e.missed[f] = 0
    THEN "minor"
    ELSE "moderate"

ComputeShiftDamage(id, e) ==
    LET drop == -CompareIdVsOod(id, e).accuracy.absolute_change
    IN  [drop |-> drop, rate |-> e.rate, latency |-> e.latency,
         missed |-> SumFunction(e.missed), rejected |-> e.rejected,
         tier |-> ClassifyShift(drop, e)]

PlaceOf(name) == CHOOSE i \in DOMAIN Shift : Shift[i] = name

(* Worse by the key or, as bad, first by name; Shift lists the names in    *)
(* order.                                                                  *)
Outranks(key, m, n) == \/ key[m] > key[n]
                       \/ key[m] = key[n] /\ PlaceOf(m) < PlaceOf(n)

(* sorted(..., key): the k-th is the one that k - 1 others outrank.        *)
SortedBy(key) ==
    [k \in 1 .. Len(Shift) |->
       CHOOSE n \in Shifts : Cardinality({m \in Shifts : Outranks(key, m, n)}) = k - 1]

(* rank_shifts for the metrics kept here; a shift with no latency (no      *)
(* fault was ever detected) comes last in the latency ranking.             *)
RankShifts(damages) ==
    [drop    |-> SortedBy([n \in Shifts |-> damages[n].drop]),
     rate    |-> SortedBy([n \in Shifts |-> damages[n].rate]),
     missed  |-> SortedBy([n \in Shifts |-> damages[n].missed]),
     latency |-> SortedBy([n \in Shifts |-> IF damages[n].latency = NoValue THEN -1
                                            ELSE damages[n].latency])]

(* _combined_vs_worst_single *)
InteractionLikelihood(combined, damages) ==
    LET drops == {damages[n].drop : n \in Shifts}
        sum == SumFunction([n \in Shifts |-> damages[n].drop])
    IN  IF combined = NoValue \/ Max(drops) <= 0 THEN "uncertain"
        ELSE IF combined.drop * 100 <= Max(drops) * ShiftConfig.explainedTolerance
        THEN "no"
        ELSE IF combined.drop < sum THEN "uncertain" ELSE "yes"

(* _load_noise_compounding_note: whose false-alert rate the combined       *)
(* cohort follows (within 30%), and whether it is less accurate than both. *)
LoadNoiseNote(combined, damages) ==
    IF combined = NoValue \/ HighLoad \notin Shifts THEN NoValue
    ELSE LET dominant == IF damages[HighNoise].rate >= damages[HighLoad].rate
                         THEN HighNoise ELSE HighLoad
             base == damages[dominant].rate
         IN  [follows |-> IF /\ base > 0
                             /\ combined.rate * 10 >= 7 * base
                             /\ combined.rate * 10 <= 13 * base
                          THEN dominant ELSE NoValue,
              worse |-> combined.drop > Max({damages[HighLoad].drop,
                                             damages[HighNoise].drop})]

MajorOrWorse(damages) ==
    {n \in Shifts : TierRank(damages[n].tier) >= TierRank("major")}

(* determine_recommendation; the invalid-row fractions are those of every  *)
(* cohort of the study, the combined one included.                         *)
DetermineRecommendation(damages, combined) ==
    LET fractions == {damages[n].rejected : n \in Shifts}
                       \cup IF combined = NoValue THEN {} ELSE {combined.rejected}
    IN  IF Max(fractions) > ShiftConfig.rejectedMaterial THEN "A"
        ELSE IF Cardinality(MajorOrWorse(damages)) >= 3 THEN "D"
        ELSE IF MajorOrWorse(damages) = {HighLoad} THEN "B" ELSE "C"

(* The shifts, worst tier first and within a tier by the loss of accuracy. *)
RankedByTier(damages) ==
    SortedBy([n \in Shifts |-> 1000 * TierRank(damages[n].tier) + damages[n].drop])

(* The second of them, unless it is minor.                                 *)
SecondaryFailure(damages, ranked) ==
    IF Len(ranked) > 1 /\ TierRank(damages[ranked[2]].tier) >= TierRank("moderate")
    THEN ranked[2] ELSE NoValue

(* determine_study_verdict; a name occurs once in the ranking, so that the *)
(* contributors other than the first two are the rest of it.               *)
DetermineStudyVerdict(damages, combined) ==
    LET ranked == RankedByTier(damages)
        second == SecondaryFailure(damages, ranked)
    IN  [primary |-> ranked[1], secondary |-> second,
         minor |-> SubSeq(ranked, IF second = NoValue THEN 2 ELSE 3, Len(ranked)),
         interaction |-> InteractionLikelihood(combined, damages),
         note |-> LoadNoiseNote(combined, damages),
         rankings |-> RankShifts(damages),
         recommendation |-> DetermineRecommendation(damages, combined)]

-----------------------------------------------------------------------------
(* Promotion decisions *)

(* `x or 0.0` *)
OrZero(x) == IF x = NoValue THEN 0 ELSE x

IdRegression(comparisons) ==
    \/ -OrZero(comparisons[Pilot].accuracy.absolute_change)
            > PromotionThresholds.pilotDrop
    \/ OrZero(comparisons[Pilot].rate.after) > PromotionThresholds.pilotRate

ClassCollapse(comparisons) ==
    \E c \in DOMAIN comparisons, f \in Fault :
        comparisons[c].recall[f].after <= PromotionThresholds.recallFloor

MissedRunRegression(comparisons) ==
    \E c \in DOMAIN comparisons :
        comparisons[c].wrong.after - comparisons[c].wrong.before
            > PromotionThresholds.missedRegression

(* Mutant: the gain must be met exactly.                                   *)
InsufficientGainByChange(comparisons) ==
    \/ comparisons[HighNoise].accuracy.absolute_change # PromotionThresholds.noiseGain
    \/ comparisons[Combined].accuracy.absolute_change < PromotionThresholds.combinedGain
    \/ MissedRunRegression(comparisons)

InsufficientGain(comparisons) ==
    \/ OrZero(comparisons[HighNoise].accuracy.absolute_change)
            < PromotionThresholds.noiseGain
    \/ OrZero(comparisons[Combined].accuracy.absolute_change)
            < PromotionThresholds.combinedGain
    \/ OrZero(comparisons[HighNoise].rate.after) > PromotionThresholds.noiseRate
    \/ MissedRunRegression(comparisons)

(* decide_promotion: an in-distribution regression disqualifies, then a    *)
(* collapsed class, then a missing gain.                                   *)
DecidePromotion(comparisons) ==
    IF IdRegression(comparisons) THEN "keep: id regression"
    ELSE IF ClassCollapse(comparisons) THEN "no model ready"
    ELSE IF InsufficientGain(comparisons) THEN "keep: insufficient"
    ELSE "promote"

NoPolicySelected == "keep: policy insufficient"

(* decide_policy_promotion: the same checks, System C against System A.    *)
DecidePolicyPromotion(comparisons) ==
    IF IdRegression(comparisons) THEN "keep: id operational regression"
    ELSE IF ClassCollapse(comparisons) THEN "no system meets criteria"
    ELSE IF InsufficientGain(comparisons) THEN NoPolicySelected
    ELSE "promote"

CompareAll(evaluations) ==
    [c \in DOMAIN evaluations |-> Compare(Baseline[c], evaluations[c])]

-----------------------------------------------------------------------------
(* Runs of the command-line tools *)

PromotionInit ==
    /\ original = [c \in Cohort |-> IF c = Pilot THEN Baseline[Pilot] ELSE NoValue]
    /\ verdict = [c \in Cohort |-> NoValue]
    /\ study = NoValue
    /\ robust = <<>> /\ decision = NoValue
    /\ policy = <<>> /\ policyDecision = NoValue

(* run_ood_evaluation: the frozen model on one shifted cohort against its  *)
(* own test split.                                                         *)
RunOod(c, e) ==
    /\ robust = <<>>
    /\ original[c] = NoValue
    /\ original' = [original EXCEPT ![c] = e]
    /\ verdict' = [verdict EXCEPT ![c] =
           [verdict |-> DetermineOodVerdict(e, CompareIdVsOod(original[Pilot], e)),
            damage |-> ComputeShiftDamage(original[Pilot], e)]]
    /\ UNCHANGED <<study, robustVars, policyVars>>

(* run_shift_study, over the isolated shifts and, when it was evaluated,   *)
(* the combined cohort.                                                    *)
RunStudy ==
    /\ study = NoValue
    /\ \A n \in Shifts : original[n] # NoValue
    /\ study' = DetermineStudyVerdict(
                   [n \in Shifts |-> verdict[n].damage],
                   IF verdict[Combined] = NoValue THEN NoValue
                   ELSE verdict[Combined].damage)
    /\ UNCHANGED <<original, verdict, robustVars, policyVars>>

(* run_robustness_comparison: every cohort is evaluated with the candidate *)
(* under the frozen policy, compared and decided on.  A retrained          *)
(* candidate differs on one cohort.                                        *)
RunRobustness(evaluations) ==
    /\ robust' = evaluations
    /\ decision' = DecidePromotion(CompareAll(evaluations))
    /\ policy' = <<>> /\ policyDecision' = NoValue
    /\ UNCHANGED studyVars

FirstCandidate ==
    /\ robust = <<>>
    /\ original = [c \in Cohort |-> IF c = Pilot THEN Baseline[Pilot] ELSE NoValue]
    /\ RunRobustness(Baseline)

Retrain(c, diagnosis, alerts) ==
    /\ robust # <<>>
    /\ RunRobustness([robust EXCEPT ![c] = Evaluated(diagnosis, alerts)])

(* run_policy_selection when a policy survives the search: the same model, *)
(* so the same rows, and the alerts of the selected policy.                *)
SelectPolicy(c, alerts) ==
    LET before == IF policy = <<>> THEN robust ELSE policy
        evaluations == [before EXCEPT ![c] = Evaluated(robust[c], alerts)]
    IN  /\ robust # <<>>
        /\ policy' = evaluations
        /\ policyDecision' = DecidePolicyPromotion(CompareAll(evaluations))
        /\ UNCHANGED <<studyVars, robustVars>>

(* ... and when every candidate of the grid is rejected.                   *)
NoPolicySurvives ==
    /\ robust # <<>>
    /\ policy' = <<>> /\ policyDecision' = NoPolicySelected
    /\ UNCHANGED <<studyVars, robustVars>>

PromotionNext ==
    \/ \E c \in Shifts \cup {Combined} : \E e \in ShiftResults[c] : RunOod(c, e)
    \/ RunStudy
    \/ FirstCandidate
    \/ \E c \in Compared : \E d \in Candidate[c], a \in CandidateAlerts[c] :
           Retrain(c, d, a)
    \/ \E c \in Compared : \E a \in CandidateAlerts[c] : SelectPolicy(c, a)
    \/ NoPolicySurvives

PromotionSpec == PromotionInit /\ [][PromotionNext]_promotionVars

-----------------------------------------------------------------------------
(* Properties *)

(* The two judgements of one evaluation, written in two packages with      *)
(* bounds of their own, never contradict each other: a model that "does    *)
(* not generalize" is exactly a "catastrophic" shift, an acceptable one is *)
(* never "major", and a "minor" shift is always acceptable.                *)
VerdictsAgree ==
    \A c \in Cohort : verdict[c] # NoValue =>
        LET tier == verdict[c].damage.tier
        IN  /\ (verdict[c].verdict = "does not generalize") <=> (tier = "catastrophic")
            /\ verdict[c].verdict = "acceptable" => tier \in {"minor", "moderate"}
            /\ tier = "minor" => verdict[c].verdict = "acceptable"

(* The study's parts tell one story: nothing is worse than the primary     *)
(* failure, a secondary failure is never minor, no shift is lost, the      *)
(* advice to work on high load names a study whose primary failure is high *)
(* load, and combined damage that exceeds what one shift explains is never *)
(* reported while the combined cohort is milder than the primary failure.  *)
StudyIsConsistent ==
    study # NoValue =>
        LET tier(n) == TierRank(verdict[n].damage.tier)
        IN  /\ \A n \in Shifts : tier(n) <= tier(study.primary)
            /\ study.secondary # NoValue => tier(study.secondary) >= 2
            /\ Shifts = Range(study.minor)
                   \cup ({study.primary, study.secondary} \ {NoValue})
            /\ study.recommendation = "B" => study.primary = HighLoad
            /\ study.interaction = "yes" =>
                   \A n \in Shifts : verdict[Combined].damage.drop
                                        >= verdict[n].damage.drop

(* Both, as one invariant of the studies of the frozen model.              *)
StudyIsSound == VerdictsAgree /\ StudyIsConsistent

(* better is at least as good as worse on every metric of every cohort.    *)
Dominates(better, worse) ==
    \A c \in DOMAIN worse :
        /\ better[c].accuracy >= worse[c].accuracy
        /\ better[c].rate <= worse[c].rate
        /\ \A f \in Fault : /\ better[c].recall[f] >= worse[c].recall[f]
                            /\ better[c].wrong[f] <= worse[c].wrong[f]

(* What a promotion asks of a candidate's rows, whatever its alerts.       *)
RowsPass(e) ==
    LET gain(c) == e[c].accuracy - Baseline[c].accuracy
    IN  /\ gain(Pilot) >= -PromotionThresholds.pilotDrop
        /\ gain(HighNoise) >= PromotionThresholds.noiseGain
        /\ gain(Combined) >= PromotionThresholds.combinedGain
        /\ \A c \in DOMAIN e, f \in Fault : e[c].recall[f] > PromotionThresholds.recallFloor

(* A candidate that is promoted stays promoted when it is retrained into   *)
(* one that is at least as good everywhere, whatever the order of the      *)
(* checks; and a policy can make up for alerts only: System C is promoted  *)
(* only if System B's rows passed, and with System B's own alerts it is    *)
(* promoted exactly when System B is.                                      *)
PromotionIsMonotone ==
    [][/\ (decision = "promote" /\ Dominates(robust', robust))
              => decision' = "promote"
       /\ (policyDecision = "promote" /\ policy' # <<>>
              /\ Dominates(policy', policy)) => policyDecision' = "promote"
       /\ policyDecision' = "promote" => RowsPass(robust')
       /\ policy' # <<>> /\ policy' = robust' =>
              (policyDecision' = "promote") <=> (decision' = "promote")]_promotionVars
=============================================================================
