-------------------------- MODULE ReasoningEngine --------------------------
(***************************************************************************)
(* The deterministic reasoning core (src/src/application) and the engines  *)
(* of the platform that build on it, as operators: from the observations   *)
(* of one asset to signals, hypothesis, assessment, plan and confidence,   *)
(* and from those to the operational state, the recommendation and the     *)
(* notification an operator sees.                                          *)
(*                                                                         *)
(* A reading is [type, at, value]; a list of readings is ordered by (at,   *)
(* type), the order of (timestamp, observation id). Means, deviations and  *)
(* ratios are compared exactly, by multiplying out; the volatility score   *)
(* is kept in hundredths, as the code rounds it. The texts of an           *)
(* assessment are represented by the words the planner looks for.          *)
(***************************************************************************)
EXTENDS Integers, Sequences, SequencesExt, FiniteSetsExt

CONSTANTS
    TypeOrder,          \* the measurement types, in the order of their names
    MinSamples,         \* _MIN_SAMPLES_FOR_DIRECTIONAL_TREND
    Window,             \* DEFAULT_REASONING_SESSION_CONFIG.observation_window
    ShortHistory,       \* below this many readings a rise may be a mode change
    HighVariation       \* HIGH_VARIATION_THRESHOLD

ASSUME EngineAssumption ==
    /\ TypeOrder \in Seq(STRING)
    /\ \A i, j \in DOMAIN TypeOrder : TypeOrder[i] = TypeOrder[j] => i = j
    /\ MinSamples \in Nat /\ MinSamples >= 2
    /\ Window \in Nat /\ Window >= MinSamples
    /\ ShortHistory \in Nat /\ ShortHistory <= MinSamples
    /\ HighVariation \in Nat

TypeRank(type) == CHOOSE i \in DOMAIN TypeOrder : TypeOrder[i] = type

Earlier(r, s) == r.at < s.at \/ (r.at = s.at /\ TypeRank(r.type) < TypeRank(s.type))

(* A comprehension over a list: its elements at the positions I, in order. *)
Nth(I, k) == CHOOSE i \in I : Cardinality({j \in I : j <= i}) = k

Kept(seq, I) == [k \in 1 .. Cardinality(I) |-> seq[Nth(I, k)]]

OfType(obs, type) == Kept(obs, {i \in DOMAIN obs : obs[i].type = type})

ValuesOf(obs) == [i \in DOMAIN obs |-> obs[i].value]

Total(values) ==
    LET sum[i \in 0 .. Len(values)] == IF i = 0 THEN 0 ELSE sum[i - 1] + values[i]
    IN sum[Len(values)]

Squares(values) == Total([i \in DOMAIN values |-> values[i] * values[i]])

Clamp(n, lo, hi) == Max({lo, Min({hi, n})})

(* bound_recent_observations: the newest readings of every type. *)
Later(obs, i) == {j \in DOMAIN obs : obs[j].type = obs[i].type /\ Earlier(obs[i], obs[j])}

BoundRecent(obs, window) ==
    Kept(obs, {i \in DOMAIN obs : Cardinality(Later(obs, i)) < window})

(* The primary measurement is that of the first observation. *)
Primary(obs) == IF obs = <<>> THEN <<>> ELSE OfType(obs, obs[1].type)

----------------------------------------------------------------------------
(* Signals. *)

(* _split_half_direction: the halves' means differ by enough of the spread.
   Two different means imply a spread, so its zero case does not arise. *)
SplitHalf(n, mid, shift, spread) ==
    IF \/ n < MinSamples
       \/ shift = 0
       \/ 25 * shift * shift * n * n < 16 * mid * mid * spread
    THEN "stable" ELSE IF shift > 0 THEN "increasing" ELSE "decreasing"

Direction(obs) ==
    LET v == ValuesOf(obs)
        n == Len(v)
        mid == n \div 2
    IN SplitHalf(n, mid, Total(SubSeq(v, n - mid + 1, n)) - Total(SubSeq(v, 1, mid)),
                 n * Squares(v) - Total(v) * Total(v))

Level(obs) ==
    LET v == ValuesOf(obs)
        values == {v[i] : i \in DOMAIN v}
    IN IF Len(v) >= MinSamples /\ Max(values) - Min(values) > HighVariation
       THEN "high" ELSE "low"

DefaultProfile ==
    [correlations |-> {<<"temperature", "pressure">>},
     contradictions |-> {<<"temperature", "pressure">>}, expects |-> FALSE]

FuelCellProfile ==
    [correlations |-> {<<"stack_temperature", "stack_pressure">>,
                       <<"current", "voltage">>,
                       <<"fuel_flow", "stack_temperature">>},
     contradictions |-> {}, expects |-> TRUE]

(* A pair counts when both types have readings and move as the rule asks. *)
Moving(obs, pair, first, second) ==
    /\ \A i \in 1 .. 2 : Len(OfType(obs, pair[i])) >= 2
    /\ Direction(OfType(obs, pair[1])) = first
    /\ Direction(OfType(obs, pair[2])) = second

Correlations(obs, profile) ==
    {p \in profile.correlations : Moving(obs, p, "increasing", "decreasing")}

Contradictions(obs, profile) ==
    {p \in profile.contradictions : Moving(obs, p, "increasing", "increasing")}

Expectation(profile, correlations, contradictions) ==
    CASE ~profile.expects -> "none"
      [] profile.expects /\ correlations # {} -> "expected"
      [] profile.expects /\ correlations = {} /\ contradictions # {} -> "unexpected"
      [] OTHER -> "indeterminate"

(* TrendDetector raises on fewer than two readings of the primary type. *)
Analysable(obs) == Len(obs) >= 2 /\ Len(Primary(obs)) >= 2

SignalsWith(primary, profile, correlations, contradictions) ==
    [primary |-> primary, direction |-> Direction(primary), level |-> Level(primary),
     correlations |-> correlations, contradictions |-> contradictions,
     expectation |-> Expectation(profile, correlations, contradictions)]

Signals(obs, profile) ==
    SignalsWith(Primary(obs), profile, Correlations(obs, profile), Contradictions(obs, profile))

----------------------------------------------------------------------------
(* Evidence, hypotheses, assessment, plan, confidence. *)
Evidence(s) ==
    {<<"latest_reading">>, <<"detected_trend">>, <<"detected_variation">>, <<"sample_support">>}
    \cup (IF Len(s.primary) >= 2 THEN {<<"recent_delta">>} ELSE {})
    \cup s.correlations \cup s.contradictions

SupportsCooling(s) ==
    /\ s.primary # <<>> /\ s.primary[1].type = "stack_temperature"
    /\ s.direction = "increasing" /\ s.level = "low"
    /\ \E p \in s.correlations : {p[1], p[2]} = {"stack_temperature", "fuel_flow"}

FuelFlowDecreasing(obs) ==
    /\ Len(OfType(obs, "fuel_flow")) >= 2
    /\ Direction(OfType(obs, "fuel_flow")) = "decreasing"

SupportsHydrogen(s, obs) == FuelFlowDecreasing(obs) \/ s.expectation = "unexpected"

SupportingEvidence(kind, s) ==
    Evidence(s) \cap
      CASE kind = "sensor_drift" -> {<<"detected_variation">>} \cup s.contradictions
        [] kind \in {"cooling_degradation", "hydrogen_supply"} -> s.correlations
        [] OTHER -> {<<"latest_reading">>, <<"detected_trend">>}

LeadingKind(s, hydrogen) ==
    CASE SupportsCooling(s) -> "cooling_degradation"
      [] ~SupportsCooling(s) /\ hydrogen -> "hydrogen_supply"
      [] /\ ~SupportsCooling(s) /\ ~hydrogen
         /\ s.level = "high" \/ s.contradictions # {} -> "sensor_drift"
      [] OTHER -> "load_change"

Supported(kinds, s) ==
    [i \in DOMAIN kinds |-> [kind |-> kinds[i], support |-> SupportingEvidence(kinds[i], s)]]

Hypotheses(s, obs) ==
    Supported(<<LeadingKind(s, SupportsHydrogen(s, obs))>>
                \o (IF s.direction = "increasing" /\ Len(s.primary) < ShortHistory
                    THEN <<"unknown">> ELSE <<>>), s)

(* The words of the assessment's text: "unstable" contains "stable". *)
Words(direction, level) ==
    CASE direction = "increasing" /\ level = "low" -> {"increasing"}
      [] direction = "increasing" /\ level = "high" -> {"increasing", "unstable", "stable"}
      [] direction = "stable" /\ level = "low" -> {"stable"}
      [] direction = "stable" /\ level = "high" -> {"unstable", "stable"}
      [] direction = "decreasing" /\ level = "low" -> {"improving"}
      [] direction = "decreasing" /\ level = "high" -> {"unstable", "stable"}

Assess(s) ==
    [direction |-> s.direction, level |-> s.level,
     suffix |-> CASE s.contradictions # {} -> "inconsistencies"
                  [] s.contradictions = {} /\ s.correlations # {} -> "relationships"
                  [] OTHER -> "none"]

StructuredAssessment(s) ==
    [direction |-> s.direction, level |-> s.level,
     correlations |-> s.correlations # {}, contradictions |-> s.contradictions # {},
     unexpected |-> s.expectation = "unexpected"]

(* _planning_outcome: the first word found decides. *)
PlanningOutcome(words) ==
    CASE "increasing" \in words -> [priority |-> "high", recommendation |-> "investigate"]
      [] "increasing" \notin words /\ "unstable" \in words ->
           [priority |-> "high", recommendation |-> "investigate"]
      [] words \cap {"increasing", "unstable"} = {} /\ "stable" \in words ->
           [priority |-> "low", recommendation |-> "continue"]
      [] OTHER -> [priority |-> "low", recommendation |-> "maintain"]

MonotonicRecent(obs) ==
    LET n == Len(obs)
    IN n >= 3 /\ \/ obs[n - 2].value <= obs[n - 1].value /\ obs[n - 1].value <= obs[n].value
                 \/ obs[n - 2].value >= obs[n - 1].value /\ obs[n - 1].value >= obs[n].value

Support(n) == Min({25, 8 * Min({n, 3})})

Confidence(a, primary) ==
    LET consistency == IF a.level = "high" \/ a.contradictions THEN 5 ELSE 15
        trend == IF a.direction = "stable" THEN 8 ELSE IF a.level = "high" THEN 4 ELSE 12
        sustained == IF MonotonicRecent(primary) /\ a.direction # "stable" THEN 6 ELSE 0
        penalties == (IF a.contradictions THEN 12 ELSE 0) + (IF a.unexpected THEN 6 ELSE 0)
    IN Clamp(35 + Support(Len(primary)) + consistency + trend + sustained - penalties, 0, 100)

----------------------------------------------------------------------------
(* time_series_analysis: direction by net change, overridden when unsteady. *)
Deltas(v) == [i \in 1 .. Len(v) - 1 |-> v[i + 1] - v[i]]

Aligned(d, direction) ==
    LET Count(P(_)) == Cardinality({i \in DOMAIN d : P(d[i])})
        moves == Count(LAMBDA x : x # 0)
    IN CASE direction = "stable" -> IF moves = 0 THEN 100 ELSE 60
         [] direction = "rising" -> (100 * Count(LAMBDA x : x > 0)) \div moves
         [] direction = "falling" -> (100 * Count(LAMBDA x : x < 0)) \div moves

(* The deviation of the steps over their mean, in hundredths, at most 100. *)
VolatilityScore(net, deviation) ==
    IF net = 0 THEN IF deviation = 0 THEN 0 ELSE 100
    ELSE Cardinality({k \in 1 .. 100 :
           (2 * k - 1) * (2 * k - 1) * net * net <= 40000 * deviation})

NetDirection(net) == IF net = 0 THEN "stable" ELSE IF net > 0 THEN "rising" ELSE "falling"

StabilityScore(alignment, volatility) == (65 * alignment + 35 * (100 - volatility) + 50) \div 100

SignalsOfSteps(d, guess, volatility, stability) ==
    LET direction == IF stability < 55 THEN "stable" ELSE guess
    IN [direction |-> direction, stability |-> stability, volatility |-> volatility,
        monotonicity |-> Aligned(d, direction)]

SteadySteps(d, guess, volatility) ==
    SignalsOfSteps(d, guess, volatility, StabilityScore(Aligned(d, guess), volatility))

MeasuredSteps(d, net) ==
    SteadySteps(d, NetDirection(net), VolatilityScore(net, Len(d) * Squares(d) - net * net))

ComputeSignals(obs) ==
    LET d == Deltas(ValuesOf(obs)) IN MeasuredSteps(d, Total(d))

Recent(obs, n) == SubSeq(obs, Max({1, Len(obs) - n + 1}), Len(obs))

NoTrend == [direction |-> "stable", stability |-> 50, volatility |-> 0, monotonicity |-> 0]

AnalyzeTrend(obs, window) ==
    LET recent == Recent(obs, window)
    IN IF Len(recent) < MinSamples THEN NoTrend ELSE ComputeSignals(recent)

LegacyConfidence(trend, primary, a, priority) ==
    LET severity == IF priority = "high" THEN 25 ELSE 5
        sustained == IF trend.direction # "stable" /\ trend.monotonicity >= 85
                        /\ trend.stability >= 70 THEN 6 ELSE 0
        steady == CASE trend.stability >= 75 -> 12
                    [] trend.stability \in 60 .. 74 -> 8
                    [] trend.stability \in 45 .. 59 -> 4
                    [] OTHER -> 0
        consistency == IF trend.stability >= 65 /\ a.level # "high" THEN 15 ELSE 5
    IN Clamp(35 + Support(Len(primary)) + severity + consistency + steady + sustained
               - (IF a.contradictions THEN 12 ELSE 0), 0, 100)

(* _build_legacy_evidence: what the decision cites, with its weight in
   hundredths. *)
LegacyEvidence(primary) ==
    LET item(id, weight) == <<[id |-> id, weight |-> weight]>>
        given(cond, seq) == IF cond THEN seq ELSE <<>>
    IN given(primary # <<>>, item("latest_reading", 35))
         \o item("trend_analysis", 25)
         \o given(Len(primary) >= 2, item("recent_delta", 30))
         \o given(primary # <<>>,
                  item("sample_support", IF Len(primary) >= 3 THEN 20 ELSE 15))
         \o item("planner_alignment", 15)

(* _build_legacy_alternatives and _expected_outcome. *)
Alternatives(words, a, primary) ==
    <<IF a.level = "high" \/ a.contradictions THEN "sensor_drift" ELSE "temporary_overload">>
      \o (IF "increasing" \in words /\ Len(primary) < ShortHistory
          THEN <<"mode_transition">> ELSE <<>>)

ExpectedOutcome(words, priority) ==
    CASE "increasing" \in words \/ priority = "high" -> "stabilise"
      [] "increasing" \notin words /\ priority # "high" /\ "stable" \in words -> "stay"
      [] OTHER -> "improve"

(* build_explainable_decision for a stored plan and assessment. *)
Explain(words, primary, trend, plan, a) ==
    [trend |-> trend, evidence |-> LegacyEvidence(primary),
     confidence |-> LegacyConfidence(trend, primary, a, plan.priority),
     alternatives |-> Alternatives(words, a, primary),
     outcome |-> ExpectedOutcome(words, plan.priority)]

ExplainableDecision(words, obs, plan, a) ==
    Explain(words, Primary(obs), AnalyzeTrend(Primary(obs), Window), plan, a)

----------------------------------------------------------------------------
(* The operational state, the recommendation and the notification. *)
Sustained(trend) == trend.direction # "stable" /\ trend.stability >= 65

HealthScore(priority, trend, a) ==
    LET plan == IF priority = "high" THEN 45 ELSE 10
        movement == (IF Sustained(trend) THEN 15 ELSE 0)
                      + (IF trend.volatility >= 60 THEN 10 ELSE 0)
                      - (IF trend.direction = "stable" /\ trend.stability >= 75 THEN 5 ELSE 0)
        doubts == (IF a.contradictions THEN 15 ELSE 0) + (IF a.unexpected THEN 10 ELSE 0)
    IN Clamp(100 - plan - movement - doubts, 0, 100)

HealthStatus(score) ==
    CASE score >= 75 -> "NORMAL" [] score \in 45 .. 74 -> "WARNING" [] OTHER -> "CRITICAL"

RiskLevel(priority, status) ==
    CASE priority = "high" \/ status = "CRITICAL" -> "HIGH"
      [] priority # "high" /\ status = "WARNING" -> "MEDIUM"
      [] OTHER -> "LOW"

PrimaryDriver(trend, a) ==
    CASE a.contradictions -> "contradictions"
      [] ~a.contradictions /\ a.unexpected -> "unexpected"
      [] ~a.contradictions /\ ~a.unexpected /\ Sustained(trend) -> "trend"
      [] OTHER -> "priority"

(* OperationalStateEngine.compute over the list it is given. *)
StateOf(primary, trend, plan, a) ==
    LET score == HealthScore(plan.priority, trend, a)
    IN [score |-> score, health |-> HealthStatus(score),
        risk |-> RiskLevel(plan.priority, HealthStatus(score)),
        confidence |-> LegacyConfidence(trend, primary, a, plan.priority),
        driver |-> PrimaryDriver(trend, a)]

OperationalState(obs, plan, a) ==
    StateOf(Primary(obs), AnalyzeTrend(Primary(obs), Window), plan, a)

(* Mutant: a high risk is announced as a critical one. *)
RecommendByRisk(state) ==
    CASE state.risk = "HIGH" -> [priority |-> "P0", category |-> "mitigate"]
      [] state.risk = "MEDIUM" -> [priority |-> "P2", category |-> "investigate"]
      [] OTHER -> [priority |-> "P3", category |-> "monitor"]

Recommend(state) ==
    CASE state.health = "CRITICAL" -> [priority |-> "P0", category |-> "mitigate"]
      [] state.health # "CRITICAL" /\ state.risk = "HIGH" ->
           [priority |-> "P1", category |-> "investigate"]
      [] /\ state.health # "CRITICAL" /\ state.risk # "HIGH"
         /\ state.health = "WARNING" \/ state.risk = "MEDIUM" ->
           [priority |-> "P2", category |-> "investigate"]
      [] OTHER -> [priority |-> "P3", category |-> "monitor"]

(* Its identity is that of the recommendation. *)
Notify(recommendation) ==
    CASE recommendation.priority = "P0" -> [severity |-> "CRITICAL", id |-> recommendation]
      [] recommendation.priority \in {"P1", "P2"} -> [severity |-> "WARNING", id |-> recommendation]
      [] OTHER -> [severity |-> "NONE", id |-> recommendation]
=============================================================================
