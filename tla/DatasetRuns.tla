---------------------------- MODULE DatasetRuns ----------------------------
(***************************************************************************)
(* Dataset generation, feature building and the dataset audit: a spec is   *)
(* planned into runs, every run is simulated sample by sample, the runs    *)
(* are split, windowed features and labels are derived, and the audit      *)
(* recomputes from the files what the generator must have written.         *)
(*                                                                         *)
(* Random streams are functions of the seed, so planning the same spec     *)
(* twice gives the same runs. Times are in seconds, proportions, loads and *)
(* severities in hundredths; an effect that has ramped for t of r seconds  *)
(* is kept as severity * t, the ramp r being fixed within a run. A reading *)
(* stands for the measurements of one asset at one sample.                 *)
(***************************************************************************)
EXTENDS Integers, Sequences, SequencesExt, FiniteSetsExt

CONSTANTS
    Specs,              \* dataset specifications that may be given
    Streams,            \* possible random streams: functions from a seed to its draws
    Fleet,              \* the assets of the plant
    Cadence,            \* DT_SECONDS, the sample interval of the feature windows
    WindowSamples,      \* the lengths of the feature windows, in samples
    MaxDips,            \* bound: readings that noise takes below the floor
    MaxEdits            \* bound: edits of the dataset's files

ASSUME DatasetAssumption ==
    /\ Cadence \in Nat \ {0} /\ MaxDips \in Nat /\ MaxEdits \in Nat
    /\ WindowSamples # {} /\ WindowSamples \subseteq Nat \ {0}

VARIABLES
    phase,              \* what the pipeline does next
    spec,               \* the specification
    stream,             \* the random streams behind its seeds
    plan,               \* the planned runs
    current,            \* the run being simulated
    elapsed,            \* fleet.elapsed_sim_seconds
    effect,             \* effect[a]: the fault effect set on asset a
    telemetry,          \* rows of telemetry.parquet
    truth,              \* rows of ground_truth.parquet
    table,              \* rows of runs.parquet
    splits,             \* splits.json
    manifest,           \* dataset_manifest.json
    features,           \* the feature table built from the files
    findings,           \* what the audit found
    edits,              \* the edits made to the files since
    applied,            \* history: the effect behind each telemetry row
    online              \* history: feature rows a live session computes

vars == <<phase, spec, stream, plan, current, elapsed, effect, telemetry, truth,
          table, splits, manifest, features, findings, edits, applied, online>>

None == -1
Healthy == "normal_operation"
FaultClass == {"cooling_degradation", "hydrogen_supply_issue", "sensor_anomaly"}
SplitName == {"train", "validation", "test"}
SplitOrder == <<"train", "validation", "test">>
LongestWindow == Max(WindowSamples)

----------------------------------------------------------------------------
NoRange == [min |-> None, max |-> None, step |-> None]

(* ScenarioRunSpec, SplitProportions and DatasetSpec reject what they must. *)
GridValues(range) ==
    {range.min + k * range.step : k \in 0 .. (range.max - range.min) \div range.step}

ValidTimingRange(range) ==
    range.min >= 0 /\ range.step > 0 /\ range.max >= range.min

ValidScenarioPlan(p) ==
    /\ p.count > 0
    /\ IF p.scenario \in FaultClass
       THEN (p.start = None) # (p.range = NoRange) /\ p.severities # {}
       ELSE p.start = None /\ p.range = NoRange /\ p.severities \subseteq {0} /\ p.ramp = None
    /\ p.range # NoRange => ValidTimingRange(p.range)

ValidProportions(props) ==
    /\ \A s \in SplitName : props[s] \in 0 .. 100
    /\ MapThenSumSet(LAMBDA s : props[s], SplitName) = 100

TotalRuns(sp) == FoldLeft(LAMBDA n, p : n + p.count, 0, sp.plans)

(***************************************************************************)
(* DatasetSpec.__post_init__, but for what it refuses of fields that are   *)
(* not modelled or do not vary: a sensor noise next to noise regimes, one  *)
(* regime only, regimes of one name (dataset_spec.py:277-292).             *)
(***************************************************************************)
ValidSpec(sp) ==
    /\ sp.plans # <<>> /\ sp.targets # <<>> /\ sp.duration > 0 /\ sp.dt > 0
    /\ \A i \in DOMAIN sp.plans : ValidScenarioPlan(sp.plans[i])
    /\ \A i, j \in DOMAIN sp.plans :
         sp.plans[i].scenario = sp.plans[j].scenario => i = j
    /\ \A i \in DOMAIN sp.plans :
         sp.plans[i].range # NoRange /\ sp.plans[i].ramp # None =>
           Max(GridValues(sp.plans[i].range)) + sp.plans[i].ramp <= sp.duration
    /\ Len(sp.seeds) = TotalRuns(sp)
    /\ ValidProportions(sp.proportions)

----------------------------------------------------------------------------
(* plan_runs: the runs of the plans one after the other, seeds in order. *)
Pick(S, n) == SetToSortSeq(S, LAMBDA a, b : a < b)[1 + (n % Cardinality(S))]

ResolveFaultStart(p, draw) ==
    IF p.range # NoRange THEN Pick(GridValues(p.range), draw.start) ELSE p.start

ResolveFaultSeverity(p, draw) ==
    IF p.severities = {} THEN 0 ELSE Pick(p.severities, draw.severity)

ResolveOperatingConditions(sp, draw) == Pick(sp.load.baselines, draw.load)

ResolveSensorNoise(sp, draw) ==
    IF sp.regimes # {} THEN Pick(sp.regimes, draw.noise) ELSE sp.noise

ResolveRunConfig(sp, p, i, seed, draws) ==
    [id |-> <<p.scenario, i>>, scenario |-> p.scenario, seed |-> seed,
     target |-> sp.targets[1 + (i % Len(sp.targets))],
     start |-> ResolveFaultStart(p, draws[seed]), ramp |-> p.ramp,
     severity |-> ResolveFaultSeverity(p, draws[seed]),
     load |-> ResolveOperatingConditions(sp, draws[seed]),
     noise |-> ResolveSensorNoise(sp, draws[seed])]

RunsBefore(sp, k) == FoldLeft(LAMBDA n, p : n + p.count, 0, SubSeq(sp.plans, 1, k - 1))

PlanRuns(sp, draws) ==
    FoldLeftDomain(
        LAMBDA runs, k :
            runs \o [n \in 1 .. sp.plans[k].count |->
                       ResolveRunConfig(sp, sp.plans[k], n - 1,
                                        sp.seeds[RunsBefore(sp, k) + n], draws)],
        <<>>, sp.plans)

(* RunConfig: a healthy run has no fault window, a fault ramps within the run. *)
ValidRunConfig(sp, r) ==
    IF r.scenario \in FaultClass
    THEN /\ r.severity > 0 /\ r.severity <= 100
         /\ r.start >= 0 /\ r.ramp > 0
         /\ r.start + r.ramp <= sp.duration
    ELSE r.start = None /\ r.ramp = None /\ r.severity = 0

(* OperatingConditions: the load swings within its margins. *)
ValidOperatingConditions(sp, r) ==
    r.load - sp.load.amplitude >= 5 /\ r.load + sp.load.amplitude <= 95

----------------------------------------------------------------------------
(* One sample of one run. *)
RoundHalfEven(a, b) ==
    LET q == a \div b
        twice == 2 * (a % b)
    IN IF twice > b \/ (twice = b /\ q % 2 = 1) THEN q + 1 ELSE q

TotalSteps(sp) == RoundHalfEven(sp.duration, sp.dt)

Smaller(a, b) == IF a < b THEN a ELSE b

(* apply_fault_effect at progress min(1, (t - start) / ramp). *)
FaultEffect(r, t) == r.severity * Smaller(r.ramp, t - r.start)

(* apply_sensor_noise keeps a reading at or above zero. *)
NoisyReading(value, noise) == IF value + noise < 0 THEN 0 ELSE value + noise

(* What an asset reads: the current follows the load, power is derived from
   the noisy current, and a biased sensor reports a raised temperature. *)
SampleObservations(r, a, eff, noise) ==
    LET amps == NoisyReading(r.load, noise)
    IN [current |-> amps, power |-> amps,
        temperature |-> IF r.scenario = "sensor_anomaly" THEN eff[a] ELSE 0]

FaultType(r) == IF r.scenario \in FaultClass \ {"sensor_anomaly"} THEN r.scenario ELSE "none"
Corruption(r) == IF r.scenario = "sensor_anomaly" THEN "bias" ELSE "none"

GroundTruth(r, a, t) ==
    LET hit == a = r.target
        active == hit /\ r.start # None /\ r.ramp # None /\ t >= r.start
    IN [run |-> r.id, asset |-> a, elapsed |-> t,
        type |-> IF hit THEN FaultType(r) ELSE "none",
        corruption |-> IF hit THEN Corruption(r) ELSE "none",
        active |-> active,
        severity |-> IF active THEN r.severity * Smaller(r.ramp, t - r.start) ELSE 0,
        since |-> IF active THEN t - r.start ELSE None]

----------------------------------------------------------------------------
(* assign_splits: largest remainders within each stratum, then one run to
   every split that asked for some, taken from the fullest. *)
Share(n, props, s) == (props[s] * n) \div 100
Rest(n, props, s) == (props[s] * n) % 100

(* sorted(..., reverse=True) is stable: a tie goes to the earlier split. *)
Precedes(n, props, i, j) ==
    \/ Rest(n, props, SplitOrder[i]) > Rest(n, props, SplitOrder[j])
    \/ Rest(n, props, SplitOrder[i]) = Rest(n, props, SplitOrder[j]) /\ i < j

Apportioned(n, props) ==
    LET left == n - MapThenSumSet(LAMBDA s : Share(n, props, s), SplitName)
        rank(i) == Cardinality({j \in 1 .. 3 : j # i /\ Precedes(n, props, j, i)})
    IN [i \in 1 .. 3 |-> Share(n, props, SplitOrder[i]) + (IF rank(i) < left THEN 1 ELSE 0)]

Fullest(counts) ==
    CHOOSE j \in 1 .. 3 : \A k \in 1 .. 3 :
        counts[j] > counts[k] \/ (counts[j] = counts[k] /\ j <= k)

Donate(counts, i, props) ==
    LET donor == Fullest(counts)
    IN IF props[SplitOrder[i]] > 0 /\ counts[i] = 0 /\ counts[donor] > 1
       THEN [counts EXCEPT ![donor] = @ - 1, ![i] = @ + 1] ELSE counts

(* Mutant: the largest remainders are left as they fall. *)
SplitCountsAsTheyFall(n, props) == Apportioned(n, props)

SplitCounts(n, props) ==
    LET wanted == {s \in SplitName : props[s] > 0}
    IN IF n >= Cardinality(wanted)
       THEN FoldLeft(LAMBDA c, i : Donate(c, i, props), Apportioned(n, props), <<1, 2, 3>>)
       ELSE Apportioned(n, props)

Stratum(runs, r) ==
    {n \in DOMAIN runs : runs[n].scenario = r.scenario /\ runs[n].target = r.target}

(* Where rng.shuffle puts run n among the runs of its stratum. *)
Shuffled(runs, n, draws) ==
    LET stratum == Stratum(runs, runs[n])
        before == {m \in stratum : IF draws.reversed THEN m > n ELSE m < n}
    IN Cardinality(before) + 1

AssignSplits(runs, props, draws) ==
    LET SplitOf(n) ==
          LET counts == SplitCounts(Cardinality(Stratum(runs, runs[n])), props)
              place == Shuffled(runs, n, draws)
          IN CASE place <= counts[1] -> "train"
               [] place > counts[1] /\ place <= counts[1] + counts[2] -> "validation"
               [] OTHER -> "test"
    IN [s \in SplitName |-> {runs[n].id : n \in {m \in DOMAIN runs : SplitOf(m) = s}}]

SplitCountsOf(assigned) == [s \in SplitName |-> Cardinality(assigned[s])]

----------------------------------------------------------------------------
(* build_feature_table: trailing windows over each (run, asset) series. *)
RowsOf(rows, key) == {n \in DOMAIN rows : rows[n].run = key[1] /\ rows[n].asset = key[2]}

Ordered(pairs) == SetToSortSeq(pairs, LAMBDA p, q : p[1] < q[1])

SeriesKeys(rows) == {<<rows[n].run, rows[n].asset>> : n \in DOMAIN rows}

TelemetrySeries(rows, key) ==
    Ordered({<<rows[n].elapsed, rows[n].values>> : n \in RowsOf(rows, key)})

TruthTimes(rows, key) == Ordered({<<rows[n].elapsed>> : n \in RowsOf(rows, key)})

Repeats(rows) ==
    \E m, n \in DOMAIN rows :
        m < n /\ rows[m].run = rows[n].run /\ rows[m].asset = rows[n].asset
              /\ rows[m].elapsed = rows[n].elapsed

TrailingWindow(series, index, w) == SubSeq(series, index - w + 1, index)

(* safe_divide rejects a current below MIN_ABS_CURRENT_AMPS. *)
SafeDivides(values) == values.current >= 1

FeatureRow(key, at, series, index) ==
    [run |-> key[1], asset |-> key[2], elapsed |-> at,
     windows |-> [w \in WindowSamples |-> TrailingWindow(series, index, w)],
     valid |-> SafeDivides(series[index][2])]

Warm(index) == index >= LongestWindow

EligibleRows(key) ==
    LET series == TelemetrySeries(telemetry, key)
        times == TruthTimes(truth, key)
    IN {FeatureRow(key, times[i][1], series, i) : i \in {j \in DOMAIN times : Warm(j)}}

DeriveLabel(row) ==
    CASE ~row.active -> "healthy"
      [] row.active /\ row.type # "none" -> row.type
      [] row.active /\ row.type = "none" ->
           IF row.corruption = "bias" THEN "sensor_anomaly" ELSE "healthy"

SplitOfRun(run) == CHOOSE s \in SplitName : run \in splits[s]

LabelRows(valid) ==
    {[run |-> row.run, asset |-> row.asset, elapsed |-> row.elapsed,
      split |-> SplitOfRun(row.run), class |-> DeriveLabel(row)] :
       row \in {t \in ToSet(truth) : \E f \in valid :
                  f.run = t.run /\ f.asset = t.asset /\ f.elapsed = t.elapsed}}

(* Duplicate rows, a missing reading or another cadence end the build. *)
Buildable ==
    /\ spec.dt = Cadence
    /\ ~Repeats(telemetry)
    /\ \A key \in SeriesKeys(truth) :
         LET samples == Cardinality(RowsOf(truth, key))
         IN samples >= LongestWindow => Cardinality(RowsOf(telemetry, key)) >= samples

FeatureTable ==
    LET keys == SeriesKeys(truth)
        eligible == UNION {EligibleRows(key) : key \in keys}
        valid == {f \in eligible : f.valid}
        short(key) == Smaller(Cardinality(RowsOf(truth, key)), LongestWindow - 1)
    IN [rows |-> valid, rejected |-> eligible \ valid, labels |-> LabelRows(valid),
        total |-> Len(truth), warmup |-> MapThenSumSet(short, keys)]

NoFeatures == [rows |-> {}, rejected |-> {}, labels |-> {}, total |-> 0, warmup |-> 0]

----------------------------------------------------------------------------
(* The audit: every check yields the severity of what it found. *)
Finding(found, severity) == IF found THEN {severity} ELSE {}

CheckRowCounts ==
    Finding(\/ manifest.counts.telemetry # Len(telemetry)
            \/ manifest.counts.truth # Len(truth)
            \/ manifest.counts.runs # Len(table), "blocking")

CheckFileHashes ==
    Finding(manifest.files # [telemetry |-> telemetry, truth |-> truth,
                              runs |-> table, splits |-> splits], "blocking")

CheckPlanReproducibility ==
    LET planned == PlanRuns(manifest.spec, stream)
    IN Finding(\/ ToSet(planned) # ToSet(table)
               \/ Len(planned) # Len(table), "blocking")

CheckSplits ==
    LET planned == PlanRuns(manifest.spec, stream)
        expected == AssignSplits(planned, manifest.spec.proportions, stream)
        ids == {table[n].id : n \in DOMAIN table}
    IN Finding(\/ \E s, t \in SplitName : s # t /\ splits[s] \cap splits[t] # {}
               \/ UNION {splits[s] : s \in SplitName} # ids
               \/ splits # expected
               \/ manifest.splits # SplitCountsOf(splits), "blocking")

CheckRowReferences ==
    LET known == {r.id : r \in ToSet(PlanRuns(manifest.spec, stream))}
        runsIn(rows) == {rows[n].run : n \in DOMAIN rows}
    IN Finding(~(runsIn(telemetry) \cup runsIn(truth) \subseteq known), "blocking")
         \cup Finding(~(known \subseteq runsIn(telemetry) \cap runsIn(truth)), "high")

(* In the order of the file, steps of exactly one sample interval. *)
CheckCadence ==
    Finding(\E m, n \in DOMAIN truth :
              /\ m < n
              /\ truth[m].run = truth[n].run /\ truth[m].asset = truth[n].asset
              /\ \A k \in m + 1 .. n - 1 :
                   truth[k].run # truth[n].run \/ truth[k].asset # truth[n].asset
              /\ truth[n].elapsed - truth[m].elapsed # manifest.spec.dt, "blocking")

CheckDuplicates == Finding(Repeats(telemetry) \/ Repeats(truth), "blocking")

CheckStructural ==
    CheckRowCounts \cup CheckFileHashes \cup CheckPlanReproducibility \cup CheckSplits
      \cup CheckRowReferences \cup CheckCadence \cup CheckDuplicates

ConfigOf(run) == CHOOSE r \in ToSet(table) : r.id = run
Recorded(row) == \E n \in DOMAIN table : table[n].id = row.run

(* Mutant: a fault is expected to end with its ramp. *)
LabelOutlastsRamp(row) ==
    LET r == ConfigOf(row.run)
    IN \/ row # GroundTruth(r, row.asset, row.elapsed)
       \/ row.active /\ row.since > r.ramp

(* check_labels: recomputed truth, then the rules a label must keep. *)
LabelBroken(row) ==
    LET r == ConfigOf(row.run)
        off == row.asset # r.target
    IN \/ row # GroundTruth(r, row.asset, row.elapsed)
       \/ off /\ (row.type # "none" \/ row.active \/ row.corruption # "none")
       \/ ~row.active /\ row.severity # 0
       \/ row.active # (row.since # None)
       \/ /\ ~off /\ row.active /\ r.scenario \in FaultClass
          /\ row.type # FaultType(r) \/ row.corruption # Corruption(r)
       \/ /\ r.scenario = Healthy
          /\ row.active \/ row.type # "none" \/ row.corruption # "none"

Flat(row) == row.active /\ (row.severity < 0 \/ (row.since > 0 /\ row.severity <= 0))

Sinks(row, later) ==
    /\ row.run = later.run /\ row.asset = later.asset /\ row.active /\ later.active
    /\ row.elapsed < later.elapsed /\ later.severity < row.severity

CheckLabels ==
    LET rows == {row \in ToSet(truth) : Recorded(row)}
    IN Finding(\E row \in rows : LabelBroken(row), "blocking")
         \cup Finding(\E row \in rows : Flat(row), "high")
         \cup Finding(\E row, later \in rows : Sinks(row, later), "medium")

RunsOfClass(c) == {n \in DOMAIN table : table[n].scenario = c}
Classes == {table[n].scenario : n \in DOMAIN table}

CheckSameClassNotIdentical ==
    LET shape(n) == <<table[n].load, table[n].start, table[n].severity>>
    IN Finding(\E c \in Classes : Cardinality(RunsOfClass(c)) > 1
                 /\ Cardinality({shape(n) : n \in RunsOfClass(c)}) = 1, "high")

CheckWithinBounds ==
    LET loads == manifest.spec.load.baselines
    IN Finding(\E n \in DOMAIN table :
                 table[n].load < Min(loads) \/ table[n].load > Max(loads), "blocking")

CheckFaultStartGrid ==
    Finding(\E n \in DOMAIN table, k \in DOMAIN manifest.spec.plans :
              LET p == manifest.spec.plans[k]
              IN /\ p.scenario = table[n].scenario /\ p.range # NoRange
                 /\ table[n].start # None
                 /\ (table[n].start - p.range.min) % p.range.step # 0, "blocking")

CheckVariation == CheckSameClassNotIdentical \cup CheckWithinBounds \cup CheckFaultStartGrid

(* check_leakage: what would give the class away without looking at a signal. *)
MissingTargets ==
    \E c \in Classes : {table[n].target : n \in RunsOfClass(c)} # ToSet(manifest.spec.targets)

MissingClasses ==
    \E s \in SplitName :
        LET present == {table[n].scenario : n \in {m \in DOMAIN table : table[m].id \in splits[s]}}
        IN present # {} /\ present # Classes

ApartInTime ==
    \E c, d \in Classes \cap FaultClass :
        Max({table[n].start : n \in RunsOfClass(c)}) < Min({table[n].start : n \in RunsOfClass(d)})

CheckLeakage ==
    {"low"} \cup Finding(MissingTargets, "high") \cup Finding(MissingClasses, "medium")
            \cup Finding(ApartInTime, "medium")

Verdict(found) ==
    CASE "blocking" \in found -> "NOT READY"
      [] "blocking" \notin found /\ "high" \in found -> "READY WITH CHANGES"
      [] OTHER -> "READY"

NoManifest == [spec |-> None]

----------------------------------------------------------------------------
Init ==
    /\ phase = "spec" /\ spec \in Specs /\ stream \in Streams
    /\ plan = <<>> /\ current = 0 /\ elapsed = 0 /\ effect = [a \in Fleet |-> 0]
    /\ telemetry = <<>> /\ truth = <<>> /\ table = <<>>
    /\ splits = [s \in SplitName |-> {}] /\ manifest = NoManifest
    /\ features = NoFeatures /\ findings = {} /\ edits = 0
    /\ applied = <<>> /\ online = {}

(* load_spec and plan_runs: everything is rejected before anything is written. *)
Reject ==
    /\ phase = "spec"
    /\ \/ ~ValidSpec(spec)
       \/ /\ ValidSpec(spec)
          /\ \E n \in 1 .. TotalRuns(spec) :
               LET r == PlanRuns(spec, stream)[n]
               IN ~ValidRunConfig(spec, r) \/ ~ValidOperatingConditions(spec, r)
    /\ phase' = "rejected"
    /\ UNCHANGED <<spec, stream, plan, current, elapsed, effect, telemetry, truth, table,
                   splits, manifest, features, findings, edits, applied, online>>

Plan ==
    /\ phase = "spec" /\ ValidSpec(spec)
    /\ plan' = PlanRuns(spec, stream)
    /\ \A n \in DOMAIN plan' :
         ValidRunConfig(spec, plan'[n]) /\ ValidOperatingConditions(spec, plan'[n])
    /\ phase' = "next"
    /\ UNCHANGED <<spec, stream, current, elapsed, effect, telemetry, truth, table,
                   splits, manifest, features, findings, edits, applied, online>>

(* A fresh fleet for the next run, if it has the run's target. *)
StartRun ==
    /\ phase = "next" /\ current < Len(plan)
    /\ plan[current + 1].target \in Fleet
    /\ current' = current + 1 /\ elapsed' = 0 /\ effect' = [a \in Fleet |-> 0]
    /\ phase' = "run"
    /\ UNCHANGED <<spec, stream, plan, telemetry, truth, table, splits, manifest,
                   features, findings, edits, applied, online>>

(* DatasetGenerationError: the temporary directory goes, with what it held. *)
AbortGeneration ==
    /\ phase = "next" /\ current < Len(plan)
    /\ plan[current + 1].target \notin Fleet
    /\ phase' = "failed"
    /\ telemetry' = <<>> /\ truth' = <<>> /\ table' = <<>> /\ applied' = <<>>
    /\ UNCHANGED <<spec, stream, plan, current, elapsed, effect, splits, manifest,
                   features, findings, edits, online>>

Dips == Cardinality({n \in DOMAIN telemetry : telemetry[n].values.current < 1})

(* What a session fed with the samples of one asset keeps and computes. *)
OnlineRow(r, a, t, rows) ==
    LET series == TelemetrySeries(rows, <<r.id, a>>)
        kept == SubSeq(series, Len(series) - LongestWindow + 1, Len(series))
    IN IF Len(series) < LongestWindow THEN {}
       ELSE {FeatureRow(<<r.id, a>>, t, kept, LongestWindow)}

FleetOrder == SetToSeq(Fleet)

(***************************************************************************)
(* One iteration of iter_samples: the effect for the time the tick will    *)
(* reach, the tick, then the rows of every asset.                          *)
(***************************************************************************)
Sample ==
    /\ phase = "run" /\ elapsed < TotalSteps(spec) * spec.dt
    /\ LET r == plan[current]
           t == elapsed + spec.dt
       IN /\ elapsed' = t
          /\ effect' = IF r.scenario \in FaultClass /\ t >= r.start
                       THEN [effect EXCEPT ![r.target] = FaultEffect(r, t)] ELSE effect
          /\ \E dip \in SUBSET (IF r.noise > 0 THEN Fleet ELSE {}) :
               /\ Dips + Cardinality(dip) <= MaxDips
               /\ telemetry' = telemetry \o
                    [i \in DOMAIN FleetOrder |->
                      LET a == FleetOrder[i]
                      IN [run |-> r.id, asset |-> a, elapsed |-> t,
                          values |-> SampleObservations(r, a, effect',
                                       IF a \in dip THEN -r.noise ELSE 0)]]
          /\ truth' = truth \o [i \in DOMAIN FleetOrder |-> GroundTruth(r, FleetOrder[i], t)]
          /\ applied' = applied \o [i \in DOMAIN FleetOrder |-> effect'[FleetOrder[i]]]
          /\ online' = online \cup
               UNION {OnlineRow(r, a, t, telemetry') : a \in Fleet}
    /\ UNCHANGED <<phase, spec, stream, plan, current, table, splits, manifest,
                   features, findings, edits>>

(* export_run ends: the run enters runs.parquet. *)
FinishRun ==
    /\ phase = "run" /\ elapsed = TotalSteps(spec) * spec.dt
    /\ table' = Append(table, plan[current])
    /\ phase' = "next"
    /\ UNCHANGED <<spec, stream, plan, current, elapsed, effect, telemetry, truth,
                   splits, manifest, features, findings, edits, applied, online>>

BuildManifest(assigned) ==
    [spec |-> spec,
     counts |-> [telemetry |-> Len(telemetry), truth |-> Len(truth), runs |-> Len(table)],
     splits |-> SplitCountsOf(assigned),
     files |-> [telemetry |-> telemetry, truth |-> truth, runs |-> table,
                splits |-> assigned]]

WriteDataset ==
    /\ phase = "next" /\ current = Len(plan)
    /\ splits' = AssignSplits(plan, spec.proportions, stream)
    /\ manifest' = BuildManifest(splits')
    /\ phase' = "written"
    /\ UNCHANGED <<spec, stream, plan, current, elapsed, effect, telemetry, truth, table,
                   features, findings, edits, applied, online>>

BuildFeatures ==
    /\ phase = "written" /\ features = NoFeatures
    /\ IF Buildable THEN features' = FeatureTable /\ phase' = phase
                    ELSE features' = features /\ phase' = "refused"
    /\ UNCHANGED <<spec, stream, plan, current, elapsed, effect, telemetry, truth, table,
                   splits, manifest, findings, edits, applied, online>>

(* The files of a dataset are changed after it was written. *)
Edit ==
    /\ phase = "written" /\ edits < MaxEdits /\ features = NoFeatures
    /\ edits' = edits + 1
    /\ \/ \E n \in DOMAIN truth : truth' = [truth EXCEPT ![n].active = ~@]
          /\ UNCHANGED <<telemetry, splits>>
       \/ telemetry' = Front(telemetry) /\ UNCHANGED <<truth, splits>>
       \/ telemetry' = Append(telemetry, Last(telemetry)) /\ UNCHANGED <<truth, splits>>
       \/ \E n \in DOMAIN telemetry :
            telemetry' = [telemetry EXCEPT ![n].values.temperature = @ + 1]
          /\ UNCHANGED <<truth, splits>>
       \/ \E run \in splits["test"] :
            splits' = [splits EXCEPT !["test"] = @ \ {run}, !["train"] = @ \cup {run}]
          /\ UNCHANGED <<telemetry, truth>>
    /\ UNCHANGED <<phase, spec, stream, plan, current, elapsed, effect, table, manifest,
                   features, findings, applied, online>>

RunAudit ==
    /\ phase = "written"
    /\ findings' = CheckStructural \cup CheckLabels \cup CheckVariation \cup CheckLeakage
    /\ phase' = "audited"
    /\ UNCHANGED <<spec, stream, plan, current, elapsed, effect, telemetry, truth, table,
                   splits, manifest, features, edits, applied, online>>

Next ==
    \/ Reject \/ Plan \/ StartRun \/ AbortGeneration \/ Sample \/ FinishRun
    \/ WriteDataset \/ BuildFeatures \/ Edit \/ RunAudit

Spec == Init /\ [][Next]_vars

----------------------------------------------------------------------------
TypeOK ==
    /\ phase \in {"spec", "rejected", "next", "failed", "run", "written", "refused", "audited"}
    /\ current \in 0 .. Len(plan) /\ elapsed \in Nat /\ edits \in 0 .. MaxEdits
    /\ \A a \in Fleet : effect[a] \in Nat
    /\ DOMAIN splits = SplitName
    /\ findings \subseteq {"blocking", "high", "medium", "low"}
    /\ phase = "failed" => telemetry = <<>> /\ table = <<>>

(***************************************************************************)
(* The label of every sample describes the physics of that sample: the     *)
(* severity recorded for an asset is the effect that was set on it when    *)
(* the sample was taken, from the first active sample to the end of the    *)
(* run, and no other asset is ever affected.                               *)
(***************************************************************************)
TruthMatchesPhysics ==
    edits = 0 /\ phase # "failed" =>
        /\ Len(applied) = Len(truth)
        /\ \A n \in DOMAIN truth : truth[n].severity = applied[n]

(***************************************************************************)
(* A fault run whose duration is a whole number of samples ends with its   *)
(* fault at full severity; its label has been active from the start on.    *)
(***************************************************************************)
FaultReachesFullSeverity ==
    phase \in {"written", "audited"} /\ edits = 0 /\ spec.duration % spec.dt = 0 =>
        \A n \in DOMAIN plan :
            plan[n].scenario \in FaultClass =>
                \E m \in DOMAIN truth :
                    /\ truth[m].run = plan[n].id /\ truth[m].asset = plan[n].target
                    /\ truth[m].elapsed = spec.duration
                    /\ truth[m].severity = plan[n].severity * plan[n].ramp

(***************************************************************************)
(* Every run is in exactly one split. In each stratum that has a run for   *)
(* every split asked for, every split asked for has one; a split with      *)
(* proportion zero has none.                                               *)
(***************************************************************************)
SplitsCoverStrata ==
    phase = "written" /\ edits = 0 =>
        \A n \in DOMAIN plan :
            LET stratum == {plan[m].id : m \in Stratum(plan, plan[n])}
                asked == {s \in SplitName : spec.proportions[s] > 0}
            IN /\ Cardinality({s \in SplitName : plan[n].id \in splits[s]}) = 1
               /\ Cardinality(stratum) >= Cardinality(asked) =>
                    \A s \in asked : splits[s] \cap stratum # {}
               /\ \A s \in SplitName \ asked : splits[s] = {}

(***************************************************************************)
(* Every sample is a feature row, a rejection or warm-up; every feature    *)
(* row has exactly one label, with its run's split and its own class.      *)
(***************************************************************************)
FeaturesAccountForSamples ==
    features # NoFeatures =>
        /\ features.total = features.warmup + Cardinality(features.rows)
                              + Cardinality(features.rejected)
        /\ Cardinality(features.labels) = Cardinality(features.rows)
        /\ \A f \in features.rows :
             \E l \in features.labels :
                 /\ l.run = f.run /\ l.asset = f.asset /\ l.elapsed = f.elapsed
                 /\ l.run \in splits[l.split]

(***************************************************************************)
(* The batch features of a run are the features a live session computes    *)
(* when it is fed the same samples one by one.                             *)
(***************************************************************************)
BatchMatchesOnline ==
    features # NoFeatures /\ edits = 0 => features.rows \cup features.rejected = online

(* The audit accepts what the generator writes. *)
AuditAcceptsGenerated ==
    phase = "audited" /\ edits = 0 => Verdict(findings) # "NOT READY"

(* The audit rejects a dataset whose files were changed. *)
AuditCatchesEdits ==
    phase = "audited" /\ edits > 0 => Verdict(findings) = "NOT READY"

(* A dataset is fit to learn from: its labels follow the physics of each
   sample, its splits cover every stratum, its features are complete and what
   the live session would have computed, and the audit accepts exactly the
   datasets that are as the generator wrote them. *)
DatasetIsSound ==
    /\ TypeOK
    /\ TruthMatchesPhysics /\ FaultReachesFullSeverity
    /\ SplitsCoverStrata
    /\ FeaturesAccountForSamples /\ BatchMatchesOnline
    /\ AuditAcceptsGenerated /\ AuditCatchesEdits
=============================================================================
