# Verification of ODIS

TLA+ models of the ODIS platform (`src/`): what they model, what TLC checks of
them on small instances, and what TLAPS proves of them for every value of the
constants. All paths are relative to the directory that holds `src/`.

    tlc -workers 2 -config ReasoningJobs.cfg MCReasoningJobs   # a run
    tlapm ReasoningJobsProofs.tla                              # the proofs of a module

Run names, properties, mutants, the definition-to-source map, hazards and
findings are in `PROJECT.json`.

1. The system · 2. Modules · 3. What TLC checks · 4. What is proved ·
5. Remarks on the code and its documents · 6. Plan · 7. Not modelled

## 1. The system

ODIS watches industrial assets. Observations arrive over HTTP or MQTT, are
stored in PostgreSQL, and trigger a reasoning run over the asset's history; a
second chain streams telemetry through a fault classifier and turns its alerts
into investigations. Everything is announced through a transactional outbox and
shown on a dashboard. A plant simulator feeds both chains, and an offline pipeline
generates datasets from it, trains the classifier and decides what is deployed.

    plant simulator --HTTP----------------+
          |  \---MQTT--> MQTT bridge --POST--> API --commit--> PostgreSQL <--claim-- reasoning worker
          |                                |                  |                      |
        Kafka                              |            outbox_events                | heartbeat
          |                                +----dispatch()----+------dispatch()------+
          |                                         |
          |                   bus: cache, timeline, SSE over Redis --> dashboard;  Kafka
          v
    telemetry topic --> fault-inference worker --> alert-transition topic
                    --> reasoning bridge --> PostgreSQL, outbox, result topic

    dataset -> features -> models -> policies, cohorts -> comparison -> selection -> runtime bundle
                                                                   (loaded by the inference worker)

### Inventory

"Hard" names what is hard to test, "correct when" what the properties say.

**Reasoning job queue** (`backend/app/infrastructure/repositories/reasoning_job_repository.py`,
`application/reasoning_job_queue.py`, `application/reasoning_worker.py`,
`worker_main.py`).
State: table `reasoning_jobs` with a partial unique index on the outstanding rows
of an asset. Operations: `enqueue_or_mark_dirty`, `claim_oldest_pending`,
`complete_and_reschedule`, `fail_and_reschedule`, `process_next`.
Interacts: shares a transaction with ingestion on one side and with the reasoning
run on the other. Hard: row locks and SKIP LOCKED, coalescing into a row a worker is
finishing, crashes between claim and commit, `dispatch()` failing after the commit.
Correct when: one outstanding job per asset, no lost wake-up, serial runs, fresh results,
every observation attended. *ReasoningJobs, WakeupQueue.*

**Observation ingestion** (`application/observation_service.py`, observation repository,
unit of work). State: `observations`, `outbox_events`. Operations: `create`,
`run_reasoning_for_asset`. Hard: one transaction over three tables, duplicate ids,
what a partial history leads to. *Partly: the transaction is in ReasoningJobs, the run
in ReasoningPipeline, ids that come twice in MqttBridge and PlantSimulator; two simultaneous
posts of one id are not modelled.*

**Health checks and worker heartbeat** (`application/health_service.py`,
`worker_heartbeat_service.py`, `worker_main.py`). State: a heartbeat row per process, the
gauge. Operations: record, `/ready`, `/health`. Hard: the job and the heartbeat share a
thread; rows of dead workers stay. Correct when: no false alarm and no silence.
*WorkerHealth.*

**Transactional outbox** and **domain event bus** (`application/outbox_dispatcher.py`,
`infrastructure/events/kafka_integration_event_publisher.py`,
`application/integration_event_mapping.py`, `application/events/`, `bootstrap.py`). State: `outbox_events`. Operation:
`dispatch`, called by whoever has committed rows. Hard: overlapping passes without
locks, one commit for a whole batch, failed legs, no timer. Correct when: only
delivered rows are marked, duplicates have a cause, rows are delivered as long as
there is traffic. *Outbox.*

**Reasoning engine** (`src/src/`) and **operational state, recommendation, notification
engines** (`application/*_engine.py`, `time_series_analysis.py`). Pure over one asset's
readings, but the service compares runs with their predecessors. State: `reasoning_runs` and
what hangs on it. Hard: thresholds in four files that must fit together, windows that change the
primary type, runs that raise half-way. Correct when: conclusions agree, announcements follow
the runs, history analyses tell one story. *ReasoningEngine, ReasoningPipeline.*

**Operator investigations** (`application/investigation_service.py`, repository, route).
State: `investigation_transitions`, append-only. Operation: `record_transition`.
Hard: read, check and insert without a lock. Correct when: a history moves forward unless
requests overlap. *Investigation.*

**Fault-inference worker** (`backend/simulator/inference_worker/`). State: per-asset
buffers of partial samples with size and time limits, the latest processed timestamp,
sessions, consumer position. Operations: `ingest`, `sweep`, `_run_inference`, publish, commit.
Hard: eviction, late and conflicting measurements, a failed publish after the buffer was
emptied, cold restarts. Correct when: both memories are bounded and agree, what is dropped is
reported, nothing waits for ever. *SampleAssembly, InferenceWorker.*

**Inference runtime and alert policy** (`simulator/inference/session.py`,
`dataset/alert_policy/state_machine.py`), **corroboration and recommendation policy**
(`application/reasoning_bridge/`). State: the streaks of the alert machine; investigation rows.
Hard: streaks that interrupt one another, cold starts that forget an alert, lost transitions.
Correct when: alerts are justified by their rows, advice is the alert's, recovery closes.
*AlertMachine, FaultSession, FaultAdvice.*

**Reasoning bridge worker** (`application/reasoning_bridge/`,
`infrastructure/reasoning_bridge/kafka_io.py`, evidence repository). State: consumer
position and offset, `ai_fault_evidence`, the result topic. Operations: `poll_once`,
`_handle_message`, `process_alert_transition`, `decide_investigation`,
`publish_with_retry`. Hard: a batch whose middle fails, redelivery, duplicates,
crashes between the database and the offset. Correct when: replays are no-ops, the
investigation lifecycle is in order, nothing blocks the partition. *Partly:
ReasoningBridge, one consumer.*

**Digital twin cache**, **monitoring event stream**, **frontend** (`digital_twin_service.py`,
`redis_digital_twin_cache.py`, `redis_monitoring_event_source.py`, `monitoring_sse_stream.py`,
`frontend/src/monitoring/`). State: cached twin with a TTL, listener, stream queue, query cache of the browser.
Hard: a twin assembled before an invalidation and stored after it, events while the
listener reconnects, a fetch joined by an invalidation, an answer that overtakes a confirmed move. Correct when: a
stale view has a known reason, polling catches up. *LiveView; of the frontend only the twin's query.*

**MQTT bridge** (`application/mqtt_bridge/`, `infrastructure/mqtt/`) and **plant simulator with its
publishers** (`backend/simulator/`). State: unacknowledged deliveries; run id, tick and deadlines of the
loops. Hard: redelivery only after a reconnect, a retry of a post that had arrived, sinks of which one fails.
Correct when: what is made arrives once, acknowledged is settled. *MqttBridge, PlantSimulator; the
physics only chooses values.*

**Offline pipeline** (`simulator/dataset/`): **artifacts** (stages that replace directories without a lock;
correct when no output is lost and what is loaded was evaluated together: *ArtifactPipeline*),
**generation, features, audit** (correct when labels, splits and features follow the simulation and the
audit accepts exactly what was generated: *DatasetRuns, without the physical and separability checks*),
**policy studies** (correct when a replay is what the live session did and a search sees validation
rows alone: *AlertEvaluation*), **shift studies and promotion** (correct when verdicts agree and a better
candidate is not demoted: *PromotionStudy*).

Not modelled: **forecasting**, **API routers and schemas** beyond the routes of modelled services,
**metrics, tracing, configuration, migrations**, **benchmark and deployment scripts**; section 7 says why.

## 2. Modules

| Module | Contents | Extends |
|---|---|---|
| `WakeupQueue` | abstract specification: an observation stays owed until an attempt on its asset looks at it | |
| `ReasoningJobs` | the job table, the requests that enqueue, the workers | |
| `WorkerHealth` | heartbeats, `/ready`, `/health` | |
| `Outbox` | outbox rows and the passes of `dispatch()` | |
| `ReasoningEngine` | the reasoning core and the platform's engines, as operators | |
| `ReasoningPipeline` | runs, announcements and the reads of them | `ReasoningEngine` |
| `Investigation` | operators' requests on one asset's recommendations | |
| `SampleAssembly` | the assembler, as a value and its calls | |
| `InferenceWorker` | the poll loop around it, sessions, commits, crashes | `SampleAssembly` |
| `AlertMachine` | the alert state machine, as operators | |
| `FaultSession` | warm-up, machine and evidence of one asset | `AlertMachine` |
| `FaultAdvice` | from the session's alerts to what the operator reads | `FaultSession` |
| `ReasoningBridge` | the partition, the consumer, the evidence table, the result topic | |
| `LiveView` | outbox, cache, Pub/Sub, stream and browser, for one asset | |
| `MqttBridge`, `PlantSimulator` | broker session and bridge; simulator and its publishers | `PlantSimulator` extends `MqttBridge` |
| `DatasetRuns` | planning, simulation, splits, features, audit | |
| `ArtifactPipeline` | the stages as processes on shared directories | |
| `AlertEvaluation` | replays and searches of policies | `AlertMachine` |
| `PromotionStudy` | verdicts, tiers, promotion decisions | |
| `MC...` | instances for TLC | |
| `...Proofs` | theorems and proofs of the module named; `ReasoningJobsProofs` has those of `WorkerHealth` too, `InferenceProofs` those of `ArtifactPipeline` and `InferenceWorker`, `ReasoningPipelineProofs` those of `Investigation` too, `FaultAdviceProofs` those of `PromotionStudy` and `AlertEvaluation` too | |

Operators whose comment begins with "Mutant" are faulty variants of the definition
that follows them. No specification uses them; replacing the definition by its variant
must make a run fail, which shows that the property depends on it.

Data is abstracted to what decisions look at: names and texts are model values or the words
that are matched, files are the number of the invocation that wrote them, twins are counts of what they have
seen. Floating-point numbers become integers in parts of a scale, and means, deviations and ratios
are compared by multiplying out, so that no rounding is introduced that the code does not have, with one exception: `StabilityScore` is computed
from the rounded volatility, the code's from the unrounded one (`time_series_analysis.py:129-131`), which is the same for windows of the length checked and not for every length.

### ReasoningJobs

`jobs` is the *committed* table. PostgreSQL runs the transactions at READ COMMITTED, so
what one can feel of another is its row locks: `AssetBusy(a)` says that some transaction
holds the index entry of `a`. An upsert (`EnqueueInsert`, `MarkDirty`) waits for it; a claim
passes over it.

| Code | Action |
|---|---|
| `create`: save, outbox row, the upsert is sent | `StartCreate` |
| `enqueue_or_mark_dirty` inserts / hits the outstanding row | `EnqueueInsert` / `MarkDirty` |
| `uow.commit()` of a request | `CommitCreate` |
| a request rolls back | `AbortCreate` |
| `claim_oldest_pending` finds a row / nothing | `Claim` / `Poll` |
| `list_by_asset` | `ListObservations` |
| `complete`, commit | `Complete` (with `FinishRow`) |
| reasoning raises: `fail`, commit, the process ends | `ReasoningRaises` |
| `dispatch()` after the commit returns / raises | `DispatchReturns` / `DispatchRaises` |
| the process dies / is restarted | `WorkerCrash` / `Restart` |

A worker's claim, run and completion are one transaction, from which two things follow that
the documentation does not mention. RUNNING is never visible to another session, so the
model has no such committed status. And an observation posted while its asset is being
reasoned about waits in the upsert until the run ends; `dirty` is only ever set on a
PENDING row nobody is working on. Such a row would have been run anyway: a dirty row leads to a
follow-up that may find nothing new. The queue errs on the side of one run too many.
One more observation: `process_next` calls `dispatch()` inside the `try` whose handler calls
`fail(job)`, so that a dispatch that raises after the commit rewrites a COMPLETED row to
FAILED (`DispatchRaises`). Since the row is no longer dirty, no second follow-up is scheduled.

A row's uuid and its `created_at` are one number, the creation stamp; only its freshness
and order are used. The stamp is drawn when the upsert is *sent*, so an insert that waited may
be older than rows committed before it, as in the code. `attended` and `covered` are
history: what some finished attempt has seen, and what a committed run covers.

### Outbox

A pass is one call of `dispatch()`: `Select`, then for each row in order of `created_at`
`SkipUnknown`, or `Notify` (cache and SSE handlers, which swallow Redis errors),
`Record` (timeline, which commits on its own) and `Send`/`SendFails` (Kafka), then
`Commit`. `RecordRaises` and `Crash` abandon the pass: marks are rolled back, deliveries
are not. `SendFails` may or may not have delivered, as `future.get(timeout=5)` may give up on
a message that is still sent. Which legs a type has is `LegsOf`, from the registrations
in `bootstrap.py` and the mapping to integration events. `OtherTraffic` is a pass after a
transaction whose rows are not among those modelled. Kafka is taken to be
configured; without it a row has no Kafka leg. `failed` and `overlapped` are history.

### ReasoningBridge

One consumer of one partition. `position` is what `poll()` has handed out, `cur` the message
in hand. Two facts about the client matter. `commit()` without offsets commits
`position`, hence the end of the polled batch and not the message in hand; and a
handler that returns False ends the batch without a seek, so `position` stays behind it.
`GiveUp` is that exit. A rebalance that moves the partition to another consumer is, for the
single consumer modelled, a `Crash` and a `Restart`.

Upstream emits transitions of any type (`Emit`), sends an asset's last one again, or leaves a
message that validation refuses (`Resend`). An event id is a hash of asset, timestamp, type, class and
model; one asset has at most one transition per timestamp, so `Id` is asset and
timestamp. Assumption: the transitions of an asset are first published in the order of
their timestamps, which the inference session enforces from one restart of it to the next. Fault classes, texts and timeline
entries are not told apart: no decision about investigations depends on them.
`skipped` is history: a valid message was given up before it was recorded.

### Investigation

Requests read the latest row (`Decide`), stamp and flush theirs (`Save`) and commit. The route
checks that the recommendation is the asset's current one (`Receive`), which a reasoning run may change
at any time (`Supersede`). `occurred_at` is a strictly increasing clock; a request is
served once. `overlapped` is history: recommendations of which a request
read while another was between its read and its commit.

### WorkerHealth

One process per worker: `RecordHeartbeat` when one is due, `HeartbeatRaises` when the database is
down (the exception leaves the loop and ends the process), `StartJob`/`FinishJob` between two
heartbeats, `Stop`, `Start`. `Ready` and `Health` evaluate `Checks` over the freshest row of any
worker. Time is the poll interval; ages stop at `Old`. `HealthAssumption` states what the settings
must satisfy for the design to work: a job ends before its last heartbeat is `Timeout` old.

### ReasoningEngine and ReasoningPipeline

The engine is operators only, stage by stage: window (`BoundRecent`), trend, variation,
relationships, hypotheses, assessment, plan, confidence, and of the platform trend diagnostics,
operational state, recommendation, notification. Texts are reduced to the words the planner
matches. The pipeline has `Observe` (one report, one reading of each of its types),
`SkipReasoning` (the gate `_can_run_reasoning`), `RunReasoning` (the whole of
`_run_reasoning_for_asset`: session, state, comparison with the previous run, the events), and
`FailReasoning` (a session that raises; only its run row is committed). What monitoring reads (latest state and
notification, run details with explanation and evidence, the history list) and the history analyses
(attention, pattern, comparison, timeline) are operators on `runs`.

### SampleAssembly and InferenceWorker

The assembler is a sequence of asset buffers, least recently active first; `Ingest`
returns the next assembler and the outcomes. The worker: `Poll`, `HandleEvent`,
`HandleMalformed`, `Commit`, `Sweep`, and `Crash`, `Restart`, `Tick`; a failed publish is a
choice of each handler, which then ends the poll as `all(...)` does. `session[a]` is the last
timestamp the asset's session took; `SessionIngest` raises on an older one. Samples age only in a process that runs. The log is kept
from the committed offset on. `open`, `evicted` and `clean` are history.

### AlertMachine, FaultSession, FaultAdvice

A row is a distribution over the classes in parts of `Scale`; feature vector and classifier are
behind it. `StepStateMachine` steps the machine on a valid row (`StepHealthy`, `StepConfirmed`) and
`StepInvalid` on an insufficient one, with entry, exit and switch streaks. `FaultSession` adds the warm-up, `Reset` and the evidence of a result.
`FaultAdvice` takes every event of the session as a transition message: `Deliver` corroborates it
against series of readings (`Fetch` takes the *oldest* of the window, as the query does), files it and writes the timeline;
`Lose` gives it up; `ColdStart` forgets the alert without an event. Faults of the consumer are in
`ReasoningBridge`, which does not tell classes apart; here delivery is in order.

### LiveView

One asset, one browser. Commits append to `bus`; its head goes through the handlers in the order
of `bootstrap.py`: cache invalidation, then publication. `CacheGet`, `Assemble` (query by query, so that
a commit may fall between), `CacheSet`, `Reply` are a GET. The listener thread, the stream's
queue, and the browser's queries (`Poll`, `Open`, `Dispatch`, `MoveConfirmed`) follow the TypeScript.
`causes` is history: the reasons that may have kept an update from the browser.

### MqttBridge and PlantSimulator

The broker keeps the session; a message stays until the bridge acknowledges it on the connection
that delivered it, and at most `Window` are out. `Deliver`, `Map`, `ForwardSettled`, `ForwardRetryable`,
`Reconnect`, `Disconnect`, `CrashBridge`. The simulator has the dual loop of HTTP and MQTT
(`Wake`, `Make`) and the snapshot loop of Kafka (`Snapshot`, `NextSink`), `HttpPost` with its retries, `KafkaSend`,
`MqttPublish`, `Restart` with a new run id. `CadenceAssumption`: the derived interval is a multiple of the core one, as in all
settings of the repository.

### DatasetRuns and ArtifactPipeline

`DatasetRuns` is one pass: `Plan` (or `Reject`), then every run sample by sample (`StartRun`, `Sample`, `FinishRun`,
or `AbortGeneration`), `WriteDataset`, `BuildFeatures`, `Edit` (a file is tampered with),
`RunAudit`. Random streams are functions of the seed. The plant is reduced to the effect a fault
sets. `ArtifactPipeline` runs any stages in two terminals: check that the output may be replaced, load,
compute, `rmtree`, `rename`, each a step; an exception or a kill may come between. The bundle is written file by file and
the worker's loader reads it in five steps, beside any packaging: `StartWorker` (the files are there; the metadata is read), `VerifyPipeline`, `VerifyPolicy` (a file
is hashed), `LoadPipeline`, `LoadPolicy` (it is opened once more, and loaded); `StopWorker` is a check that refuses, a file that cannot be parsed, or the
end of the process. The metadata of a bundle names the pipeline of the promoted system and, by `HashPolicy`, whatever policy file is in the bundle by
then. `RemoveFails` is an `rmtree` that gives up half-way. Contents are version numbers. The pipeline begins with a dataset only; or with one complete
run of every stage, the models trained and compared once more since; or with a policy selected for those as well, to be
packaged over the old bundle. `raced` and `swapped` are history: a source was replaced while
a stage or a packaging was reading it, and a file of the bundle between the loader's check and its loading.

### AlertEvaluation and PromotionStudy

`Record` adds a row to a recorded run and steps a live session beside it; `RunStudies` is the searches
over the validation split, with the calibration experiment among them. Detections, false alerts, episodes, gaps and coverage are operators on the recorded rows.
`EvaluateModelOnCohort` takes `None` or a split, as the code does: without a split it is about every recorded run, with one about the runs of
the split that have a valid row (`CohortRuns`), rejected rows included.
`PromotionStudy` takes finished evaluations as inputs: `RunOod`, `RunStudy`, `FirstCandidate` and `Retrain` (a
candidate is compared, then one like it in all but one cohort), `SelectPolicy`, `NoPolicySurvives`.

## 3. What TLC checks

Ten runs pass and two show a disagreement with a document. A type invariant is a conjunct
of one of the run's invariants, or proved by TLAPS.

| Run | Instance | Distinct states | Properties |
|---|---|---|---|
| `jobs` | 3 observations, 2 assets, 2 workers, 1 fault; 2 processes, 2 outages | 100,293 | `OneOutstandingPerAsset`, `NoLostWakeup`, `RunsAreSerialPerAsset`, `QuietAssetIsCovered`, `DirtyJobIsFollowedUp`, `EveryObservationAttended`, `ImplementsWakeupQueue`; `AliveMeansReady`, `DeadIsNoticed` |
| `outbox` | 3 rows of 2 transactions, 2 processes, 2 faults | 44,130 | `DispatchedIsDelivered`, `DuplicateHasCause`, `DispatchedUnlessFailed`, `DispatchedWhileTrafficLasts` |
| `bridge` | 3 messages of 2 assets, batches of up to 2, 2 faults | 335,555 | `ReplayIsANoOp`, `LifecycleInOrder`, `NoMessageBlocks`, `AlertsSettleWithoutFaults` |
| `reasoning` | 5 reports out of 7 samples of 4 types, window 3; 3 requests, 2 recommendations | 216,841 | `ConclusionsAgree`, `AnnouncementsFollowRuns`, `HistoryTellsOneStory`; `SerialHistoriesAdvance` |
| `inference` | 2 assets, 2 measurements, buffers of 1, 1 asset tracked, 1 fault | 280,988 | `MemoriesAgree`, `DropsAreReported`, `PendingResolved` |
| `advice` | 4 classes, 4 distributions, persistence 2, window 2 | 95,787 | `AlertsAreJustified`, `AdviceIsCoherent`, `RecoveryCloses` |
| `live` | 2 requests, 1 reading, 1 commit of each kind, 1 fault | 392,882 | `ViewIsExplained`, `ConfirmedMoveStays`, `PollingCatchesUp` |
| `transport` | 5 transports, 3 time steps, 2 faults, window 1, 2 device messages | 162,722 | `TransportIsFaithful`, `MessagesProgress` |
| `evaluation` | 3 runs, 5 rows in all, 3 policies and a frozen one; 4 cohorts and results on each side of every bound | 30,051 | `ReplayMatchesLive`, `ReportsAddUp`, `SearchIsSound`; `StudyIsSound`, `PromotionIsMonotone` |
| `offline` | 2 terminals, 2 invocations, 1 loader, 3 starting points, failures and kills; the specifications of `MCDatasetRuns`, 1 dip, 1 edit | 168,761 | `ArtifactsAreSound`, `NoSilentReplacement`; `DatasetIsSound` |
| `outbox_kafka` | as `outbox` | violation | `EventsReachKafka` |
| `bridge_republish` | 1 asset, 3 messages, 2 faults | violation | `TriggeringMessageIsSettled` |

**Pairs in one run.** `jobs`, `reasoning`, `evaluation` and `offline` hold two specifications that share no state
(a semicolon separates their properties). The next-state relation lets one move while the other is in its initial state: every
behaviour of either alone is checked, and the product, which would show nothing more, is not built. Fairness is
stated in the same form (`HealthFairnessAtRest`).

**What the properties of the larger modules say.**
- `AliveMeansReady`: while a worker is polling or at work and the database answers, `/ready` holds; `DeadIsNoticed`: without workers
  it fails for good, though their rows stay.
- `ConclusionsAgree`: a high variation makes a plan of high priority, severity fits health, a settled asset is low, a run that passed the
  gate raises only because of the window, details shown later agree with the run. `AnnouncementsFollowRuns`: announced changes chain, and the
  notification is the latest run's. `HistoryTellsOneStory`: the analyses agree on what has worsened and what comes first, and the history list ends with what is shown as latest.
- `MemoriesAgree`: both memories are bounded, the session follows the assembler, and the session raises only after an eviction took the assembler's memory.
  `DropsAreReported`: a sample that leaves the assembler is completed or reported, unless a publish before it has just failed. `PendingResolved`: no sample waits for ever.
- `AlertsAreJustified`: every confirmation, switch and clear is what the last rows say. `AdviceIsCoherent`: the investigation shown is
  the alert's, once lost transitions and forgotten alerts are caught up with. `RecoveryCloses`: rows of health clear the alert and close the investigation.
- `ViewIsExplained`: twins are torn in one direction only, and a quiet, connected dashboard that is behind has one of four reasons (event
  lost, joined to a fetch in flight, invalidation failed, cached too late). `ConfirmedMoveStays`: a confirmed transition disappears again only
  for the last two. `PollingCatchesUp`: without the stream the dashboard gets everything in the end.
- `TransportIsFaithful`: every reading made arrives once at every sink of a process that goes on, and an acknowledged message is stored, refused or malformed.
  `MessagesProgress`: a message is acknowledged or stays behind unacknowledged deliveries on a connection that stays up.
- `ArtifactsAreSound`: no output is lost but in a replacement that was cut short; what is promoted and packaged was evaluated and selected together, unless a source
  was replaced under the stage; a worker runs the pipeline and the policy that its metadata names, except for a file that a packaging replaced between the loader's check and its
  loading, which is then that of another evaluated system (see the remarks). `NoSilentReplacement`: without `--overwrite` only a rival's fresh output can be removed.
- `DatasetIsSound`: labels follow the effect behind each sample, faults reach full severity, splits cover the strata, features account for
  all samples and are those of a live session, and the audit accepts what was generated and finds every edit.
- `ReplayMatchesLive`: detections and episodes of a recorded run are what the live session did. `ReportsAddUp`: a report on a whole cohort accounts for every row, one on a split for the rows of its runs
  but those without any valid row, its timelines show what was counted up to the first gap that dropped a pending alert,
  and the two counts of the false alarms of a persistence rule agree. `SearchIsSound`: the selection is the best by its rule and
  unchanged by rows of the test split, the calibration falls back on a rejected policy only when all are, and in its report a higher threshold never covers more rows. `StudyIsSound`: verdict, tier, ranking and study verdict agree. `PromotionIsMonotone`: a candidate that is at least
  as good is not demoted, and an alert policy makes up for alerts only.

**Why the bounds are enough.**
- *jobs*: two observations of one asset give an insert and a coalesced mark or a follow-up, and are the least that passes the gate of a run; the third, of another
  asset, makes `Claim` choose. With two workers one claims while the other finishes. `MaxStamp` is the number of observations, faults (an
  aborted request starts again) and possible follow-ups: it never blocks a step. Two processes: one dies, one goes on; the timeout and interval leave room for a job of any allowed length.
- *outbox*: one row of an unknown type stays in front of every batch; a transaction of two rows allows a pass
  to fail between them; one of the two has all legs, the other only the timeline. Two processes overlap;
  two faults allow a failed pass and a failed retry.
- *bridge*: three messages allow a confirmation, a failure and a message behind it in the same batch; two faults are a failure and a
  crash, the least that makes a message be recorded late. The safety properties are proved for any number.
- *reasoning*: a window of 3 and reports of types at two rates make the slower type become primary and readings drop out, within 5 reports;
  values lie on both sides of the thresholds. Three requests have an overlapping pair and a third on top.
- *inference*: limits of 1 are reached at once; two assets evict each other; a timestamp before, at and after the latest; batches of two have a message behind the one that fails.
- *advice*: persistence 2 lets streaks be interrupted; four distributions hold a fault, health, a tie of two faults and a tie of a fault with health; series on both sides of every trend.
- *live*: the races need one commit of a kind, one fault, and two requests in flight.
- *transport*: a window of 1 blocks; two attempts allow a retry of what had arrived; three time steps reach a derived slot and a second core one.
- *offline*: in two terminals at most two invocations overlap, and the starting points stand for the ordered ones before them: a stage and its rival, a selection or a packaging
  and the stage that replaces its source, two packagings, a packaging and the loader. Any of them may fail or be killed at any step. Longer histories are covered by `ArtifactsStaySound`, for any number of terminals and invocations. Specifications with ranges, ramps at both edges of a run, strata of one run, equal seeds, a duration that is not a multiple of the sample interval.
- *evaluation*: five rows in all (one of the test run counts twice) allow a detection after the onset, a false alert before it, and two fault rows on either side of
  a rejected one. The frozen policy has entry persistence 2, the least at which a gap drops a pending streak, as it does with the configured 4
  (`robustness/config.py:25-30`); `ReplaysStayLive` covers every persistence. `PromotionStudy` has one result on each side of every bound.

Deadlock is checked in `jobs`, `outbox`, `bridge`, `advice`. The other systems stop at their bound (clock, commits, invocations, rows), hence `CHECK_DEADLOCK FALSE`.
Symmetry is used in `offline` (terminals) and `reasoning` (requests, recommendations), which check no liveness.

**Fairness.** Weak fairness, except as said, of what runs without anybody's decision:
- a request in flight, a pass of `dispatch()`, the handlers of the bus and a GET run to their end: straight-line code;
- workers keep polling, and a dead one is started again by `restart: unless-stopped` in `src/docker-compose.yml`; `WorkerHealth` assumes *no* restart;
- clocks advance, TTL and poll timer expire, Redis comes back after a finite outage;
- the bridge of `PlantSimulator` goes on with what it can do without a fault; reconnection after a cut is the client's `loop_forever`. No cut of a healthy connection is assumed, which is why
  `MessagesProgress` has its second case;
- `InferenceWorker` leaves "handling" infinitely often: every handler ends. `MoveConfirmed` is strongly fair, since the slots of requests, a bound of the model, may be taken again and again by polls;
- `FaultAdvice`: samples keep coming and messages are delivered or lost.

Nobody has to post an observation, call `dispatch()`, publish or fail. Faults are finite in number: a liveness property says what happens once they
stop. In `ReasoningJobs` weak fairness of `Work(w)` covers success and failure together: a job that always raises is attended and ends FAILED.

**Refinement.** `ImplementsWakeupQueue` is the refinement of the abstract specification with its fairness; `EveryObservationAttended` its consequence on the
concrete state. `LifecycleInOrder` has the proviso `~skipped` (a valid message was given up before it was recorded); crashes, duplicates,
transitions lost upstream and messages lost behind a committed batch need none.

### Findings

Each is a run with one property, taken from the text quoted in `PROJECT.json`, that TLC finds violated.

1. `outbox_kafka` / `EventsReachKafka`: a row whose Kafka leg failed waits for a "next
   dispatch() cycle" that nothing runs; without further transactions it is never sent.
2. `bridge_republish` / `TriggeringMessageIsSettled`: a redelivered message whose publish had failed
   is recognised as a duplicate and committed; the publish is not attempted again.

## 4. What is proved

The proofs hold for every value of the constants that meets the named assumption of its module: any number of
assets, observations, workers, rows, messages, batch sizes, requests, faults.

**ReasoningJobsProofs** (from `ConstantsAssumption`: observations are numbers, each has an
asset, `NoAsset` is none). Theorems `TypeCorrect`, `OneOutstandingHolds`, `NoLostWakeupHolds`,
`RunsAreSerialHolds`, `NoUnconsumedRequestHolds`, `QuietAssetIsCoveredHolds`, `FollowUpHolds`,
`Refinement` (the safety part of `WakeupQueue`).
`IndInv` is `TypeOK`, the properties, and three parts about what the rows do not
say by themselves: `FreshInv` (stamps not drawn yet are absent rows, so a follow-up
never overwrites one), `RequestInv` (what an enqueued request points at: its own absent row or the
asset's outstanding one) and `LockInv` (a worker's job is the outstanding row of its asset while it is in its transaction; no two
transactions hold an asset; what it has seen is what the asset has). No property is inductive
alone: that a completed job may forget its asset rests on nothing having been
stored meanwhile, which rests on the lock.

**OutboxProofs** (from `EventAssumption`: rows are numbers). Theorems `TypeCorrect`, `DispatchedIsDeliveredHolds`,
`DuplicateHasCauseHolds`. `IndInv` adds `RestingInv` (an idle process holds
nothing), `DisjointInv`, `MarkedInv` (a marked row has reached its durable legs), `RecordedInv` (a row about
to be sent has its timeline entry), `HolderInv` and `DeliveredInv`: a row without failure and
overlap has at most one holder, and has been delivered on a leg only if that holder has
passed the leg or the row is dispatched. The lemma `NotYetDelivered` is what the duplicate argument rests on.

**ReasoningBridgeProofs** (from `BridgeAssumption`: the bounds are numbers). Theorems `TypeCorrect`, `ReplayIsANoOpHolds`,
`LifecycleInOrderHolds`. `IndInv` is `TypeOK`, `OrderInv` (timestamps of an asset in the partition
do not decrease), `BatchInv` (where `cur` is in the batch), `TableInv` (rows and results come from
messages, one per id) and, unless `skipped`, `Key` and `CaseInv`. `Key` is the heart: a valid message still ahead of
the consumer, after a restart too, and not recorded is newer than every recorded row of its asset. With
it `Active` is decided on the past, and `CaseInv`, the order within an investigation, is kept.

**ReasoningPipelineProofs, first part** (from `EngineAssumption` and `PipelineAssumption`: types have different names, the window holds
the readings a trend needs, a short history is no longer than that, values are numbers). Theorems `PipelineCorrect`, `RunsAreConsistent`, `ConclusionsOfRuns`, `AnnouncementsOfRuns`, `HistoryOfRuns`, for any readings and histories of
any length. The invariant is about what is stored: `ReadingsInv` (readings in the order of their stamps), `RunsInv` (every row of `reasoning_runs` is what a
session concludes, or what a failure stores, for the readings it was given), `KnownInv` and `EventsInv` (every event belongs to a completed run). The three
properties then compare what is recomputed from the rows later. The heart is that a window taken of a window is the window: the filters of the engine are described by
positions (`Enumerates`, `Lists`, of which there is one, `ListIsUnique`), which gives `WindowOfType`, `RecentIsIdempotent` and `KeptPrimaryState`: while the window keeps the
primary type, the state recomputed from the last run's readings is the one that run announced. From it `TransitionsChain` and `NotificationIsCurrent`. The history
analyses are settled by the first run at which a timeline worsens. `ConclusionsOfRuns` has a hypothesis of its own, `DefaultPairUnreported`: a plant that reports both
temperature and pressure has its details recomputed with a correlation of the default profile that the run's own profile does not look for
(see the remarks). The MC constants meet it; `RunsAreConsistent` is the rest of `ConclusionsAgree` without it. `ReasoningEngine` is written with `Kept`,
`Nth` and `Total`, a filter and a sum as functions of positions, because the provers have no theory of `SelectSeq` and the folds.

**ReasoningPipelineProofs, second part: Investigation** (from `InvestigationAssumption`: there is a recommendation, and `NoRec` is none). Theorems
`InvestigationTypes`, `SerialHistoriesAdvanceHolds`. `InvestigationInv` adds `ReceivedInv` (a request past the route
names a recommendation), `StampInv` (a flushed stamp is in the past and nobody else's) and `AloneInv` (the accepted request of
a recommendation without overlap is the only one in flight, and its status and stamp are above every row's).

**ReasoningJobsProofs, second part: WorkerHealth** (from `HealthAssumption`: a heartbeat interval and a job fit into the timeout).
Theorems `HealthInvariant`, `AliveIsReady`. `HealthInv` is the types and `FreshBeat`: the row of a worker whose mark
is not due is as old as the mark, and that of a busy worker at most an interval and its job so far. This is
where the assumption is used, and the only place.

**InferenceProofs, first part: ArtifactPipeline** (from `PipelineAssumption`: the bounds are numbers). Theorems `PipelineInvariant`, `ArtifactsStaySound`,
`NothingIsReplacedSilently`. `ArtifactsAreSound` speaks of what is in the directories; `PipelineInv` adds who may still change them:
the version a running stage will write is nobody else's (`VersionsAreFresh`), what is half removed or gone has a stage in
the middle of its replacement (`HalfRemovedIsHeld`, `RemovedIsHeld`; of several removers of one directory the first to finish holds
it), and a selection or packaging under which nothing was replaced has its source as it checked it.
`LoaderInv` follows the loader: the metadata it has read was selected (`BundleWasSelected`), a file it has checked is the one that metadata names unless it was replaced
since (`ChecksHold`), and what it has opened is of a selected system in any case (`ReadWasSelected`). The attempt showed
that two packagings at a time need no exception: they write the same names from the same selection, and metadata that fits was
selected. The model's history variable was narrowed accordingly, which makes the property stronger.

**InferenceProofs, second part: InferenceWorker** (from `AssemblyAssumption` and `WorkerAssumption`: something is required, limits and timeout
are positive, a valid event has an asset and a timestamp). Theorems `WorkerInvariant`, `MemoriesStayAgreed`, `DropsStayReported`. `SessionFollowsAssembler`
speaks of buffers that have completed a sample; what makes it inductive, `SessionsAreTracked`, also speaks of assets without a buffer: if such an asset was
never evicted, its session has not begun, so that a new buffer, which remembers nothing, has nothing to remember. Hence the late
check of the assembler is at least as strict as the session's order, and `NonMonotonicTimestampError` needs an eviction. `Sound` is the assembler as a value:
the lemmas follow `ingest` call by call (`BufferForFacts`, `MakeRoomFacts`, `SampleForFacts`, `AddMeasurementFacts`, `IngestFacts`) and `SweepFacts`, and each says what
is left of what was waited for and what is told, from which `DropsStayReported` follows. The sweep filters and flattens sequences of any length:
`FlattenFacts` proves what that yields by a least counterexample. `SampleAssembly` has `Only`, `SampleFor` and `Older` as operators of their own
so that they can be reasoned about.

**LiveViewProofs** (from `LiveViewAssumption`: bounds are numbers, `NoReq` is no request). Theorems `ViewInvariant`, `ViewStaysExplained`,
`ConfirmedMovesStay`. `StaleHasCause` is about quiet states; `ViewInv` says what is under way in the others: a cached twin
that is behind has its invalidation on the bus (`CacheWillBeDropped`), a run the browser has not seen and does not
fetch is on the bus or in the stream (`RunsAreHeralded`), and a browser that is not posting shows the last move
(`MovesAreShown`), each unless one of the four causes has struck. `TwinsAreOrdered` also orders the reads of a twin
that is only begun.

**PlantSimulatorProofs** (from `BridgeAssumption` and `CadenceAssumption`). Theorems `TransportInvariant`, `TransportStaysFaithful`.
That ids are unique rests on arithmetic: tick and kind are the id, a pass makes a kind once per tick, and the
tick advances with the core cadence only. `Grid` says that the derived deadline is a whole number of core intervals from the core one; so
once the derived readings of a tick are made, the next core deadline is not later than the next derived one. Without
`DerivedInterval % CoreInterval = 0` two derived readings may fall into one tick with one id. `HttpProgress` and
`SinkProgress` say how far a batch is, `Messages` and `IdsInStore` that a key has one message and an id one
observation, so that a redelivery finds what was stored.

**FaultAdviceProofs** (from the assumptions of `AlertMachine`, `FaultSession`, `FaultAdvice`: classes ascend and
contain the healthy one, thresholds within the scale, persistences and window positive). Theorems
`AdviceInvariant`, `AlertsStayJustified`, `AdviceStaysCoherent`. The properties look back over rows, the machine keeps counters, so
`SessionInv` says what each counter counts, in both directions: a counted streak is at the end of the rows (`PendingIsStreak`,
`ExitIsStreak`: nothing is raised or cleared early), and a streak at the end of the rows is counted or has confirmed
its class (`StreakIsCounted`: nothing is missed); `SwitchIsStreak` is the first half for the streak of another class. The step lemmas follow the cases of `StepStateMachine`.
`AdviceWillFollow` is the other half: the last message under way alone decides which class will be under
investigation, so that losses and cold starts are mended by the next transition; `HistoryIsCoherent` gives each filed
investigation its timeline. That rows of a distribution sum to the scale, so that the row standing for insufficient data is none of them,
is `InsufficientAssumption`: it follows from `Scale > 0`, but by induction over the length of a row, and TLC evaluates it.

**FaultAdviceProofs, second part: PromotionStudy** (from `StudyAssumption` and `ResultsAssumption`: the shifts have different names, there are finitely many
faults, results are percentages and counts). Theorems `StudiesStaySound`, `PromotionStaysMonotone`, for any shifts, faults and results, with the thresholds of the configurations.
`VerdictsInv` says that a verdict is there exactly when its evaluation is and is the judgement of it, `StudyInv` and `DecisionInv` the same for
the study and the decisions; the rest is about the judgements as functions. A ranking is a bijection (`SortedFacts`: of finitely many shifts
the k-th is the one that k - 1 outrank, and counting what outranks it is one to one), so that the first is as bad as any, every shift is attributed once
(`AttributionFacts`) and a tier is worse only for a worse result (`JudgementsFit`). A decision promotes exactly when all its checks are met, whatever the order they are
made in (`DecisionsMean`), and every check is monotone in the candidate (`BetterMeets`); a policy is promoted only next to rows that pass by themselves, since both systems of a selection have the same rows (`SameRows`); the missed runs are a sum over the faults, for which
`SumUnfolds` and `SumIsMonotone` take the fold of the community modules apart by a least counterexample over the sizes of subsets.

**FaultAdviceProofs, third part: AlertEvaluation** (from `EvaluationAssumption`: finitely many runs, grids that are sequences, those of persistences and thresholds
not empty, persistences and bounds are numbers). Theorems `SearchesStaySound` and `ReplaysStayLive`, for any runs, rows, grids and caps. For the first the invariant is small (`EvaluationInv`: rows are rows, and a selection that stands
is the one the studies would make now); the work is in the operators. That a search has a result at all needs every key to be a tuple of numbers, hence that each fold a score
goes through returns one: a fold exists and is unique up to a bound (`FoldExists`, `FoldsAgree`), so replays, episodes, false alarms and first detections are typed
(`RunFits`, `EpisodesFit`, `AlarmsFit`, `FirstHitFits`), a median is the k-th least of finitely many latencies (`KthFits`), the order of the keys is total (`KeysAreOrdered`) and of finitely
many candidates one is first (`SomeIsFirst`). Then `SelectedIsSound` and `BestIsKept` say what the two kinds of search return and `CoverageFalls` that a higher threshold keeps a subset of the rows. That no row of a test run matters is
`SameSelections`: each study is a function of the rows of the validation runs, lemma by lemma from the split to the selection. `AlertEvaluation` writes its folds as recursive functions and an undetected median as a component of the key
of its own (in place of infinity) for the sake of these proofs.

`ReplaysStayLive` needs what the folds compute, not only that they compute a number. The trick is that the live session already is the induction: each `Record` appends one row, so
it is enough that a fold over a sequence with one element more is one more step (`RunGoesOn`, `EpisodesGoOn`, `DurationGrows`), and the invariant `LiveInv` carries the value from row to row. It says that the machine of the
session is the one a replay of the recorded rows ends in, and that the events of that replay tell its story (`Story`): they are in the order of time, each is a change of the confirmed class and each change is one of them, and after
every row the last event up to it says what is confirmed. `StepTells` is the same of one step of the machine. `StoryDetects` reads the detection off the story: least event and least row correspond, and a class that is
up after the onset and never newly confirmed was up at the onset. For the episodes `Accounts` balances the books: what is closed and what is open so far last as long as an alert was up; the sum of the durations
is a fold over a set in no order, so `SumCommutes` shows that the order does not matter. `GappedIsTimed` says that merging valid and rejected rows gives the run back, `SegmentIs` that the healthy segment is its beginning, which stops growing at the
onset (`CoverGrows`).

Minima are reached through the library's well-founded induction in the form of its theorem about least elements
(`LeastNatural`, `WFMin`), which has no operator parameter.

**Only model-checked.** The liveness properties (`EveryObservationAttended`, `DeadIsNoticed`, `DispatchedUnlessFailed`, `DispatchedWhileTrafficLasts`,
`NoMessageBlocks`, `AlertsSettleWithoutFaults`, `PollingCatchesUp`, `RecoveryCloses`, `MessagesProgress`, `PendingResolved`) and the fairness part of
`ImplementsWakeupQueue`: TLAPS does not reason about fairness and ENABLED here. `ReportsAddUp`
and `DatasetIsSound` are about what folds over finished runs and plans compute: streaks, windows of features, sorts and shuffles, of which no action of
the specification is a step (as it is for the replays), so that each would need an induction over data of its own. The conjunct of `ReportsAddUp` on timelines compares two replays of one run, with and without its rejected rows, up to the first gap that
dropped a pending streak; beyond it they may differ, as the remarks say. That the audit finds every edit holds for one edit; two may undo each other.

## 5. Remarks on the code and its documents

What the models brought out that no run is about: the code is consistent with its tests, a document or comment
is not, or a consequence is easily overlooked.

*Outbox.* Publishing again on the bus does not only repeat an SSE invalidation (`outbox_dispatcher.py:183-185`), it also
appends a second timeline entry (`timeline_event_handler.py`).

*Bridge.* After a failure the consumer goes on with the next message and its commit covers the failed one
(`worker.py:5-14`, `:72`). When a transition fails, younger ones are recorded and the worker restarts before a commit, the failed
one is recorded last and two investigations of the asset are open (`investigation_lifecycle.py:17-18`, `:45`).

*Investigations.* Two overlapping requests append RESOLVED and then ACKNOWLEDGED (`investigation_service.py:37-39`, `:67`;
`platform-architecture.md:616`).

*Reasoning.* `HealthChanged` may be announced without a change, once a slower type has become primary: the previous state is recomputed from
windowed readings, the new one from all (`business-metrics.md:122`, `observation_service.py:292`). The gate looks at everything stored, the
session at the window (`:63`, `:163`). A type that fell silent pins the assessment. `get_run_details` explains with the default
profile whatever the run used (`routers/monitoring.py:725`). The cooling hypothesis is unreachable: it asks
for a rising temperature, the rule that couples fuel flow with temperature for a falling one (`hypothesis_stage.py:18-34`, `fuel_cell_profile.py:28-42`). The identity of a recommendation is not
what `platform-architecture.md:627` says. A notification stays after recovery.

*Health.* The gauge is updated by `/health` only (`business-metrics.md:165`). `/ready` does not look at Redis and Kafka
(`docker-runtime.md:149`, `release/v1.1-scorecard.md:68`). A job longer than timeout minus interval fails `/ready`. Any fresh heartbeat hides dead workers, and rows are
never deleted. A failed heartbeat write ends the worker. The mark starts at 0.0 against a monotonic clock, so that the first heartbeat is
due at once on any host that has been up for an interval.

*Inference.* Offsets are committed while samples are in memory only (`kafka-fault-inference-worker.md:278-283` against `worker.py:71`,
`kafka_io.py:11-17`). When the report of one evicted sample fails, the outcomes behind it are not attempted (`worker.py:108`).

*Advice.* An insufficient row keeps a switch streak as it is, so that the rows before and after it add up, which the docstring
both says and denies (`state_machine.py:48-52`). A clear wins over a switch due in the same step. A cold start forgets the alert; its investigation stays OPEN until the next
transition. Cooling degradation and sensor anomaly may be corroborated by the same telemetry. The API shows the first 8 supporting ids. The
sample limit keeps the oldest samples of the window (`reasoning_bridge_service.py:220`).

*Live view.* `AiFaultInvestigationUpdated` does not invalidate the twin's cache (`monitoringEventDispatcher.ts:95-97`), and
its timeline entry is written after the SSE event. A set after an invalidation stays up to the TTL of 300 s and may hide a confirmed
transition. A twin may be torn across its queries. The first opening of the stream does not invalidate, and polling
stops with it. `cancelRefetch: false` joins an invalidation to a fetch that has read the old twin. Nobody publishes `platform_updated`. Telemetry forecasts are dropped by
the cached form. The SSE headers are sent before the subscription; the loop does not look at a disconnect while events come; failures to publish are swallowed.

*Transport.* A 409 ends the retries as a success (`http_publisher.py:60-61`), other than the docstring of the composite publisher has it. Unacknowledged retryable messages
fill the broker's window until a reconnect. A message without id and timestamp is stored once per delivery; two samples of a device in the same
millisecond collide. A fixed `SIMULATOR_RUN_ID` reuses ids after a restart. A restart begins the script again.

*Offline.* The loader promises a "complete, verified" system (`loader.py:62`), a mismatch "never silently tolerated" (`:47-49`; `runtime-inference.md:74`), but opens each file again
after hashing it (`:120`, `:129`; `:166`, `:194`), and a packaging overwrites them in place (`bundle.py:133-134`): one between the two reads makes a worker run the new pipeline with the old
policy and record the old hashes. `ArtifactsAreSound` has this exception, and no other, for the loader. The hashes of training data are taken at comparison time (`candidate.py:8-11`, `robustness/generate.py:266`). A duration that is not a multiple of the
step is rounded by the runner (`runner.py:135`), so that a ramp that ends within the duration (`run_config.py:145`) may not be complete at the last sample. Reversed ranges of operating conditions are not refused. Searches break ties by the order of the grid, and a
policy that never detects has its latency counted last.

*Evaluation.* The timeline of a representative case is replayed without the rejected rows (`error_analysis.py:83`), although the policy "must see that gap explicitly — not silently
skip over it" (`gapped_alert_evaluation.py:9-14`): with a persistence of 4, two fault rows, a rejected one and two more are a confirmed alert in the timeline of a run that is shown because it
was missed. An evaluation of a split keeps the runs that have a valid row (`robustness/evaluation.py:89-96`), so that a run whose rows were all rejected is neither among its insufficient rows, which must "never be silently excluded"
(`availability_metrics.py:4-7`), nor among the missed runs; one of a whole cohort keeps its rejected rows. A false episode that is still open at the end of its segment lasts one sample longer (`event_metrics.py:199`,
`gapped_alert_evaluation.py:183`) than `FalseEpisode` says (`event_metrics.py:37-40`: the last row's elapsed time); `EpisodesCoverAlerts` counts as the code does. And a change of class begins another
episode (`:122-132`) where the module's text has one per new alert (`:4-9`).

## 6. Plan

Done: job queue with its abstract specification, outbox, bridge, investigations, health, artifacts, live view, transport, alert machine
and advice, inference worker, reasoning pipeline, promotion studies, the replay of recorded runs and the searches of policies, each with proofs; as a model, datasets.

Next, proofs: what the reports of `AlertEvaluation` (`ReportsAddUp`) and the folds of `DatasetRuns` compute. Where a fold is a recursive function, `FoldsAgree` and `UpToBound` are a way to it,
one lemma per fold, as for the replays.

And, as models: a second bridge consumer during a rebalance; two simultaneous posts of one observation id.

## 7. Not modelled, and why

- Telemetry forecasting: a stateless call of an ONNX model. Routers and schemas: parsing and formatting; routes that
  change state are in the modules of their services. Metrics, tracing, logging: nothing is decided on them. Settings and
  migrations: what they decide (partial index, unique constraints that are there or not, defaults) is in the models. Benchmark and
  deployment scripts: tooling; the restart policy is used as fairness.
- Frontend: rendering, and the queries other than the twin's, which follow the same pattern. Monitoring reads: list, history and time-range filters.
- The plant's physics, feature values and the classifier: floating-point computation; the models take what they yield as inputs.
- Of `DatasetSpec.__post_init__`, what it refuses of fields that are not modelled or do not vary: a sensor noise next to noise regimes, one regime only, regimes of one name
  (`dataset_spec.py:277-292`). Copies into the bundle are one step per file: a reader of a half-written file fails its hash check or its parser.
- The audit's physical and separability checks, plots and units; the notes of the studies on late onset and hot start (text only).
- In the queue: `attempts` and `coalesced_count` (written, never decided on); the SQLite dialect (tests only: it serialises writers);
  an isolation level other than PostgreSQL's default; a session that breaks for one particular job every time, which leaves that
  job first in the queue (a crash of the worker is modelled); two API processes with different clocks.
- Rates per hour and means in the studies: compared through the counts and sums they are taken of.
