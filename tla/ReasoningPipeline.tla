------------------------- MODULE ReasoningPipeline -------------------------
(***************************************************************************)
(* Automatic reasoning over the observations of each asset: readings       *)
(* arrive, a pending job runs the reasoning session over the stored        *)
(* readings, and the service derives the new operational state, compares   *)
(* it with the state of the previous run and writes events to the outbox.  *)
(* Monitoring reads the stored runs; the history analyses of the reasoning *)
(* library rank them for attention.                                        *)
(*                                                                         *)
(* The job queue and the outbox are modelled in ReasoningJobs and Outbox;  *)
(* a run is one transaction of a worker here, and one that raises leaves   *)
(* only its row in reasoning_runs, which the job's failure commits.        *)
(***************************************************************************)
EXTENDS ReasoningEngine

CONSTANTS
    Assets,             \* the assets that report
    Samples,            \* what may be reported at once: functions from types to values
    MaxClock            \* bound: number of reports

ASSUME PipelineAssumption ==
    /\ MaxClock \in Nat
    /\ \A sample \in Samples : \A type \in DOMAIN sample : sample[type] \in Int

VARIABLES
    time,              \* timestamp of the latest report
    readings,           \* readings[a]: observations stored for asset a, by (timestamp, id)
    pending,            \* pending[a]: a reasoning job waits for asset a
    runs,               \* the reasoning runs in the order they started
    events              \* events written to the outbox by the runs

reasoningVars == <<time, readings, pending, runs, events>>

Direct == {"increasing", "stable", "decreasing"}
NoState == [health |-> "none", risk |-> "none"]

ReasoningInit ==
    /\ time = 0
    /\ readings = [a \in Assets |-> <<>>]
    /\ pending = [a \in Assets |-> FALSE]
    /\ runs = <<>>
    /\ events = <<>>

(* ObservationService.create for the observations of one report, each of
   which enqueues a job or joins the waiting one. *)
Observe(a, sample) ==
    LET types == Kept(TypeOrder, {i \in DOMAIN TypeOrder : TypeOrder[i] \in DOMAIN sample})
    IN /\ time < MaxClock
       /\ time' = time + 1
       /\ readings' = [readings EXCEPT ![a] = @ \o
                         [i \in DOMAIN types |->
                            [type |-> types[i], at |-> time + 1, value |-> sample[types[i]]]]]
       /\ pending' = [pending EXCEPT ![a] = TRUE]
       /\ UNCHANGED <<runs, events>>

----------------------------------------------------------------------------

(* _can_run_reasoning, on everything stored for the asset. *)
CanRunReasoning(obs) == Len(obs) >= 2 /\ Len(Primary(obs)) >= 2

(* Completed runs of an asset are the ones with an index row. *)
Indexed(a) == {n \in DOMAIN runs : runs[n].asset = a /\ runs[n].status = "completed"}

LatestRun(a) == Max(Indexed(a))

(* _compute_operational_state_for_run: from the readings the run indexed. *)
StateForRun(run) == OperationalState(run.obs, run.plan, run.structured)

PreviousState(a) == IF Indexed(a) = {} THEN NoState ELSE StateForRun(runs[LatestRun(a)])

PreviousRecommendation(a) ==
    IF Indexed(a) = {} THEN "none" ELSE runs[LatestRun(a)].plan.recommendation

PreviousNotification(a) ==
    IF Indexed(a) = {} THEN [severity |-> "NONE"] ELSE Notify(Recommend(PreviousState(a)))

(* ReasoningSession.run: window, signals, hypotheses, assessment, plan. What
   was stored when it ran, and the state announced, are kept to compare with. *)
Conclusions(a, obs, bounded, s, structured) ==
    [asset |-> a, status |-> "completed", obs |-> bounded, assessment |-> Assess(s),
     structured |-> structured, plan |-> PlanningOutcome(Words(s.direction, s.level)),
     hypotheses |-> Hypotheses(s, bounded), confidence |-> Confidence(structured, s.primary),
     from |-> obs, announced |-> NoState]

Reasoned(a, obs, bounded, s) == Conclusions(a, obs, bounded, s, StructuredAssessment(s))

Session(a, obs) ==
    LET bounded == BoundRecent(obs, Window)
    IN Reasoned(a, obs, bounded, Signals(bounded, FuelCellProfile))

FailedRun(a, obs) == [asset |-> a, status |-> "failed", from |-> obs]

(* TrendChanged: the trailing trends with and without the newest reading. *)
Turned(old, new) ==
    old.direction # new.direction /\ new.stability >= 70 /\ new.direction # "stable"

TrendChanged(obs) ==
    LET primary == Primary(obs)
        before == Recent(Front(primary), MinSamples)
        after == Recent(primary, MinSamples)
    IN /\ Len(before) >= MinSamples
       /\ Len(primary) >= ShortHistory
       /\ Turned(ComputeSignals(before), ComputeSignals(after))

Event(a, run, kind, old, new) ==
    [asset |-> a, run |-> run, kind |-> kind, old |-> old, new |-> new]

If(cond, event) == IF cond THEN <<event>> ELSE <<>>

(* Mutant: a change of risk is announced only along with one of health. *)
TransitionsOfHealth(a, run, old, new) ==
    IF old # NoState /\ old.health # new.health
    THEN <<Event(a, run, "HealthChanged", old.health, new.health)>>
           \o If(old.risk # new.risk, Event(a, run, "RiskChanged", old.risk, new.risk))
    ELSE <<>>

Transitions(a, run, old, new) ==
    If(old # NoState /\ old.health # new.health,
       Event(a, run, "HealthChanged", old.health, new.health))
      \o If(old # NoState /\ old.risk # new.risk,
            Event(a, run, "RiskChanged", old.risk, new.risk))

(* What changed since the previous run, in the order it is written. *)
RunEvents(a, run, result, obs, old, new) ==
    LET advice == PreviousRecommendation(a)
        notice == Notify(Recommend(new))
    IN <<Event(a, run, "ReasoningStarted", "", "")>>
         \o If(TrendChanged(obs), Event(a, run, "TrendChanged", "", ""))
         \o If(advice # "none" /\ advice # result.plan.recommendation,
               Event(a, run, "RecommendationUpdated", advice, result.plan.recommendation))
         \o Transitions(a, run, old, new)
         \o If(notice.severity # "NONE" /\ notice # PreviousNotification(a),
               Event(a, run, "NotificationCreated", "", notice.id))
         \o <<Event(a, run, "ReasoningCompleted", "", "")>>

(* The gate returns early: too little to reason about. *)
SkipReasoning(a) ==
    /\ pending[a]
    /\ ~CanRunReasoning(readings[a])
    /\ pending' = [pending EXCEPT ![a] = FALSE]
    /\ UNCHANGED <<time, readings, runs, events>>

(* _run_reasoning_for_asset when the session goes through: the new state is
   computed from everything stored, the previous one from the indexed run. *)
Announce(a, obs, result, new) ==
    /\ runs' = Append(runs, [result EXCEPT !.announced = new])
    /\ events' = events \o RunEvents(a, Len(runs) + 1, result, obs, PreviousState(a), new)

(* _compute_operational_state_from_result: everything stored, not the window. *)
StateFromResult(obs, result) == OperationalState(obs, result.plan, result.structured)

Conclude(a, obs, result) == Announce(a, obs, result, StateFromResult(obs, result))

RunReasoning(a) ==
    LET obs == readings[a]
    IN /\ pending[a]
       /\ CanRunReasoning(obs)
       /\ Analysable(BoundRecent(obs, Window))
       /\ pending' = [pending EXCEPT ![a] = FALSE]
       /\ Conclude(a, obs, Session(a, obs))
       /\ UNCHANGED <<time, readings>>

(* The session raises after it has saved its run: the job fails. *)
FailReasoning(a) ==
    LET obs == readings[a]
    IN /\ pending[a]
       /\ CanRunReasoning(obs)
       /\ ~Analysable(BoundRecent(obs, Window))
       /\ pending' = [pending EXCEPT ![a] = FALSE]
       /\ runs' = Append(runs, FailedRun(a, obs))
       /\ UNCHANGED <<time, readings, events>>

ReasoningNext ==
    \E a \in Assets :
        \/ \E sample \in Samples : Observe(a, sample)
        \/ SkipReasoning(a)
        \/ RunReasoning(a)
        \/ FailReasoning(a)

ReasoningSpec == ReasoningInit /\ [][ReasoningNext]_reasoningVars

----------------------------------------------------------------------------
(* Monitoring reads. *)

(* get_operational_state and get_recommendation of the latest indexed run. *)
ShownState(a) == StateForRun(runs[LatestRun(a)])
ShownRecommendation(a) == Recommend(ShownState(a))

(* get_latest_notification: the newest one on the asset's timeline. *)
ShownNotification(a) ==
    LET created == {i \in DOMAIN events :
                      events[i].asset = a /\ events[i].kind = "NotificationCreated"}
    IN IF created = {} THEN "none" ELSE events[Max(created)].new

(* _build_asset_history_item, and the bounded history, oldest first. *)
HistoryItem(n) ==
    [run |-> n, assessment |-> runs[n].assessment, structured |-> runs[n].structured,
     plan |-> runs[n].plan]

HistoryFor(a, limit) ==
    LET newest == Recent(Kept([n \in DOMAIN runs |-> n], Indexed(a)), limit)
    IN [i \in DOMAIN newest |-> HistoryItem(newest[i])]

(* get_latest_for_asset, and what the router makes of there being none: one of
   two different 404s. *)
LatestFor(a) ==
    IF readings[a] = <<>> \/ Indexed(a) = {} THEN {} ELSE {HistoryItem(LatestRun(a))}

LatestResponse(a) ==
    CASE LatestFor(a) # {} -> CHOOSE item \in LatestFor(a) : TRUE
      [] LatestFor(a) = {} /\ readings[a] = <<>> -> "asset not found"
      [] OTHER -> "no reasoning history"

(* The router's get_run_details reasons again, with the default profile, and
   explains the stored plan. *)
Explanation(run, s, words) ==
    [structured |-> StructuredAssessment(s), hypotheses |-> Hypotheses(s, run.obs),
     confidence |-> Confidence(StructuredAssessment(s), s.primary),
     decision |-> ExplainableDecision(words, run.obs, run.plan, run.structured)]

RunDetails(run) ==
    Explanation(run, Signals(run.obs, DefaultProfile),
                Words(run.assessment.direction, run.assessment.level))

(* The service's get_run_details: a run without an index row is not found. *)
ShownRun(n) == IF runs[n].status = "completed" THEN RunDetails(runs[n]) ELSE "not found"

----------------------------------------------------------------------------
(* The history analyses, over every run of the registry. *)
Completed == {n \in DOMAIN runs : runs[n].status = "completed"}

(* Replaying a run without an index row raises. *)
HistoryReadable == Completed = DOMAIN runs

PriorityRank(plan) == IF plan.priority = "high" THEN 3 ELSE 1

Matching(n) ==
    {m \in 1 .. n - 1 : /\ runs[m].assessment = runs[n].assessment
                        /\ runs[m].plan.priority = runs[n].plan.priority}

Escalated(n) == n > 1 /\ PriorityRank(runs[n].plan) > PriorityRank(runs[n - 1].plan)

BecameLessStable(n) ==
    LET Unstable(m) == "unstable" \in Words(runs[m].structured.direction, runs[m].structured.level)
    IN n > 1 /\ Unstable(n) /\ ~Unstable(n - 1)

(* Mutant: every earlier match counts. *)
ScoreByCount(n) ==
    PriorityRank(runs[n].plan) + Cardinality(Matching(n)) + (IF Escalated(n) THEN 1 ELSE 0)

AttentionScore(n) ==
    PriorityRank(runs[n].plan) + (IF Matching(n) # {} THEN 1 ELSE 0)
      + (IF Escalated(n) THEN 1 ELSE 0)

(* AttentionQueue.rank: by score, the newest first among equals. *)
RankedBefore(m, n) ==
    \/ AttentionScore(m) > AttentionScore(n)
    \/ AttentionScore(m) = AttentionScore(n) /\ m > n

TimelineTrend ==
    LET first == PriorityRank(runs[1].plan)
        last == PriorityRank(Last(runs).plan)
    IN CASE Len(runs) < 2 -> "stable"
         [] Len(runs) >= 2 /\ last > first -> "worsening"
         [] Len(runs) >= 2 /\ last < first -> "improving"
         [] OTHER -> "stable"

----------------------------------------------------------------------------
(* Properties. *)

Kinds == {"cooling_degradation", "hydrogen_supply", "sensor_drift", "load_change", "unknown"}

ReasoningTypeOK ==
    /\ time \in 0 .. MaxClock
    /\ \A a \in Assets : \A i \in DOMAIN readings[a] : readings[a][i].at \in 1 .. time
    /\ \A n \in DOMAIN runs :
         /\ runs[n].asset \in Assets /\ runs[n].status \in {"completed", "failed"}
         /\ runs[n].status = "completed" =>
              /\ runs[n].structured.direction \in Direct
              /\ runs[n].confidence \in 0 .. 100
              /\ runs[n].announced.score \in 0 .. 100
              /\ \A i \in DOMAIN runs[n].hypotheses : runs[n].hypotheses[i].kind \in Kinds
    /\ \A i \in DOMAIN events : events[i].run \in Completed

(* operational_state_engine.py leaves variation out of the score because a
   high variation always makes the plan's priority high: the texts of the
   assessor and the words of the planner agree on it. *)
HighVariationIsHighPriority ==
    \A n \in Completed : runs[n].structured.level = "high" => runs[n].plan.priority = "high"

(* A notification says CRITICAL only when the health it was made from reads
   CRITICAL, and a plan of high priority is never left without one being open:
   recommendation and notification do not overclaim or stay silent. *)
SeverityMatchesHealth ==
    \A n \in Completed :
        LET notice == Notify(Recommend(runs[n].announced))
        IN /\ (notice.severity = "CRITICAL") = (runs[n].announced.health = "CRITICAL")
           /\ runs[n].plan.priority = "high" => notice.severity # "NONE"

(* _can_run_reasoning is enough without the window: a run that was let through
   raises only when the window has dropped readings of its asset. *)
GateFailsOnlyByWindow ==
    \A n \in DOMAIN runs \ Completed :
        Len(BoundRecent(runs[n].from, Window)) < Len(runs[n].from)

(* Recovery is reflected: once every type an asset has ever reported has been
   flat for a whole window, the plan of the next run has low priority. *)
Flat(obs) == Cardinality({obs[i].value : i \in DOMAIN obs}) = 1

SettledAssetIsLow ==
    \A n \in Completed :
        (\A i \in DOMAIN runs[n].obs : Flat(OfType(runs[n].obs, runs[n].obs[i].type)))
          => /\ runs[n].plan.priority = "low"
             /\ runs[n].announced.health = "NORMAL" /\ runs[n].announced.risk = "LOW"

(* Health and risk transitions form a chain per asset as long as the window
   keeps the primary type: what an event says the state was is what the run
   before it announced, and a change between two runs is announced. *)
PrimaryKept(run) == run.obs[1].type = run.from[1].type

Before(n) == {m \in Completed : m < n /\ runs[m].asset = runs[n].asset}

Announces(n, kind) ==
    {<<events[i].old, events[i].new>> : i \in {j \in DOMAIN events :
        events[j].run = n /\ events[j].kind = kind}}

TransitionsChain ==
    \A n \in Completed : Before(n) # {} =>
        LET m == Max(Before(n))
            Chained(was, is, kind) ==
              Announces(n, kind) = IF was = is THEN {} ELSE {<<was, is>>}
        IN PrimaryKept(runs[m]) =>
             /\ Chained(runs[m].announced.health, runs[n].announced.health, "HealthChanged")
             /\ Chained(runs[m].announced.risk, runs[n].announced.risk, "RiskChanged")

(* As long as the window keeps the primary type of an asset's runs, an asset
   whose shown recommendation asks for a notification has one: the newest
   NotificationCreated of the asset carries that recommendation. *)
NotificationIsCurrent ==
    \A a \in Assets :
        /\ Indexed(a) # {}
        /\ \A n \in Indexed(a) : PrimaryKept(runs[n])
        /\ Notify(ShownRecommendation(a)).severity # "NONE"
        => ShownNotification(a) = ShownRecommendation(a)

(* A history of any length shows the run that is shown as the asset's latest
   last, and every run since the oldest it shows: a limit drops the oldest. *)
HistoryEndsWithLatest ==
    \A a \in Assets : Indexed(a) # {} =>
        \A limit \in 1 .. Len(runs) :
            LET history == HistoryFor(a, limit)
            IN /\ Last(history) = LatestResponse(a)
               /\ \A n \in Indexed(a) : n > history[1].run =>
                     \E i \in DOMAIN history : history[i].run = n

(* The analyses of a readable history tell one story: a run that became less
   stable asks for attention, and a timeline that worsened has a run that
   escalated over the one before it. *)
HistoryIsCoherent ==
    HistoryReadable /\ runs # <<>> =>
        /\ \A n \in DOMAIN runs : BecameLessStable(n) => runs[n].plan.priority = "high"
        /\ TimelineTrend = "worsening" => \E n \in DOMAIN runs : Escalated(n)

(* A run that found rising stress or instability is ranked before every run
   of low priority, however often the latter recurred. *)
HighOutranksLow ==
    HistoryReadable =>
        \A m, n \in DOMAIN runs :
            runs[m].plan.priority = "high" /\ runs[n].plan.priority = "low" => RankedBefore(m, n)

(* With the fuel-cell rules no run names cooling degradation: the rule that
   couples fuel flow with temperature asks for a falling temperature, the
   hypothesis for a rising one. *)
CoolingIsNeverNamed ==
    \A n \in Completed : \A i \in DOMAIN runs[n].hypotheses :
        runs[n].hypotheses[i].kind # "cooling_degradation"

(* Reasoning again for the details of a run finds the trend and the variation
   the run stored, and is never less confident: only the relations between
   measurements are lost with the default profile. The outcome it promises and
   the alternative it offers first go with the plan and the variation, and the
   decision never lacks a kind of evidence. *)
Agree(details, run) ==
    /\ details.structured.direction = run.structured.direction
    /\ details.structured.level = run.structured.level
    /\ details.confidence >= run.confidence
    /\ details.structured.correlations => run.structured.correlations
    /\ (details.decision.outcome = "stabilise") = (run.plan.priority = "high")
    /\ (Head(details.decision.alternatives) = "sensor_drift")
         = (run.structured.level = "high")
    /\ Len(details.decision.evidence) = 5

DetailsAgree == \A n \in Completed : Agree(ShownRun(n), runs[n])

(* What one run concludes is consistent, with itself, with the readings it was
   given, with the notification made from it and with the details shown later. *)
ConclusionsAgree ==
    /\ ReasoningTypeOK
    /\ HighVariationIsHighPriority /\ SeverityMatchesHealth
    /\ SettledAssetIsLow /\ GateFailsOnlyByWindow
    /\ CoolingIsNeverNamed /\ DetailsAgree

(* What is announced follows the runs: transitions chain from one run to the
   next, and the asset's notification is that of its latest run. *)
AnnouncementsFollowRuns == TransitionsChain /\ NotificationIsCurrent

(* The analyses of a history of runs agree on what has worsened and what needs
   attention first, and what is shown of it ends with what is shown as latest. *)
HistoryTellsOneStory ==
    HistoryIsCoherent /\ HighOutranksLow /\ HistoryEndsWithLatest
=============================================================================
