--------------------------- MODULE MCDatasetRuns ---------------------------
(***************************************************************************)
(* Small dataset specifications: one to seven runs of two or three samples *)
(* on a plant of two assets, the last ones with a defect each.             *)
(***************************************************************************)
EXTENDS DatasetRuns

HealthyPlan(n) == [scenario |-> Healthy, count |-> n, start |-> None, range |-> NoRange,
                   ramp |-> None, severities |-> {}]

FaultPlan(c, n, start, range, ramp) ==
    [scenario |-> c, count |-> n, start |-> start, range |-> range, ramp |-> ramp,
     severities |-> {50, 100}]

Grid(a, b, step) == [min |-> a, max |-> b, step |-> step]

Shares(a, b, c) == [train |-> a, validation |-> b, test |-> c]

SpecOf(plans, seeds, duration, shares) ==
    [plans |-> plans, seeds |-> seeds, targets |-> <<"fc1">>, duration |-> duration,
     dt |-> 10, proportions |-> shares, load |-> [baselines |-> {50, 60}, amplitude |-> 15],
     noise |-> 0, regimes |-> {}]

Ranged == SpecOf(<<HealthyPlan(1),
                   FaultPlan("cooling_degradation", 1, None, Grid(5, 12, 5), 10)>>,
                 <<"s1", "s2">>, 30, Shares(50, 50, 0))

Biased == SpecOf(<<FaultPlan("sensor_anomaly", 2, 10, NoRange, 15)>>, <<"s1", "s1">>, 40,
                 Shares(70, 15, 15))

MCSpecs ==
    {Ranged,
     [Ranged EXCEPT !.regimes = {0, 80}, !.targets = <<"fc2", "fc1">>],
     Biased,
     [Biased EXCEPT !.noise = 80, !.seeds = <<"s2", "s1">>],
     \* three and four runs in one stratum, few of them for the smaller splits
     SpecOf(<<HealthyPlan(3)>>, <<"s1", "s2", "s1">>, 10, Shares(90, 5, 5)),
     SpecOf(<<HealthyPlan(4)>>, <<"s1", "s2", "s1", "s2">>, 10, Shares(34, 33, 33)),
     SpecOf(<<HealthyPlan(3), FaultPlan("hydrogen_supply_issue", 4, 0, NoRange, 10)>>,
            <<"s1", "s2", "s1", "s2", "s1", "s2", "s1">>, 20, Shares(80, 20, 0)),
     \* a duration between two samples, and another cadence
     [Biased EXCEPT !.duration = 25],
     [Ranged EXCEPT !.dt = 15],
     \* rejected: a ramp past the end, a seed too few, a load out of its margins
     [Biased EXCEPT !.duration = 20],
     [Ranged EXCEPT !.duration = 15],
     [Ranged EXCEPT !.seeds = <<"s1">>],
     [Ranged EXCEPT !.load = [baselines |-> {50, 90}, amplitude |-> 15]],
     \* aborted: an asset the plant does not have
     [Ranged EXCEPT !.targets = <<"fc1", "fc9">>, !.plans[1].count = 2,
                    !.seeds = <<"s1", "s2", "s1">>]}

Draw(n) == [start |-> n, severity |-> n + 1, load |-> n, noise |-> 1]

MCStreams ==
    {[s1 |-> Draw(0), s2 |-> Draw(0), reversed |-> FALSE]}
      \cup {[s1 |-> Draw(n), s2 |-> Draw(1 - n), reversed |-> flip] :
              n \in {0, 1}, flip \in BOOLEAN}

MCFleet == {"fc1", "fc2"}
MCWindows == {2, 3}
=============================================================================
