------------------------- MODULE MCAlertEvaluation -------------------------
(***************************************************************************)
(* A fault run and a healthy run of the validation split, and a fault run  *)
(* of the test split; rows that are clear, in doubt, or not valid. The     *)
(* rows of the three runs together are bounded by MaxTotal.                *)
(*                                                                         *)
(* Next to them, the studies that conclude from finished evaluations.  The *)
(* two share nothing but the evaluation functions, so they are checked     *)
(* side by side: one does not start once the other has.                    *)
(***************************************************************************)
EXTENDS AlertEvaluation, PromotionStudy

CONSTANTS v1, v2, t1, pilot, combined, highLoad, highNoise, hotStart, f1, f2

MCClasses == <<1, 2, 3>>

MCInfo == (v1 :> [split |-> "validation", fault |-> 1, onset |-> 3, ramp |-> 1])
       @@ (v2 :> [split |-> "validation", fault |-> 2, onset |-> 1, ramp |-> 1])
       @@ (t1 :> [split |-> "test", fault |-> 1, onset |-> 1, ramp |-> 1])

MCMaxRows == (v1 :> 5) @@ (v2 :> 4) @@ (t1 :> 1)

MaxTotal == 5       \* bound: the rows recorded in all, a test row counting twice

Total(s) == Len(s[v1]) + Len(s[v2]) + 2 * Len(s[t1])

MCRows == {<<4, 0, 0>>, <<0, 4, 0>>, <<1, 1, 2>>, Insufficient}

MCGrid == <<StateMachineConfig(2, 1, 2, 1), StateMachineConfig(2, 2, 2, 1),
            StateMachineConfig(3, 1, 2, 1)>>

MCFrozen == StateMachineConfig(2, 2, 2, 2)

MCPersistence == <<1, 2>>

MCThreshold == <<2, 3>>

----------------------------------------------------------------------------

MCShift == <<highLoad, highNoise, hotStart>>

Alerts(rate, m1, m2, w, latency) ==
    [rate |-> rate, missed |-> (f1 :> m1) @@ (f2 :> m2),
     wrong |-> (f1 :> m1 + w) @@ (f2 :> m2), latency |-> latency]

RowMetrics(accuracy, r1, r2, rejected) ==
    [accuracy |-> accuracy, recall |-> (f1 :> r1) @@ (f2 :> r2), rejected |-> rejected]

MCBaseline ==
       (pilot :> Evaluated(RowMetrics(80, 80, 90, 0), Alerts(5, 0, 0, 0, 6)))
    @@ (highNoise :> Evaluated(RowMetrics(60, 60, 70, 0), Alerts(15, 1, 0, 0, 8)))
    @@ (combined :> Evaluated(RowMetrics(50, 60, 70, 0), Alerts(15, 1, 1, 0, 9)))

(* One result on each side of every bound, one metric at a time; hot start *)
(* meets them in combination.                                              *)
MCShiftResults ==
    LET few == {Evaluated(RowMetrics(80, 80, 90, 0), Alerts(0, 0, 0, 0, 6)),
                Evaluated(RowMetrics(74, 80, 90, 21), Alerts(0, 0, 0, 0, 6)),
                Evaluated(RowMetrics(62, 80, 90, 0), Alerts(4, 0, 0, 0, NoValue))}
    IN  [c \in {highLoad, highNoise} |-> few] @@
        (combined :> {e \in few : e.accuracy # 74}) @@
        (hotStart :> {Evaluated(RowMetrics(a, r, 90, 0), Alerts(rate, m, 0, 0, 7)) :
                        a \in {40, 62, 68, 74}, r \in {20, 21},
                        rate \in {5, 10, 51}, m \in {0, 1, 3}})

MCCandidate ==
       (pilot :> {RowMetrics(a, r, 90, 0) : a \in {76, 77}, r \in {20, 21}})
    @@ (highNoise :> {RowMetrics(a, r, 90, 0) : a \in {61, 62, 63}, r \in {21}})
    @@ (combined :> {RowMetrics(a, 60, 90, 0) : a \in {51, 52}})

MCCandidateAlerts ==
       (pilot :> {Alerts(10, 0, 0, 0, 6), Alerts(11, 0, 0, 0, 6)})
    @@ (highNoise :> {Alerts(10, 1, 0, 1, 6), Alerts(11, 1, 0, 0, 6),
                      Alerts(10, 1, 0, 2, 6)})
    @@ (combined :> {Alerts(11, 1, 1, 0, 6), Alerts(11, 1, 1, 2, NoValue)})

StudiesInit == EvaluationInit /\ PromotionInit

StudiesNext ==
    \/ /\ PromotionInit /\ EvaluationNext /\ UNCHANGED promotionVars
       /\ Total(recorded') <= MaxTotal
    \/ EvaluationInit /\ PromotionNext /\ UNCHANGED evaluationVars

StudiesSpec == StudiesInit /\ [][StudiesNext]_<<evaluationVars, promotionVars>>
=============================================================================
