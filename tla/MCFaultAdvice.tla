--------------------------- MODULE MCFaultAdvice ---------------------------
(***************************************************************************)
(* The three fault classes around the healthy one, in alphabetical order,  *)
(* probabilities in halves, rows that are clear, that tie two faults, or a *)
(* fault and the healthy class, and series that rise, fall, stay, are too few  *)
(* or too many.                                                            *)
(***************************************************************************)
EXTENDS FaultAdvice

MCClasses == <<1, 2, 3, 4>>

MCPredictions == {<<0, 2, 0, 0>>, <<0, 0, 0, 2>>, <<1, 1, 0, 0>>, <<0, 0, 1, 1>>}

MCFaultName == (1 :> "cooling_degradation") @@ (3 :> "hydrogen_supply_issue")
            @@ (4 :> "sensor_anomaly")

MCSeries == {<<>>, <<0>>, <<0, 1>>, <<1, 0>>, <<1, 0, 1>>}
=============================================================================
