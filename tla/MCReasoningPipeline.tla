------------------------ MODULE MCReasoningPipeline ------------------------
(***************************************************************************)
(* One asset. Current and the slower efficiency report apart or together,  *)
(* so that the window can change the primary type; fuel flow and           *)
(* temperature report together, so that they can correlate.                *)
(*                                                                         *)
(* The operator's moves on the recommendations are rows of their own, which*)
(* no run reads; they are checked next to the runs, one at rest while the  *)
(* other goes on.                                                          *)
(***************************************************************************)
EXTENDS ReasoningPipeline, Investigation, TLC

CONSTANTS p1, p2, p3, r1, r2

MCAssets == {"fc1"}

MCTypeOrder == <<"current", "efficiency", "fuel_flow", "stack_temperature">>

Core(amps) == [t \in {"current"} |-> amps]
WithDerived(amps, eta) == [t \in {"current", "efficiency"} |-> IF t = "current" THEN amps ELSE eta]
Heat(heat) == [t \in {"stack_temperature"} |-> heat]
Fuel(flow, heat) == [t \in {"fuel_flow", "stack_temperature"} |-> IF t = "fuel_flow" THEN flow ELSE heat]

MCSamples ==
    {Core(50), Core(90), WithDerived(50, 40), WithDerived(130, 60),
     Heat(60), Fuel(30, 60), Fuel(20, 80)}

(* Requests are alike and so are recommendations. *)
MCSymmetry == Permutations(Request) \cup Permutations(Recommendation)

DecisionsInit == Init /\ ReasoningInit

DecisionsNext ==
    \/ Init /\ ReasoningNext /\ UNCHANGED vars
    \/ ReasoningInit /\ Next /\ UNCHANGED reasoningVars

DecisionsSpec ==
    DecisionsInit /\ [][DecisionsNext]_<<vars, reasoningVars>>
=============================================================================
