------------------------- MODULE MCArtifactPipeline -------------------------
(***************************************************************************)
(* Two terminals, which are interchangeable, run the stages. What the      *)
(* dataset stage does inside is checked next to them on the specifications *)
(* of MCDatasetRuns, one at rest while the other goes on.                  *)
(***************************************************************************)
EXTENDS ArtifactPipeline, MCDatasetRuns, TLC

CONSTANTS t1, t2

TwoTerminals == Permutations({t1, t2})

(* The dataset at rest: nothing generated, and one specification to give. *)
AtRest ==
    /\ phase = "spec" /\ spec = Ranged
    /\ stream = [s1 |-> Draw(0), s2 |-> Draw(0), reversed |-> FALSE]

OfflineInit == Init /\ PipelineInit

OfflineNext ==
    \/ AtRest /\ PipelineNext /\ UNCHANGED vars
    \/ PipelineInit /\ Next /\ UNCHANGED pipelineVars

OfflineSpec ==
    OfflineInit /\ [][OfflineNext]_<<vars, pipelineVars>>
=============================================================================
