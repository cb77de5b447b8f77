-------------------------- MODULE ArtifactPipeline --------------------------
(***************************************************************************)
(* The offline pipeline: command-line stages that read the directories of  *)
(* earlier stages and replace their own, up to the bundle that the         *)
(* inference worker loads. Stages are separate processes with no lock.     *)
(*                                                                         *)
(* Every stage checks that its output may be replaced, loads its inputs    *)
(* and computes, writes a temporary directory, removes the old output and  *)
(* renames the temporary directory into its place. What a file holds is    *)
(* told apart by the number of the invocation that produced it, which is   *)
(* what its sha256 stands for.                                             *)
(***************************************************************************)
EXTENDS Naturals, FiniteSets

CONSTANTS
    Proc,           \* terminals in which a stage may be running
    MaxRuns         \* bound: invocations after the first run of the pipeline

ASSUME PipelineAssumption == MaxRuns \in Nat

Cohort == {"ood_a", "ood_b"}
Stage == {"dataset", "features", "models", "alert_policy", "calibration",
          "shift_study", "comparison", "selection"} \cup Cohort

VARIABLES
    dir,            \* dir[s]: the output directory of stage s
    bundle,         \* the runtime bundle, written file by file
    proc,           \* proc[p]: the stage that runs in terminal p
    runs,           \* invocations so far
    runtime,        \* the loader of the inference worker, and what it has loaded
    selected,       \* history: <<pipeline, policy>> pairs a selection evaluated
    ever,           \* history: stages that have had a complete output
    interrupted,    \* history: outputs whose replacement was cut short
    mixed           \* history: a selection or packaging whose source was replaced

pipelineVars == <<dir, bundle, proc, runs, runtime, selected, ever,
          interrupted, mixed>>

NoVersion == 0           \* the version of what is not there
Version == 0 .. MaxRuns + 2

(* What the directory of a stage records, as far as another stage reads it. *)
Artifact ==
    [ver : Version, whole : BOOLEAN,
     dataset : Version, features : Version,     \* manifest hashes recorded in it
     pipeline : Version,                        \* the pipeline file it holds
     judged : Version,                          \* the pipeline its metadata names
     policy : Version,                          \* the alert policy it used or chose
     promoted : BOOLEAN]

Absent == [ver |-> NoVersion, whole |-> FALSE, dataset |-> NoVersion, features |-> NoVersion,
           pipeline |-> NoVersion, judged |-> NoVersion, policy |-> NoVersion, promoted |-> FALSE]

Blank(v) == [Absent EXCEPT !.ver = v, !.whole = TRUE]

Idle == [pc |-> "idle", stage |-> "dataset", overwrite |-> FALSE, since |-> NoVersion,
         out |-> Absent, raced |-> FALSE]

EmptyBundle == [pipeline |-> NoVersion, policy |-> NoVersion,
                metaPipeline |-> NoVersion, metaPolicy |-> NoVersion]

(* The files a loader checks, and reads once more to load them. *)
File == {"pipeline", "policy"}

(* What the worker has of the bundle; swapped is a history variable: the    *)
(* files that a packaging replaced between their check and their loading.  *)
Runtime ==
    [pc : {"off", "read", "model", "policy", "opened", "running"},
     pipeline : Version, policy : Version, metaPipeline : Version, metaPolicy : Version,
     swapped : SUBSET File]

NotRunning == [pc |-> "off", pipeline |-> NoVersion, policy |-> NoVersion,
               metaPipeline |-> NoVersion, metaPolicy |-> NoVersion, swapped |-> {}]

PipelineTypeOK ==
    /\ dir \in [Stage -> Artifact]
    /\ \A f \in DOMAIN bundle : bundle[f] \in Version
    /\ runtime \in Runtime
    /\ \A p \in Proc :
         /\ proc[p].pc \in {"idle", "loaded", "written", "removing", "removed",
                            "packing", "piped", "copied", "hashed"}
         /\ proc[p].stage \in Stage
         /\ proc[p].out \in Artifact
         /\ proc[p].pc \in {"written", "removing", "removed"} =>
              proc[p].out.whole /\ proc[p].out.ver > NoVersion
    /\ runs \in 0 .. MaxRuns
    /\ \A s \in Stage : dir[s].whole => dir[s].ver > NoVersion

(* The files of a directory are all there: every loader insists on it. *)
Whole(s) == dir[s].whole

(* What the first run of stage s in an ordered pipeline left behind. *)
FirstOutput(s) ==
    IF s = "dataset" THEN Blank(1)
    ELSE [Blank(1) EXCEPT !.dataset = 1, !.features = 1, !.pipeline = 1, !.judged = 1,
                          !.policy = 1, !.promoted = (s = "selection")]

(* The models were trained, and compared, once more since then. *)
LaterOutput(s) ==
    CASE s = "models" -> [FirstOutput(s) EXCEPT !.ver = 2, !.pipeline = 2, !.judged = 2,
                                                !.policy = 2]
      [] s = "comparison" -> [FirstOutput(s) EXCEPT !.ver = 2, !.pipeline = 2, !.judged = 2]
      [] OTHER -> FirstOutput(s)

(* and a policy was selected for them. *)
LatestOutput(s) ==
    IF s = "selection"
    THEN [FirstOutput(s) EXCEPT !.ver = 2, !.pipeline = 2, !.judged = 2, !.policy = 2]
    ELSE LaterOutput(s)

(***************************************************************************)
(* There is only a dataset; or every stage has run in order, and models    *)
(* were trained and compared again and await a policy, or have one and     *)
(* await their packaging.                                                  *)
(***************************************************************************)
PipelineInit ==
    /\ dir \in {[s \in Stage |-> IF s = "dataset" THEN Blank(1) ELSE Absent],
                [s \in Stage |-> LaterOutput(s)], [s \in Stage |-> LatestOutput(s)]}
    /\ bundle = IF Whole("selection")
                THEN [pipeline |-> 1, policy |-> 1, metaPipeline |-> 1, metaPolicy |-> 1]
                ELSE EmptyBundle
    /\ proc = [p \in Proc |-> Idle]
    /\ runs = 0
    /\ runtime = NotRunning
    /\ selected = {<<v, v>> : v \in 1 .. dir["selection"].ver}
    /\ ever = {s \in Stage : Whole(s)} /\ interrupted = {} /\ mixed = FALSE

----------------------------------------------------------------------------
(* Mutant: an existing output is replaced whether or not that was asked for. *)
AlwaysMayReplace(s, overwrite) == TRUE

(* The check at the start of a stage; what rmtree has begun on may be empty. *)
MayReplace(s, overwrite) == Whole(s) => overwrite

(* A stage has passed its check, read its inputs and computed. *)
Start(p, s, overwrite, out) ==
    /\ proc[p].pc = "idle" /\ runs < MaxRuns
    /\ MayReplace(s, overwrite)
    /\ runs' = runs + 1
    /\ proc' = [proc EXCEPT ![p] =
         [pc |-> "loaded", stage |-> s, overwrite |-> overwrite,
          since |-> dir[s].ver, out |-> [out EXCEPT !.whole = FALSE], raced |-> FALSE]]
    /\ UNCHANGED <<dir, bundle, runtime, ever, interrupted, mixed>>

NewVersion == runs + 3

GenerateDataset(p, overwrite) ==
    /\ Start(p, "dataset", overwrite, Blank(NewVersion))
    /\ UNCHANGED selected

GenerateFeatures(p, overwrite) ==
    /\ Whole("dataset")
    /\ Start(p, "features", overwrite,
             [Blank(NewVersion) EXCEPT !.dataset = dir["dataset"].ver])
    /\ UNCHANGED selected

(***************************************************************************)
(* load_experiment_dataset: the feature files against their own manifest,  *)
(* then the run metadata of the dataset directory, which is not compared   *)
(* with the dataset the features were computed from.                       *)
(***************************************************************************)
LoadExperimentDataset == Whole("features") /\ Whole("dataset")

(* What a stage that trains on the features records of its input. *)
Trained(v) ==
    [Blank(v) EXCEPT !.dataset = dir["dataset"].ver, !.features = dir["features"].ver,
                     !.pipeline = v, !.judged = v, !.policy = v]

GenerateModels(p, overwrite) ==
    /\ LoadExperimentDataset
    /\ Start(p, "models", overwrite, Trained(NewVersion))
    /\ UNCHANGED selected

GenerateAlertPolicy(p, overwrite) ==
    /\ LoadExperimentDataset
    /\ Start(p, "alert_policy", overwrite, Trained(NewVersion))
    /\ UNCHANGED selected

GenerateCalibration(p, overwrite) ==
    /\ LoadExperimentDataset
    /\ Start(p, "calibration", overwrite, Trained(NewVersion))
    /\ UNCHANGED selected

(* load_frozen_artifacts: model and policy, compared by class order only. *)
LoadFrozenArtifacts == Whole("models") /\ Whole("alert_policy")

RunOodEvaluation(p, c, overwrite) ==
    /\ LoadFrozenArtifacts
    /\ LoadExperimentDataset
    /\ Start(p, c, overwrite,
             [Blank(NewVersion) EXCEPT !.judged = dir["models"].pipeline,
                                       !.policy = dir["alert_policy"].policy])
    /\ UNCHANGED selected

(* load_cohorts: all cohorts carry the fingerprint of one frozen system. *)
LoadCohorts ==
    /\ \A c \in Cohort : Whole(c)
    /\ \A c, e \in Cohort : /\ dir[c].judged = dir[e].judged
                            /\ dir[c].policy = dir[e].policy

RunShiftStudy(p, overwrite) ==
    /\ LoadCohorts
    /\ Start(p, "shift_study", overwrite,
             [Blank(NewVersion) EXCEPT !.judged = dir["ood_a"].judged])
    /\ UNCHANGED selected

(* load_model_artifacts: the artifact agrees with itself and the schema. *)
LoadModelArtifacts == Whole("models")

RunRobustnessComparison(p, overwrite) ==
    /\ LoadModelArtifacts
    /\ LoadExperimentDataset
    /\ Start(p, "comparison", overwrite,
             [Blank(NewVersion) EXCEPT !.judged = dir["models"].pipeline])
    /\ UNCHANGED selected

(* load_frozen_candidate: three hashes must agree. *)
LoadFrozenCandidate ==
    /\ Whole("comparison") /\ Whole("dataset") /\ Whole("features")
    /\ dir["comparison"].pipeline = dir["comparison"].judged
    /\ dir["comparison"].dataset = dir["dataset"].ver
    /\ dir["comparison"].features = dir["features"].ver

(***************************************************************************)
(* run_policy_selection freezes the candidate, searches a policy for it on *)
(* the validation split, and evaluates the two on the other cohorts, which *)
(* may end in a promotion or not, or find no policy.                       *)
(***************************************************************************)
RunPolicySelection(p, overwrite) ==
    /\ LoadFrozenCandidate
    /\ LoadModelArtifacts
    /\ \E promoted \in BOOLEAN :
         Start(p, "selection", overwrite,
               [Blank(NewVersion) EXCEPT
                  !.judged = dir["comparison"].judged,
                  !.policy = NewVersion, !.promoted = promoted,
                  !.dataset = dir["dataset"].ver, !.features = dir["features"].ver])
    /\ selected' = selected \cup {<<dir["comparison"].pipeline, NewVersion>>}

----------------------------------------------------------------------------
(* What a stage reads again when it writes: must those files be there? *)
Reread(s, out) ==
    CASE s = "comparison" -> {"models", "dataset", "features"}
      [] s = "selection" -> IF out.promoted THEN {"comparison"} ELSE {}
      [] OTHER -> {}

(***************************************************************************)
(* The files of the temporary directory. A comparison hashes the manifests *)
(* and copies the pipeline file only now, next to metadata on the pipeline *)
(* it evaluated; a promotion copies the candidate's file again.            *)
(***************************************************************************)
Written(s, out) ==
    CASE s = "comparison" ->
           [out EXCEPT !.pipeline = dir["models"].pipeline,
                       !.dataset = dir["dataset"].ver,
                       !.features = dir["features"].ver]
      [] s = "selection" /\ out.promoted ->
           [out EXCEPT !.pipeline = dir["comparison"].pipeline]
      [] OTHER -> out

Write(p) ==
    /\ proc[p].pc = "loaded"
    /\ \A s \in Reread(proc[p].stage, proc[p].out) : Whole(s)
    /\ proc' = [proc EXCEPT ![p].pc = "written",
                            ![p].out = [Written(proc[p].stage, proc[p].out) EXCEPT !.whole = TRUE]]
    /\ UNCHANGED <<dir, bundle, runs, runtime, selected, ever, interrupted,
                   mixed>>

(* An exception while writing: the temporary directory is removed again. *)
WriteFails(p) ==
    /\ proc[p].pc = "loaded"
    /\ proc' = [proc EXCEPT ![p] = Idle]
    /\ UNCHANGED <<dir, bundle, runs, runtime, selected, ever, interrupted,
                   mixed>>

(* The directories whose replacement under a running stage makes it mix.    *)
Sources(q) ==
    CASE proc[q].pc \in {"packing", "piped", "copied", "hashed"} -> {"selection"}
      [] proc[q].pc = "loaded" /\ proc[q].stage = "selection" -> {"comparison"}
      [] OTHER -> {}

(* if output.exists(): shutil.rmtree(output), which takes its time. *)
RemoveOld(p) ==
    /\ proc[p].pc = "written"
    /\ dir' = [dir EXCEPT ![proc[p].stage].whole = FALSE]
    /\ proc' = [q \in Proc |->
         IF q = p THEN [proc[p] EXCEPT !.pc = IF dir[proc[p].stage] = Absent
                                              THEN "removed" ELSE "removing"]
         ELSE [proc[q] EXCEPT !.raced = @ \/ proc[p].stage \in Sources(q)]]
    /\ UNCHANGED <<bundle, runs, runtime, selected, ever, interrupted, mixed>>

(* The last file goes; if another process was faster, rmtree raises. *)
RemoveRest(p) ==
    /\ proc[p].pc = "removing"
    /\ IF dir[proc[p].stage] # Absent /\ ~ Whole(proc[p].stage)
       THEN /\ dir' = [dir EXCEPT ![proc[p].stage] = Absent]
            /\ proc' = [proc EXCEPT ![p].pc = "removed"]
       ELSE /\ proc' = [proc EXCEPT ![p] = Idle]
            /\ UNCHANGED dir
    /\ UNCHANGED <<bundle, runs, runtime, selected, ever, interrupted, mixed>>

(* rmtree cannot remove a file: the stage ends, the old output half gone. *)
RemoveFails(p) ==
    /\ proc[p].pc = "removing"
    /\ interrupted' = interrupted \cup {proc[p].stage}
    /\ proc' = [proc EXCEPT ![p] = Idle]
    /\ UNCHANGED <<dir, bundle, runs, runtime, selected, ever, mixed>>

(* tmp_dir.rename(output): refused by a directory that is not empty. *)
Rename(p) ==
    /\ proc[p].pc = "removed"
    /\ IF dir[proc[p].stage] = Absent
       THEN /\ dir' = [dir EXCEPT ![proc[p].stage] = proc[p].out]
            /\ mixed' = (mixed \/ (proc[p].raced /\ proc[p].out.promoted))
            /\ interrupted' = interrupted \ {proc[p].stage}
            /\ ever' = ever \cup {proc[p].stage}
       ELSE UNCHANGED <<dir, mixed, interrupted, ever>>
    /\ proc' = [proc EXCEPT ![p] = Idle]
    /\ UNCHANGED <<bundle, runs, runtime, selected>>

(* The process is killed; a temporary directory may stay behind. *)
Kill(p) ==
    /\ proc[p].pc # "idle"
    /\ interrupted' = IF proc[p].pc \in {"removing", "removed"}
                      THEN interrupted \cup {proc[p].stage} ELSE interrupted
    /\ proc' = [proc EXCEPT ![p] = Idle]
    /\ UNCHANGED <<dir, bundle, runs, runtime, selected, ever, mixed>>

----------------------------------------------------------------------------
(***************************************************************************)
(* package_promoted_artifact: the bundle is written in place, file by      *)
(* file, and its metadata, which names the hashes, last.                   *)
(***************************************************************************)
Package(p, overwrite) ==
    /\ proc[p].pc = "idle" /\ runs < MaxRuns
    /\ Whole("selection") /\ dir["selection"].promoted
    /\ bundle # EmptyBundle => overwrite
    /\ runs' = runs + 1
    /\ proc' = [proc EXCEPT ![p] =
         [Idle EXCEPT !.pc = "packing", !.stage = "selection", !.overwrite = overwrite,
                      !.out = [Absent EXCEPT !.pipeline = dir["selection"].pipeline]]]
    /\ UNCHANGED <<dir, bundle, runtime, selected, ever, interrupted, mixed>>

(* A file is replaced under a loader that has checked it and will load it. *)
SwapIf(checked, file) ==
    runtime' = [runtime EXCEPT !.swapped = IF runtime.pc \in checked THEN @ \cup {file} ELSE @]

CopyPipeline(p) ==
    /\ proc[p].pc = "packing" /\ Whole("selection") /\ dir["selection"].promoted
    /\ bundle' = [bundle EXCEPT !.pipeline = dir["selection"].pipeline]
    /\ SwapIf({"model", "policy"}, "pipeline")
    /\ proc' = [proc EXCEPT ![p].pc = "piped"]
    /\ UNCHANGED <<dir, runs, selected, ever, interrupted, mixed>>

CopyPolicy(p) ==
    /\ proc[p].pc = "piped" /\ Whole("selection") /\ dir["selection"].promoted
    /\ bundle' = [bundle EXCEPT !.policy = dir["selection"].policy]
    /\ SwapIf({"policy", "opened"}, "policy")
    /\ proc' = [proc EXCEPT ![p].pc = "copied"]
    /\ UNCHANGED <<dir, runs, selected, ever, interrupted, mixed>>

(* _sha256_file(alert_policy_path): of the copy, whoever made the last one. *)
HashPolicy(p) ==
    /\ proc[p].pc = "copied"
    /\ proc' = [proc EXCEPT ![p].pc = "hashed", ![p].out.policy = bundle.policy]
    /\ UNCHANGED <<dir, bundle, runs, runtime, selected, ever, interrupted,
                   mixed>>

WriteMetadata(p) ==
    /\ proc[p].pc = "hashed"
    /\ bundle' = [bundle EXCEPT !.metaPipeline = proc[p].out.pipeline,
                                !.metaPolicy = proc[p].out.policy]
    /\ mixed' = (mixed \/ proc[p].raced)
    /\ proc' = [proc EXCEPT ![p] = Idle]
    /\ UNCHANGED <<dir, runs, runtime, selected, ever, interrupted>>

(* A source file is gone, or its safety policy version is another one: the  *)
(* files copied so far stay where they are.                                 *)
PackageFails(p) ==
    /\ proc[p].pc \in {"packing", "piped", "copied", "hashed"}
    /\ proc' = [proc EXCEPT ![p] = Idle]
    /\ UNCHANGED <<dir, bundle, runs, runtime, selected, ever, interrupted, mixed>>

(***************************************************************************)
(* load_promoted_fault_system: the three files are there and the metadata  *)
(* is read; both files are hashed; both are opened again and loaded. No    *)
(* lock keeps a packaging from the files meanwhile.                        *)
(***************************************************************************)
StartWorker ==
    /\ runtime.pc = "off"
    /\ NoVersion \notin {bundle[f] : f \in DOMAIN bundle}
    /\ runtime' = [NotRunning EXCEPT !.pc = "read", !.metaPipeline = bundle.metaPipeline,
                                     !.metaPolicy = bundle.metaPolicy]

(* Mutant: the loader takes the metadata's word for the pipeline file. *)
VerifyPipelineUnhashed ==
    /\ runtime.pc = "read"
    /\ runtime' = [runtime EXCEPT !.pc = "model"]

VerifyPipeline ==
    /\ runtime.pc = "read" /\ bundle.pipeline = runtime.metaPipeline
    /\ runtime' = [runtime EXCEPT !.pc = "model"]

VerifyPolicy ==
    /\ runtime.pc = "model" /\ bundle.policy = runtime.metaPolicy
    /\ runtime' = [runtime EXCEPT !.pc = "policy"]

(* joblib.load(pipeline_path) *)
LoadPipeline ==
    /\ runtime.pc = "policy"
    /\ runtime' = [runtime EXCEPT !.pc = "opened", !.pipeline = bundle.pipeline]

(* json.loads(alert_policy_path.read_text()); the worker runs the two. *)
LoadPolicy ==
    /\ runtime.pc = "opened"
    /\ runtime' = [runtime EXCEPT !.pc = "running", !.policy = bundle.policy]

(* A check refuses the bundle, or the worker's process ends. *)
StopWorker ==
    /\ runtime.pc # "off"
    /\ runtime' = NotRunning

LoaderStep ==
    /\ \/ StartWorker \/ StopWorker
       \/ VerifyPipeline \/ VerifyPolicy \/ LoadPipeline \/ LoadPolicy
    /\ UNCHANGED <<dir, bundle, proc, runs, selected, ever, interrupted, mixed>>

StageBegins(p, overwrite) ==
    \/ GenerateDataset(p, overwrite)
    \/ GenerateFeatures(p, overwrite)
    \/ GenerateModels(p, overwrite)
    \/ GenerateAlertPolicy(p, overwrite)
    \/ GenerateCalibration(p, overwrite)
    \/ \E c \in Cohort : RunOodEvaluation(p, c, overwrite)
    \/ RunShiftStudy(p, overwrite)
    \/ RunRobustnessComparison(p, overwrite)
    \/ RunPolicySelection(p, overwrite)
    \/ Package(p, overwrite)

StageProceeds(p) ==
    \/ Write(p) \/ WriteFails(p)
    \/ RemoveOld(p) \/ RemoveRest(p) \/ RemoveFails(p) \/ Rename(p)
    \/ CopyPipeline(p) \/ CopyPolicy(p) \/ HashPolicy(p) \/ WriteMetadata(p)
    \/ PackageFails(p)
    \/ Kill(p)

PipelineNext ==
    \/ \E p \in Proc, overwrite \in BOOLEAN : StageBegins(p, overwrite)
    \/ \E p \in Proc : StageProceeds(p)
    \/ LoaderStep

PipelineSpec == PipelineInit /\ [][PipelineNext]_pipelineVars

----------------------------------------------------------------------------
(***************************************************************************)
(* An output that was there is not lost: while it is missing or half       *)
(* removed, a stage holds its complete replacement, or one was killed or   *)
(* failed to remove it between rmtree and rename                           *)
(* (docs/simulator-dataset-generation.md:106).                             *)
(***************************************************************************)
OutputNotLost ==
    \A s \in ever : ~ Whole(s) =>
      \/ s \in interrupted
      \/ \E p \in Proc : /\ proc[p].stage = s /\ proc[p].out.whole
                         /\ proc[p].pc \in {"removing", "removed"}

(***************************************************************************)
(* Without --overwrite a stage removes nothing that it could have seen:    *)
(* only an output that a rival put there after the check.                  *)
(***************************************************************************)
NoSilentReplacement ==
    [][\A s \in Stage : Whole(s) /\ ~ Whole(s)' =>
         \E p \in Proc : /\ proc[p].stage = s /\ proc[p].pc # proc'[p].pc
                         /\ proc[p].overwrite \/ dir[s].ver # proc[p].since]_pipelineVars

(***************************************************************************)
(* A promoted system holds the very pipeline its policy was searched and   *)
(* evaluated for, unless the comparison was replaced under the selection   *)
(* (candidate.py:107, policy_generate.py:424).                             *)
(***************************************************************************)
PromotedWasEvaluated ==
    Whole("selection") /\ dir["selection"].promoted /\ ~ mixed =>
      /\ dir["selection"].pipeline = dir["selection"].judged
      /\ <<dir["selection"].pipeline, dir["selection"].policy>> \in selected

(***************************************************************************)
(* The worker runs what its bundle's metadata names, a pipeline and a      *)
(* policy that were evaluated together, whatever packagings were cut short *)
(* or overlap. There is one exception: the loader hashes a file, and later *)
(* opens it again (loader.py:119-135, 166, 194), and a packaging writes in *)
(* place (bundle.py:133-134), so a file replaced between the two reads is  *)
(* loaded unverified; it is then still that of some evaluated system.      *)
(***************************************************************************)
RuntimeWasSelected ==
    runtime.pc = "running" =>
      /\ "pipeline" \notin runtime.swapped => runtime.pipeline = runtime.metaPipeline
      /\ "policy" \notin runtime.swapped => runtime.policy = runtime.metaPolicy
      /\ ~ mixed => /\ <<runtime.metaPipeline, runtime.metaPolicy>> \in selected
                    /\ \E s \in selected : s[1] = runtime.pipeline
                    /\ \E s \in selected : s[2] = runtime.policy

(***************************************************************************)
(* Whatever stages run side by side, fail or are killed: no output is      *)
(* lost, and what is promoted and packaged was evaluated together; so was  *)
(* what is loaded, unless it was replaced under the loader.                *)
(***************************************************************************)
ArtifactsAreSound ==
    /\ PipelineTypeOK
    /\ OutputNotLost
    /\ PromotedWasEvaluated
    /\ RuntimeWasSelected
=============================================================================
