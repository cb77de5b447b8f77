-------------------------- MODULE InferenceProofs --------------------------
(***************************************************************************)
(* What the fault-inference worker runs on, and the worker itself.         *)
(*                                                                         *)
(* For the offline pipeline, ArtifactsAreSound and NoSilentReplacement     *)
(* hold for any number of terminals, runs and kills. For the worker,       *)
(* MemoriesAgree and DropsAreReported hold for any assets, any telemetry,  *)
(* any limits of the assembler and any number of failures.                 *)
(***************************************************************************)
EXTENDS ArtifactPipeline, InferenceWorker, WellFoundedInduction, TLAPS

----------------------------------------------------------------------------
(* The pipeline of artifacts.                                              *)

Process ==
    [pc : {"idle", "loaded", "written", "removing", "removed", "packing", "piped", "copied",
           "hashed"},
     stage : Stage, overwrite : BOOLEAN, since : Version, out : Artifact, raced : BOOLEAN]

Bundle == [pipeline : Version, policy : Version, metaPipeline : Version, metaPolicy : Version]

(* A stage runs in p, from its check to its rename; a packaging does. *)
Busy(p) == proc[p].pc \in {"loaded", "written", "removing", "removed"}
Packs(p) == proc[p].pc \in {"packing", "piped", "copied", "hashed"}

(* The types, with the shape of the records that PipelineTypeOK takes apart. *)
Typed ==
    /\ dir \in [Stage -> Artifact]
    /\ bundle \in Bundle /\ runtime \in Runtime
    /\ proc \in [Proc -> Process]
    /\ runs \in 0 .. MaxRuns
    /\ mixed \in BOOLEAN
    /\ \A s \in Stage : dir[s] = Absent \/ dir[s].ver > NoVersion
    /\ \A p \in Proc : proc[p].pc \in {"written", "removing", "removed"} => proc[p].out.whole

(* The version a running stage will give its output is its own: no other   *)
(* stage has it, it is in no directory, and no check has seen it.          *)
VersionsAreFresh ==
    /\ \A s \in Stage : dir[s].ver <= runs + 2
    /\ \A p \in Proc : proc[p].since <= runs + 2 /\ proc[p].out.ver <= runs + 2
    /\ \A p \in Proc : Busy(p) =>
         /\ proc[p].out.ver > NoVersion
         /\ \A s \in Stage : dir[s].ver # proc[p].out.ver
         /\ \A q \in Proc : Busy(q) =>
              /\ proc[q].since # proc[p].out.ver
              /\ q # p => proc[q].out.ver # proc[p].out.ver

(* What a stage without --overwrite finds in its way was not there before. *)
InTheWayIsNew ==
    \A p \in Proc : proc[p].pc \in {"loaded", "written"} /\ ~ proc[p].overwrite =>
      (dir[proc[p].stage].whole => dir[proc[p].stage].ver # proc[p].since)

(* A directory that is half removed has a remover, and one that is gone    *)
(* has a stage about to rename: the one who won where several removed.     *)
HalfRemovedIsHeld ==
    \A s \in Stage :
      dir[s] # Absent /\ ~ dir[s].whole /\ s \notin interrupted =>
        \E p \in Proc : proc[p].stage = s /\ proc[p].pc = "removing"

RemovedIsHeld ==
    \A s \in ever :
      dir[s] = Absent /\ s \notin interrupted =>
        \E p \in Proc : proc[p].stage = s /\ proc[p].pc = "removed"

(* A selection under which nothing was replaced has its candidate before   *)
(* it as it found it, and then a copy of it.                               *)
HasCandidate(p) ==
    /\ dir["comparison"].whole
    /\ dir["comparison"].pipeline = proc[p].out.judged
    /\ <<proc[p].out.judged, proc[p].out.policy>> \in selected

HasCopy(p) ==
    /\ proc[p].out.pipeline = proc[p].out.judged
    /\ <<proc[p].out.pipeline, proc[p].out.policy>> \in selected

SelectionKeepsCandidate ==
    \A p \in Proc : proc[p].stage = "selection" /\ ~ proc[p].raced =>
      /\ proc[p].pc = "loaded" => HasCandidate(p)
      /\ proc[p].pc \in {"written", "removing", "removed"} /\ proc[p].out.promoted => HasCopy(p)

(* The same of a packaging and the selection it copies; another packaging  *)
(* that copies the policy before it is hashed has taken it from there too. *)
PackagingKeepsSelection ==
    \A p \in Proc : Packs(p) /\ ~ proc[p].raced =>
      /\ dir["selection"].whole /\ dir["selection"].promoted
      /\ proc[p].out.pipeline = dir["selection"].pipeline
      /\ proc[p].pc = "copied" => bundle.policy = dir["selection"].policy
      /\ proc[p].pc = "hashed" => proc[p].out.policy = dir["selection"].policy

(* Every file of the bundle comes from a promoted selection. The metadata  *)
(* is written last and names the files of one.                             *)
Evaluated(i, v) == \E s \in selected : s[i] = v

BundleWasSelected ==
    ~ mixed =>
      /\ bundle.pipeline = NoVersion \/ Evaluated(1, bundle.pipeline)
      /\ bundle.policy = NoVersion \/ Evaluated(2, bundle.policy)
      /\ bundle.metaPipeline = NoVersion
           \/ <<bundle.metaPipeline, bundle.metaPolicy>> \in selected

(* What a loader has read of the bundle, and what is in the bundle while   *)
(* it goes on: a file that has been checked and not been replaced since is *)
(* still the one the metadata names, in the bundle and once it is loaded.  *)
ChecksHold ==
    /\ "pipeline" \notin runtime.swapped =>
         /\ runtime.pc \in {"model", "policy"} => bundle.pipeline = runtime.metaPipeline
         /\ runtime.pc \in {"opened", "running"} => runtime.pipeline = runtime.metaPipeline
    /\ "policy" \notin runtime.swapped =>
         /\ runtime.pc \in {"policy", "opened"} => bundle.policy = runtime.metaPolicy
         /\ runtime.pc = "running" => runtime.policy = runtime.metaPolicy

ReadWasSelected ==
    runtime.pc # "off" /\ ~ mixed =>
      /\ <<runtime.metaPipeline, runtime.metaPolicy>> \in selected
      /\ Evaluated(1, bundle.pipeline) /\ Evaluated(2, bundle.policy)
      /\ runtime.pc \in {"opened", "running"} => Evaluated(1, runtime.pipeline)
      /\ runtime.pc = "running" => Evaluated(2, runtime.policy)

LoaderInv == BundleWasSelected /\ ChecksHold /\ ReadWasSelected

PipelineInv ==
    /\ Typed /\ VersionsAreFresh /\ InTheWayIsNew
    /\ HalfRemovedIsHeld /\ RemovedIsHeld /\ ever \subseteq Stage
    /\ SelectionKeepsCandidate /\ PackagingKeepsSelection
    /\ PromotedWasEvaluated /\ LoaderInv

----------------------------------------------------------------------------
(* Records.                                                                *)

(* What is absent or idle has the type of what is there. *)
LEMMA NothingIsTyped ==
    /\ NoVersion \in Version
    /\ Absent \in Artifact
    /\ Idle \in Process
    /\ Absent.ver = NoVersion /\ Absent.whole = FALSE
    /\ Idle.pc = "idle" /\ Idle.since = NoVersion /\ Idle.out = Absent /\ Idle.raced = FALSE
    /\ {"dataset", "features", "models", "alert_policy", "calibration",
        "shift_study", "comparison", "selection"} \cup Cohort \subseteq Stage
  BY PipelineAssumption DEF NoVersion, Version, Absent, Artifact, Idle, Process, Stage

(* Marking an artifact whole or not leaves the rest of it as it is. *)
LEMMA MarkIsTyped ==
    ASSUME NEW a \in Artifact, NEW b \in BOOLEAN
    PROVE  LET m == [a EXCEPT !.whole = b]
           IN /\ m \in Artifact /\ m.whole = b /\ m.ver = a.ver /\ m.pipeline = a.pipeline
              /\ m.judged = a.judged /\ m.policy = a.policy /\ m.promoted = a.promoted
  BY DEF Artifact

(* and an artifact that is already so is left as it is. *)
LEMMA MarkTwice ==
    ASSUME NEW a \in Artifact
    PROVE  [a EXCEPT !.whole = a.whole] = a
  BY DEF Artifact

(* Who touches neither the bundle nor the loader leaves them as they were. *)
LEMMA LoaderUntouched ==
    ASSUME LoaderInv, UNCHANGED <<bundle, runtime>>, selected \subseteq selected',
           mixed => mixed'
    PROVE  LoaderInv'
  <1>1. \A i \in {1, 2}, v \in Version : Evaluated(i, v) => Evaluated(i, v)'
    BY DEF Evaluated
  <1>2. ASSUME NEW i, NEW v, Evaluated(i, v)
        PROVE  \E s \in selected' : s[i] = v
    BY <1>2 DEF Evaluated
  <1>3. BundleWasSelected'
    BY <1>2 DEF LoaderInv, BundleWasSelected, Evaluated
  <1>4. ChecksHold'
    BY DEF LoaderInv, ChecksHold
  <1>5. ReadWasSelected'
    BY <1>2 DEF LoaderInv, ReadWasSelected, Evaluated
  <1> QED BY <1>3, <1>4, <1>5 DEF LoaderInv

(* The first invocation's outputs, and everything at rest, satisfy the invariant. *)
LEMMA PipelineInitInv == PipelineInit => PipelineInv
  <1> SUFFICES ASSUME PipelineInit PROVE PipelineInv
    OBVIOUS
  <1>1. 1 \in Version /\ 2 \in Version /\ 0 \in Version
    BY PipelineAssumption DEF Version
  <1>2. \A s \in Stage : /\ FirstOutput(s) \in Artifact /\ FirstOutput(s).ver = 1
                         /\ FirstOutput(s).whole
    BY <1>1 DEF FirstOutput, Blank, Absent, Artifact, NoVersion
  <1>3. Blank(1) \in Artifact /\ Blank(1).ver = 1 /\ Blank(1).whole
    BY <1>1 DEF Blank, Absent, Artifact, NoVersion
  <1>4. \A s \in Stage : /\ LaterOutput(s) \in Artifact /\ LaterOutput(s).ver \in {1, 2}
                         /\ LaterOutput(s).whole
    BY <1>1, <1>2 DEF LaterOutput, Artifact
  <1>14. \A s \in Stage : /\ LatestOutput(s) \in Artifact /\ LatestOutput(s).ver \in {1, 2}
                          /\ LatestOutput(s).whole
    BY <1>1, <1>2, <1>4 DEF LatestOutput, Artifact
  <1>5. /\ dir \in [Stage -> Artifact]
        /\ \A s \in Stage : dir[s] = Absent \/ (dir[s].ver \in {1, 2} /\ dir[s].whole)
    BY <1>3, <1>4, <1>14, NothingIsTyped DEF PipelineInit
  <1>6. /\ proc = [p \in Proc |-> Idle] /\ runs = 0 /\ mixed = FALSE
        /\ ever = {s \in Stage : dir[s].whole} /\ runtime = NotRunning
        /\ selected = {<<v, v>> : v \in 1 .. dir["selection"].ver}
    BY DEF PipelineInit, Whole
  <1>7. bundle \in Bundle
    BY <1>1 DEF PipelineInit, Bundle, EmptyBundle, NoVersion
  <1>15. runtime \in Runtime
    BY <1>1, <1>6 DEF Runtime, NotRunning, NoVersion
  <1>8. Typed
    <2>1. \A s \in Stage : dir[s] = Absent \/ dir[s].ver > NoVersion
      BY <1>5 DEF NoVersion
    <2>2. proc \in [Proc -> Process] /\ \A p \in Proc : proc[p].pc = "idle"
      BY <1>6, NothingIsTyped
    <2>3. runs = 0
      BY <1>6
    <2>4. runs \in 0 .. MaxRuns
      BY <2>3, PipelineAssumption
    <2>5. mixed \in BOOLEAN
      BY <1>6
    <2> QED BY <1>5, <1>7, <1>15, <2>1, <2>2, <2>4, <2>5 DEF Typed
  <1>9. VersionsAreFresh
    BY <1>5, <1>6, NothingIsTyped DEF VersionsAreFresh, NoVersion, Busy
  <1>10. InTheWayIsNew /\ SelectionKeepsCandidate /\ PackagingKeepsSelection
    BY <1>6, NothingIsTyped DEF InTheWayIsNew, SelectionKeepsCandidate, PackagingKeepsSelection, Packs
  <1>11. HalfRemovedIsHeld /\ RemovedIsHeld /\ ever \subseteq Stage
    BY <1>5, <1>6, NothingIsTyped DEF HalfRemovedIsHeld, RemovedIsHeld
  <1>12. \/ dir["selection"] = Absent
         \/ /\ dir["selection"].pipeline = dir["selection"].ver
            /\ dir["selection"].judged = dir["selection"].ver
            /\ dir["selection"].policy = dir["selection"].ver
            /\ dir["selection"].ver \in {1, 2}
    <2>1. CASE dir = [s \in Stage |-> IF s = "dataset" THEN Blank(1) ELSE Absent]
      BY <2>1, NothingIsTyped DEF Stage
    <2>2. CASE dir = [s \in Stage |-> LaterOutput(s)]
      <3>1. dir["selection"] = FirstOutput("selection")
        BY <2>2 DEF LaterOutput, Stage
      <3> QED BY <3>1 DEF FirstOutput, Blank, Absent
    <2>3. CASE dir = [s \in Stage |-> LatestOutput(s)]
      <3>1. dir["selection"] = [FirstOutput("selection") EXCEPT
                                  !.ver = 2, !.pipeline = 2, !.judged = 2, !.policy = 2]
        BY <2>3 DEF LatestOutput, Stage
      <3> QED BY <3>1 DEF FirstOutput, Blank, Absent
    <2> QED BY <2>1, <2>2, <2>3 DEF PipelineInit
  <1>13. PromotedWasEvaluated
    BY <1>6, <1>12, NothingIsTyped DEF PromotedWasEvaluated, Whole
  <1>16. LoaderInv
    <2>1. CASE bundle = EmptyBundle
      BY <2>1, <1>6 DEF LoaderInv, BundleWasSelected, ChecksHold, ReadWasSelected, EmptyBundle,
                        NotRunning
    <2>2. CASE bundle # EmptyBundle
      <3>1. /\ dir["selection"].whole
            /\ bundle.pipeline = 1 /\ bundle.policy = 1
            /\ bundle.metaPipeline = 1 /\ bundle.metaPolicy = 1
        BY <2>2 DEF PipelineInit, Whole
      <3>2. <<1, 1>> \in selected
        BY <1>6, <1>12, <3>1, NothingIsTyped
      <3> QED BY <1>6, <3>1, <3>2 DEF LoaderInv, BundleWasSelected, ChecksHold, ReadWasSelected,
                                      NotRunning, Evaluated
    <2> QED BY <2>1, <2>2
  <1> QED BY <1>8, <1>9, <1>10, <1>11, <1>13, <1>16 DEF PipelineInv

----------------------------------------------------------------------------
(* Steps that end an invocation, or start none.                            *)

(* What a terminal's step leaves alone, and what grows. *)
Elsewhere(p) ==
    /\ proc' \in [Proc -> Process]
    /\ \A q \in Proc \ {p} : proc'[q] = proc[q]

(* p ends without touching a directory or the bundle. *)
Leaves(p) ==
    /\ proc' = [proc EXCEPT ![p] = Idle]
    /\ UNCHANGED <<dir, bundle, runs, runtime, selected, ever, mixed>>
    /\ interrupted \subseteq interrupted'
    /\ proc[p].pc \in {"removing", "removed"} => proc[p].stage \in interrupted'

(* An invocation that ends early leaves the invariant true. *)
LEMMA LeavesInv ==
    ASSUME PipelineInv, NEW p \in Proc, Leaves(p)
    PROVE  PipelineInv'
  <1> USE DEF PipelineInv
  <1>1. /\ Elsewhere(p) /\ proc'[p] = Idle
        /\ UNCHANGED <<dir, bundle, runs, runtime, selected, ever, mixed>>
    BY NothingIsTyped DEF Leaves, Elsewhere, Typed
  <1>2. Typed'
    BY <1>1, NothingIsTyped DEF Typed, Leaves, Elsewhere
  <1>3. VersionsAreFresh'
    <2>1. runs \in Nat
      BY PipelineAssumption DEF Typed
    <2> QED BY <1>1, <2>1, NothingIsTyped DEF VersionsAreFresh, Elsewhere, Busy, NoVersion
  <1>4. InTheWayIsNew'
    BY <1>1, NothingIsTyped DEF InTheWayIsNew, Elsewhere
  <1>5. HalfRemovedIsHeld'
    BY <1>1 DEF HalfRemovedIsHeld, Leaves, Elsewhere
  <1>6. RemovedIsHeld'
    BY <1>1 DEF RemovedIsHeld, Leaves, Elsewhere
  <1>7. SelectionKeepsCandidate' /\ PackagingKeepsSelection'
    BY <1>1, NothingIsTyped DEF SelectionKeepsCandidate, PackagingKeepsSelection, HasCandidate, HasCopy,
                                    Elsewhere, Packs
  <1>8. PromotedWasEvaluated' /\ LoaderInv'
    BY <1>1, LoaderUntouched DEF PromotedWasEvaluated, Whole
  <1> QED BY <1>1, <1>2, <1>3, <1>4, <1>5, <1>6, <1>7, <1>8

(* A failed write, removal or packaging, and a kill, are such ends. *)
LEMMA EndsLeave ==
    ASSUME NEW p \in Proc,
           WriteFails(p) \/ RemoveFails(p) \/ PackageFails(p) \/ Kill(p)
    PROVE  Leaves(p)
  BY DEF WriteFails, RemoveFails, PackageFails, Kill, Leaves

(* A loader takes what the bundle holds; what it has checked it may load   *)
(* once more, and a file it has loaded is no longer in the way of others.  *)
LEMMA LoaderStepInv == PipelineInv /\ LoaderStep => PipelineInv'
  <1> SUFFICES ASSUME PipelineInv, LoaderStep PROVE PipelineInv'
    OBVIOUS
  <1>1. UNCHANGED <<dir, bundle, proc, runs, selected, ever, interrupted, mixed>>
    BY DEF LoaderStep
  <1>2. bundle \in Bundle /\ runtime \in Runtime /\ LoaderInv
    BY DEF PipelineInv, Typed
  <1>3. runtime' \in Runtime /\ LoaderInv'
    <2>1. CASE StartWorker
      <3>1. /\ runtime' = [pc |-> "read", pipeline |-> NoVersion, policy |-> NoVersion,
                           metaPipeline |-> bundle.metaPipeline,
                           metaPolicy |-> bundle.metaPolicy, swapped |-> {}]
            /\ bundle.pipeline # NoVersion /\ bundle.policy # NoVersion
            /\ bundle.metaPipeline # NoVersion
        BY <1>2, <2>1 DEF StartWorker, NotRunning, Bundle
      <3>2. runtime' \in Runtime
        BY <1>2, <3>1, NothingIsTyped DEF Runtime, Bundle
      <3> QED BY <1>1, <1>2, <3>1, <3>2
              DEF LoaderInv, BundleWasSelected, ChecksHold, ReadWasSelected, Evaluated
    <2>2. CASE StopWorker
      BY <1>1, <1>2, <2>2, NothingIsTyped DEF StopWorker, NotRunning, Runtime, LoaderInv,
         BundleWasSelected, ChecksHold, ReadWasSelected, Evaluated
    <2>3. CASE VerifyPipeline
      BY <1>1, <1>2, <2>3 DEF VerifyPipeline, Runtime, LoaderInv, BundleWasSelected, ChecksHold,
         ReadWasSelected, Evaluated
    <2>4. CASE VerifyPolicy
      BY <1>1, <1>2, <2>4 DEF VerifyPolicy, Runtime, LoaderInv, BundleWasSelected, ChecksHold,
         ReadWasSelected, Evaluated
    <2>5. CASE LoadPipeline
      BY <1>1, <1>2, <2>5 DEF LoadPipeline, Runtime, Bundle, LoaderInv, BundleWasSelected,
         ChecksHold, ReadWasSelected, Evaluated
    <2>6. CASE LoadPolicy
      BY <1>1, <1>2, <2>6 DEF LoadPolicy, Runtime, Bundle, LoaderInv, BundleWasSelected,
         ChecksHold, ReadWasSelected, Evaluated
    <2> QED BY <2>1, <2>2, <2>3, <2>4, <2>5, <2>6 DEF LoaderStep
  <1>4. (Typed /\ VersionsAreFresh /\ InTheWayIsNew /\ HalfRemovedIsHeld /\ RemovedIsHeld
         /\ ever \subseteq Stage /\ SelectionKeepsCandidate /\ PackagingKeepsSelection
         /\ PromotedWasEvaluated)'
    BY <1>1, <1>3 DEF PipelineInv, Typed, VersionsAreFresh, InTheWayIsNew, HalfRemovedIsHeld,
                RemovedIsHeld, SelectionKeepsCandidate, HasCandidate, HasCopy, PackagingKeepsSelection,
                PromotedWasEvaluated, Busy, Packs, Whole
  <1> QED BY <1>3, <1>4 DEF PipelineInv

----------------------------------------------------------------------------
(* Stages: the check and the inputs, the write, the replacement.           *)

(* What the nine stages have in common when they begin; only a selection   *)
(* says more, of the candidate it froze.                                   *)
Begins(p, s, overwrite, out) ==
    /\ Start(p, s, overwrite, out)
    /\ out.ver = NewVersion
    /\ selected \subseteq selected'
    /\ s = "selection" =>
         /\ dir["comparison"].whole
         /\ dir["comparison"].pipeline = out.judged
         /\ <<out.judged, out.policy>> \in selected'

(* Every stage begins so. *)
LEMMA StagesBegin ==
    ASSUME PipelineInv, NEW p \in Proc, NEW overwrite \in BOOLEAN,
           StageBegins(p, overwrite), ~ Package(p, overwrite)
    PROVE  \E s \in Stage, out \in Artifact : Begins(p, s, overwrite, out)
  <1>1. proc[p].pc = "idle" /\ runs < MaxRuns
    BY DEF StageBegins, GenerateDataset, GenerateFeatures, GenerateModels, GenerateAlertPolicy,
           GenerateCalibration, RunOodEvaluation, RunShiftStudy, RunRobustnessComparison,
           RunPolicySelection, Start
  <1>2. NewVersion \in Version
    BY <1>1, PipelineAssumption DEF PipelineInv, Typed, NewVersion, Version
  <1>3. ASSUME NEW v \in Version
        PROVE  Blank(v) \in Artifact /\ Blank(v).ver = v
    BY NothingIsTyped DEF Blank, Absent, Artifact
  <1>4. /\ \A s \in Stage : dir[s] \in Artifact
        /\ \A s \in Stage : /\ dir[s].ver \in Version /\ dir[s].pipeline \in Version
                            /\ dir[s].judged \in Version /\ dir[s].policy \in Version
    BY DEF PipelineInv, Typed, Artifact
  <1>5. Trained(NewVersion) \in Artifact /\ Trained(NewVersion).ver = NewVersion
    BY <1>2, <1>3, <1>4, NothingIsTyped DEF Trained, Artifact
  <1>6. CASE GenerateDataset(p, overwrite)
    <2>1. Begins(p, "dataset", overwrite, Blank(NewVersion))
      BY <1>2, <1>3, <1>6 DEF GenerateDataset, Begins
    <2> QED BY <1>2, <1>3, <2>1, NothingIsTyped
  <1>7. CASE GenerateFeatures(p, overwrite)
    <2> DEFINE out == [Blank(NewVersion) EXCEPT !.dataset = dir["dataset"].ver]
    <2>1. out \in Artifact /\ out.ver = NewVersion
      BY <1>2, <1>3, <1>4, NothingIsTyped DEF Artifact
    <2>2. Begins(p, "features", overwrite, out)
      BY <1>7, <2>1 DEF GenerateFeatures, Begins
    <2> QED BY <2>1, <2>2, NothingIsTyped
  <1>8. CASE GenerateModels(p, overwrite)
    <2>1. Begins(p, "models", overwrite, Trained(NewVersion))
      BY <1>5, <1>8 DEF GenerateModels, Begins
    <2> QED BY <1>5, <2>1, NothingIsTyped
  <1>9. CASE GenerateAlertPolicy(p, overwrite)
    <2>1. Begins(p, "alert_policy", overwrite, Trained(NewVersion))
      BY <1>5, <1>9 DEF GenerateAlertPolicy, Begins
    <2> QED BY <1>5, <2>1, NothingIsTyped
  <1>10. CASE GenerateCalibration(p, overwrite)
    <2>1. Begins(p, "calibration", overwrite, Trained(NewVersion))
      BY <1>5, <1>10 DEF GenerateCalibration, Begins
    <2> QED BY <1>5, <2>1, NothingIsTyped
  <1>11. CASE \E c \in Cohort : RunOodEvaluation(p, c, overwrite)
    <2> PICK c \in Cohort : RunOodEvaluation(p, c, overwrite)
      BY <1>11
    <2> DEFINE out == [Blank(NewVersion) EXCEPT !.judged = dir["models"].pipeline,
                                                !.policy = dir["alert_policy"].policy]
    <2>1. out \in Artifact /\ out.ver = NewVersion
      BY <1>2, <1>3, <1>4, NothingIsTyped DEF Artifact
    <2>2. c \in Stage /\ c # "selection"
      BY NothingIsTyped DEF Cohort
    <2>3. Begins(p, c, overwrite, out)
      BY <2>1, <2>2 DEF RunOodEvaluation, Begins
    <2> QED BY <2>1, <2>2, <2>3
  <1>12. CASE RunShiftStudy(p, overwrite)
    <2> DEFINE out == [Blank(NewVersion) EXCEPT !.judged = dir["ood_a"].judged]
    <2>1. out \in Artifact /\ out.ver = NewVersion
      BY <1>2, <1>3, <1>4, NothingIsTyped DEF Artifact, Cohort
    <2>2. Begins(p, "shift_study", overwrite, out)
      BY <1>12, <2>1 DEF RunShiftStudy, Begins
    <2> QED BY <2>1, <2>2, NothingIsTyped
  <1>13. CASE RunRobustnessComparison(p, overwrite)
    <2> DEFINE out == [Blank(NewVersion) EXCEPT !.judged = dir["models"].pipeline]
    <2>1. out \in Artifact /\ out.ver = NewVersion
      BY <1>2, <1>3, <1>4, NothingIsTyped DEF Artifact
    <2>2. Begins(p, "comparison", overwrite, out)
      BY <1>13, <2>1 DEF RunRobustnessComparison, Begins
    <2> QED BY <2>1, <2>2, NothingIsTyped
  <1>14. CASE RunPolicySelection(p, overwrite)
    <2> DEFINE out(promoted) == [Blank(NewVersion) EXCEPT
                  !.judged = dir["comparison"].judged,
                  !.policy = NewVersion, !.promoted = promoted,
                  !.dataset = dir["dataset"].ver, !.features = dir["features"].ver]
    <2> PICK promoted \in BOOLEAN : Start(p, "selection", overwrite, out(promoted))
      BY <1>14 DEF RunPolicySelection
    <2>1. /\ out(promoted) \in Artifact /\ out(promoted).ver = NewVersion
          /\ out(promoted).judged = dir["comparison"].judged
          /\ out(promoted).policy = NewVersion
      BY <1>2, <1>3, <1>4, NothingIsTyped DEF Artifact
    <2>2. Begins(p, "selection", overwrite, out(promoted))
      BY <1>14, <2>1 DEF RunPolicySelection, LoadFrozenCandidate, Begins, Whole
    <2> QED BY <2>1, <2>2, NothingIsTyped
  <1> QED BY <1>6, <1>7, <1>8, <1>9, <1>10, <1>11, <1>12, <1>13, <1>14 DEF StageBegins

(* A stage that begins takes a version of its own, having seen its way. *)
LEMMA BeginsInv ==
    ASSUME PipelineInv, NEW p \in Proc, NEW s \in Stage, NEW overwrite \in BOOLEAN,
           NEW out \in Artifact, Begins(p, s, overwrite, out)
    PROVE  PipelineInv'
  <1> USE DEF PipelineInv
  <1> DEFINE begun == [pc |-> "loaded", stage |-> s, overwrite |-> overwrite,
                       since |-> dir[s].ver, out |-> [out EXCEPT !.whole = FALSE],
                       raced |-> FALSE]
  <1>1. /\ UNCHANGED <<dir, bundle, runtime, ever, interrupted, mixed>>
        /\ runs < MaxRuns /\ runs' = runs + 1 /\ proc[p].pc = "idle"
        /\ dir[s].whole => overwrite
        /\ selected \subseteq selected'
        /\ proc' = [proc EXCEPT ![p] = begun]
    BY DEF Begins, Start, MayReplace, Whole
  <1>2. runs \in Nat /\ runs' \in 0 .. MaxRuns /\ runs' \in Nat
    BY <1>1, PipelineAssumption DEF Typed
  <1>3. /\ [out EXCEPT !.whole = FALSE] \in Artifact
        /\ [out EXCEPT !.whole = FALSE].ver = runs + 3
        /\ [out EXCEPT !.whole = FALSE].judged = out.judged
        /\ [out EXCEPT !.whole = FALSE].policy = out.policy
    BY MarkIsTyped DEF Begins, NewVersion
  <1>4. begun \in Process /\ Elsewhere(p) /\ proc'[p] = begun
    <2>1. begun \in Process
      BY <1>3 DEF Process, Typed, Artifact
    <2> QED BY <1>1, <2>1 DEF Elsewhere, Typed
  <1>5. Typed'
    BY <1>1, <1>2, <1>4 DEF Typed, Elsewhere
  <1>6. VersionsAreFresh'
    <2>1. \A r \in Stage : dir[r].ver \in Nat /\ dir[r].ver <= runs + 2
      BY PipelineAssumption DEF Typed, VersionsAreFresh, Artifact, Version
    <2>2. \A q \in Proc : /\ proc[q].since \in Nat /\ proc[q].out.ver \in Nat
                          /\ proc[q].since <= runs + 2 /\ proc[q].out.ver <= runs + 2
      BY PipelineAssumption DEF Typed, VersionsAreFresh, Artifact, Version, Process
    <2>3. /\ proc'[p].since = dir[s].ver /\ proc'[p].out.ver = runs + 3 /\ dir' = dir
          /\ \A q \in Proc \ {p} : proc'[q] = proc[q]
          /\ Busy(p)'
      BY <1>1, <1>3, <1>4 DEF Elsewhere, Busy
    <2>4. \A r \in Stage : dir'[r].ver <= runs' + 2
      BY <1>1, <1>2, <2>1
    <2>5. \A q \in Proc : proc'[q].since <= runs' + 2 /\ proc'[q].out.ver <= runs' + 2
      BY <1>1, <1>2, <2>1, <2>2, <2>3
    <2>6. /\ proc'[p].out.ver > NoVersion
          /\ \A r \in Stage : dir'[r].ver # proc'[p].out.ver
          /\ \A q \in Proc : proc'[q].since # proc'[p].out.ver
          /\ \A q \in Proc \ {p} : proc'[q].out.ver # proc'[p].out.ver
      BY <1>2, <2>1, <2>2, <2>3 DEF NoVersion
    <2>7. \A q \in Proc \ {p} : Busy(q)' => Busy(q)
      BY <2>3 DEF Busy
    <2>8. \A q \in Proc \ {p} : Busy(q)' => dir[s].ver # proc'[q].out.ver
      BY <2>3, <2>7 DEF VersionsAreFresh
    <2> QED BY <2>3, <2>4, <2>5, <2>6, <2>7, <2>8 DEF VersionsAreFresh
  <1>7. InTheWayIsNew'
    BY <1>1, <1>4 DEF InTheWayIsNew, Elsewhere
  <1>8. HalfRemovedIsHeld' /\ RemovedIsHeld'
    BY <1>1, <1>4 DEF HalfRemovedIsHeld, RemovedIsHeld, Elsewhere
  <1>9. SelectionKeepsCandidate'
    BY <1>1, <1>3, <1>4 DEF SelectionKeepsCandidate, HasCandidate, HasCopy, Elsewhere, Begins
  <1>10. PackagingKeepsSelection'
    BY <1>1, <1>4 DEF PackagingKeepsSelection, Elsewhere, Packs
  <1>11. PromotedWasEvaluated' /\ LoaderInv'
    BY <1>1, LoaderUntouched DEF PromotedWasEvaluated, Whole
  <1> QED BY <1>1, <1>5, <1>6, <1>7, <1>8, <1>9, <1>10, <1>11

(* What a stage writes keeps its version, and a selection that promotes    *)
(* copies the pipeline the comparison has now.                             *)
LEMMA WrittenIsTyped ==
    ASSUME PipelineInv, NEW p \in Proc
    PROVE  LET out == proc[p].out
               w == Written(proc[p].stage, out)
           IN /\ w \in Artifact /\ w.ver = out.ver
              /\ proc[p].stage = "selection" =>
                   /\ w.judged = out.judged /\ w.policy = out.policy
                   /\ w.promoted => w.pipeline = dir["comparison"].pipeline
  <1> DEFINE out == proc[p].out
             w == Written(proc[p].stage, out)
  <1>1. out \in Artifact /\ \A s \in Stage : dir[s] \in Artifact
    BY DEF PipelineInv, Typed, Process
  <1>2. dir["models"].pipeline \in Version /\ dir["dataset"].ver \in Version
        /\ dir["features"].ver \in Version /\ dir["comparison"].pipeline \in Version
    BY <1>1, NothingIsTyped DEF Artifact
  <1>3. CASE proc[p].stage = "comparison"
    <2>1. w = [out EXCEPT !.pipeline = dir["models"].pipeline,
                          !.dataset = dir["dataset"].ver,
                          !.features = dir["features"].ver]
      BY <1>3 DEF Written
    <2> QED BY <1>1, <1>2, <1>3, <2>1 DEF Artifact
  <1>4. CASE proc[p].stage = "selection" /\ out.promoted
    <2>1. w = [out EXCEPT !.pipeline = dir["comparison"].pipeline]
      BY <1>4 DEF Written
    <2> QED BY <1>1, <1>2, <1>4, <2>1 DEF Artifact
  <1>5. CASE ~ (proc[p].stage = "comparison") /\ ~ (proc[p].stage = "selection" /\ out.promoted)
    <2>1. w = out
      BY <1>5 DEF Written
    <2> QED BY <1>1, <1>5, <2>1
  <1> QED BY <1>3, <1>4, <1>5

(* The temporary directory holds what the stage computed. *)
LEMMA WriteInv ==
    ASSUME PipelineInv, NEW p \in Proc, Write(p)
    PROVE  PipelineInv'
  <1> USE DEF PipelineInv
  <1> DEFINE out == [Written(proc[p].stage, proc[p].out) EXCEPT !.whole = TRUE]
  <1>1. /\ UNCHANGED <<dir, bundle, runs, runtime, selected, ever, interrupted, mixed>>
        /\ proc[p].pc = "loaded"
        /\ proc' = [proc EXCEPT ![p].pc = "written", ![p].out = out]
    BY DEF Write
  <1>2. /\ out \in Artifact /\ out.whole /\ out.ver = proc[p].out.ver
        /\ proc[p].stage = "selection" =>
             /\ out.judged = proc[p].out.judged /\ out.policy = proc[p].out.policy
             /\ out.promoted => out.pipeline = dir["comparison"].pipeline
    BY WrittenIsTyped, MarkIsTyped
  <1> HIDE DEF out
  <1>3. /\ Elsewhere(p)
        /\ proc'[p].pc = "written" /\ proc'[p].stage = proc[p].stage /\ proc'[p].out = out
        /\ proc'[p].overwrite = proc[p].overwrite /\ proc'[p].since = proc[p].since
        /\ proc'[p].raced = proc[p].raced
    <2>1. proc[p] \in Process
      BY DEF Typed
    <2>2. proc' = [proc EXCEPT ![p] = [proc[p] EXCEPT !.pc = "written", !.out = out]]
      BY <1>1
    <2>3. [proc[p] EXCEPT !.pc = "written", !.out = out] \in Process
      BY <1>2, <2>1 DEF Process
    <2> QED BY <2>1, <2>2, <2>3 DEF Elsewhere, Typed, Process
  <1>4. Typed'
    BY <1>1, <1>2, <1>3 DEF Typed, Elsewhere
  <1>5. VersionsAreFresh'
    <2>1. \A q \in Proc : /\ proc'[q].since = proc[q].since /\ proc'[q].out.ver = proc[q].out.ver
                          /\ Busy(q)' <=> Busy(q)
      BY <1>1, <1>2, <1>3 DEF Elsewhere, Busy
    <2>2. \A s \in Stage : dir'[s].ver = dir[s].ver
      BY <1>1
    <2>3. /\ \A s \in Stage : dir'[s].ver <= runs' + 2
          /\ \A q \in Proc : proc'[q].since <= runs' + 2 /\ proc'[q].out.ver <= runs' + 2
      BY <1>1, <2>1, <2>2 DEF VersionsAreFresh
    <2> QED BY <2>1, <2>2, <2>3 DEF VersionsAreFresh
  <1>6. InTheWayIsNew'
    BY <1>1, <1>3 DEF InTheWayIsNew, Elsewhere
  <1>7. HalfRemovedIsHeld' /\ RemovedIsHeld'
    BY <1>1, <1>3 DEF HalfRemovedIsHeld, RemovedIsHeld, Elsewhere
  <1>8. SelectionKeepsCandidate'
    <2>1. ASSUME NEW q \in Proc \ {p}
          PROVE  proc'[q] = proc[q] /\ (HasCandidate(q)' <=> HasCandidate(q)) /\ (HasCopy(q)' <=> HasCopy(q))
      BY <1>1, <1>3 DEF Elsewhere, HasCandidate, HasCopy
    <2>2. proc[p].stage = "selection" /\ ~ proc[p].raced => HasCandidate(p)
      BY <1>1 DEF SelectionKeepsCandidate
    <2>3. proc'[p].stage = "selection" /\ ~ proc'[p].raced /\ proc'[p].out.promoted => HasCopy(p)'
      <3> SUFFICES ASSUME proc'[p].stage = "selection", ~ proc'[p].raced, proc'[p].out.promoted
                   PROVE  HasCopy(p)'
        OBVIOUS
      <3>1. HasCandidate(p) /\ proc[p].stage = "selection" /\ out.promoted
        BY <1>3, <2>2
      <3>2. out.pipeline = out.judged /\ <<out.pipeline, out.policy>> \in selected
        BY <1>2, <3>1 DEF HasCandidate
      <3>3. proc'[p].out = out /\ selected' = selected
        BY <1>1, <1>3
      <3> QED BY <3>2, <3>3 DEF HasCopy
    <2> QED BY <1>3, <2>1, <2>3 DEF SelectionKeepsCandidate
  <1>9. PackagingKeepsSelection'
    BY <1>1, <1>3 DEF PackagingKeepsSelection, Elsewhere, Packs
  <1>10. PromotedWasEvaluated' /\ LoaderInv'
    BY <1>1, LoaderUntouched DEF PromotedWasEvaluated, Whole
  <1> QED BY <1>1, <1>4, <1>5, <1>6, <1>7, <1>8, <1>9, <1>10

(* rmtree begins: whoever reads from this directory is now known to mix. *)
LEMMA RemoveOldInv ==
    ASSUME PipelineInv, NEW p \in Proc, RemoveOld(p)
    PROVE  PipelineInv'
  <1> USE DEF PipelineInv
  <1> DEFINE s == proc[p].stage
             half == [dir[s] EXCEPT !.whole = FALSE]
             next == IF dir[s] = Absent THEN "removed" ELSE "removing"
  <1>1. /\ UNCHANGED <<bundle, runs, runtime, selected, ever, interrupted, mixed>>
        /\ proc[p].pc = "written"
        /\ dir' = [dir EXCEPT ![s] = half]
        /\ proc' = [q \in Proc |->
              IF q = p THEN [proc[p] EXCEPT !.pc = next]
              ELSE [proc[q] EXCEPT !.raced = @ \/ s \in Sources(q)]]
    BY DEF RemoveOld
  <1>2. /\ s \in Stage /\ dir[s] \in Artifact /\ half \in Artifact /\ ~ half.whole
        /\ half.ver = dir[s].ver /\ (dir[s] = Absent <=> half = Absent)
    <2>1. s \in Stage /\ dir[s] \in Artifact
      BY DEF Typed, Process
    <2>2. half \in Artifact /\ ~ half.whole /\ half.ver = dir[s].ver
      BY <2>1, MarkIsTyped
    <2>3. [Absent EXCEPT !.whole = FALSE] = Absent
      BY MarkTwice, NothingIsTyped
    <2>4. dir[s] # Absent => dir[s].ver # NoVersion
      BY <2>1 DEF Typed, NoVersion
    <2> QED BY <2>1, <2>2, <2>3, <2>4, NothingIsTyped
  <1>3. /\ proc' \in [Proc -> Process]
        /\ proc'[p].pc = next /\ proc'[p].stage = s /\ proc'[p].raced = proc[p].raced
        /\ \A q \in Proc :
             /\ proc'[q].stage = proc[q].stage /\ proc'[q].out = proc[q].out
             /\ proc'[q].overwrite = proc[q].overwrite /\ proc'[q].since = proc[q].since
             /\ q # p => proc'[q].pc = proc[q].pc
             /\ proc[q].raced \/ (q # p /\ s \in Sources(q)) => proc'[q].raced
    <2>1. \A q \in Proc : proc[q] \in Process
      BY DEF Typed
    <2>2. \A q \in Proc : (proc[q].raced \/ s \in Sources(q)) \in BOOLEAN
      BY <2>1
    <2>3. \A q \in Proc : [proc[q] EXCEPT !.raced = proc[q].raced \/ s \in Sources(q)] \in Process
      BY <2>1, <2>2 DEF Process
    <2>4. [proc[p] EXCEPT !.pc = next] \in Process
      BY <2>1 DEF Process
    <2> QED BY <1>1, <2>1, <2>2, <2>3, <2>4 DEF Process
  <1> HIDE DEF half
  <1>4. /\ dir' \in [Stage -> Artifact]
        /\ \A r \in Stage : /\ dir'[r].ver = dir[r].ver /\ (dir'[r] = Absent <=> dir[r] = Absent)
                            /\ r # s => dir'[r] = dir[r]
        /\ ~ dir'[s].whole
    BY <1>1, <1>2 DEF Typed
  <1>5. Typed'
    BY <1>1, <1>3, <1>4 DEF Typed
  <1>6. VersionsAreFresh'
    <2>1. \A q \in Proc : Busy(q)' => Busy(q)
      BY <1>1, <1>3 DEF Busy
    <2> QED BY <1>1, <1>3, <1>4, <2>1 DEF VersionsAreFresh
  <1>7. InTheWayIsNew'
    <2>1. \A q \in Proc : proc[q].stage \in Stage
      BY DEF Typed, Process
    <2> QED BY <1>2, <1>3, <1>4, <2>1 DEF InTheWayIsNew
  <1>8. HalfRemovedIsHeld'
    <2> SUFFICES ASSUME NEW r \in Stage, dir'[r] # Absent, ~ dir'[r].whole, r \notin interrupted'
                 PROVE  \E q \in Proc : proc'[q].stage = r /\ proc'[q].pc = "removing"
      BY DEF HalfRemovedIsHeld
    <2>1. CASE r = s
      BY <1>3, <1>4, <2>1
    <2>2. CASE r # s
      <3>1. PICK q \in Proc : proc[q].stage = r /\ proc[q].pc = "removing"
        BY <1>1, <1>4, <2>2 DEF HalfRemovedIsHeld
      <3> QED BY <1>1, <1>3, <3>1
    <2> QED BY <2>1, <2>2
  <1>9. RemovedIsHeld'
    <2> SUFFICES ASSUME NEW r \in ever, dir'[r] = Absent, r \notin interrupted
                 PROVE  \E q \in Proc : proc'[q].stage = r /\ proc'[q].pc = "removed"
      BY <1>1 DEF RemovedIsHeld
    <2>1. PICK q \in Proc : proc[q].stage = r /\ proc[q].pc = "removed"
      BY <1>4 DEF RemovedIsHeld
    <2> QED BY <1>1, <1>3, <2>1
  <1>10. SelectionKeepsCandidate'
    <2> SUFFICES ASSUME NEW q \in Proc, proc'[q].stage = "selection", ~ proc'[q].raced
                 PROVE  /\ proc'[q].pc = "loaded" => HasCandidate(q)'
                        /\ proc'[q].pc \in {"written", "removing", "removed"}
                           /\ proc'[q].out.promoted => HasCopy(q)'
      BY DEF SelectionKeepsCandidate
    <2>1. proc[q].stage = "selection" /\ ~ proc[q].raced /\ proc'[q].out = proc[q].out
      BY <1>3
    <2>2. HasCopy(q) => HasCopy(q)'
      BY <1>1, <2>1 DEF HasCopy
    <2>3. CASE q = p
      BY <1>1, <1>3, <2>1, <2>2, <2>3 DEF SelectionKeepsCandidate
    <2>4. CASE q # p
      <3>1. proc[q].pc = "loaded" => s # "comparison"
        BY <1>3, <2>1, <2>4 DEF Sources
      <3>2. proc[q].pc = "loaded" /\ HasCandidate(q) => HasCandidate(q)'
        BY <1>1, <1>4, <2>1, <3>1, NothingIsTyped DEF HasCandidate
      <3> QED BY <1>3, <2>1, <2>2, <2>4, <3>2 DEF SelectionKeepsCandidate
    <2> QED BY <2>3, <2>4
  <1>11. PackagingKeepsSelection'
    <2> SUFFICES ASSUME NEW q \in Proc, Packs(q)', ~ proc'[q].raced
                 PROVE  /\ Packs(q) /\ ~ proc[q].raced /\ proc'[q].pc = proc[q].pc
                        /\ proc'[q].out = proc[q].out
                        /\ dir'["selection"] = dir["selection"]
      BY <1>1 DEF PackagingKeepsSelection
    <2>1. q # p
      BY <1>3 DEF Packs
    <2>2. s # "selection"
      BY <1>3, <2>1 DEF Packs, Sources
    <2> QED BY <1>3, <1>4, <2>1, <2>2, NothingIsTyped DEF Packs
  <1>12. PromotedWasEvaluated' /\ LoaderInv'
    <2>1. dir'["selection"].whole => dir'["selection"] = dir["selection"]
      BY <1>4, NothingIsTyped
    <2> QED BY <1>1, <2>1, LoaderUntouched DEF PromotedWasEvaluated, Whole
  <1> QED BY <1>1, <1>5, <1>6, <1>7, <1>8, <1>9, <1>10, <1>11, <1>12

(* The old output goes: of several removers one wins, the others give up. *)
LEMMA RemoveRestInv ==
    ASSUME PipelineInv, NEW p \in Proc, RemoveRest(p)
    PROVE  PipelineInv'
  <1> USE DEF PipelineInv
  <1> DEFINE s == proc[p].stage
  <1>1. /\ UNCHANGED <<bundle, runs, runtime, selected, ever, interrupted, mixed>>
        /\ proc[p].pc = "removing"
    BY DEF RemoveRest
  <1>2. s \in Stage /\ proc[p] \in Process /\ proc \in [Proc -> Process]
        /\ dir \in [Stage -> Artifact]
    BY DEF Typed, Process
  <1>3. CASE dir[s] # Absent /\ ~ dir[s].whole
    <2>1. dir' = [dir EXCEPT ![s] = Absent] /\ proc' = [proc EXCEPT ![p].pc = "removed"]
      BY <1>3 DEF RemoveRest, Whole
    <2>2. /\ proc' \in [Proc -> Process] /\ proc'[p].pc = "removed"
          /\ \A q \in Proc \ {p} : proc'[q] = proc[q]
          /\ \A q \in Proc :
               /\ proc'[q].stage = proc[q].stage /\ proc'[q].out = proc[q].out
               /\ proc'[q].overwrite = proc[q].overwrite /\ proc'[q].since = proc[q].since
               /\ proc'[q].raced = proc[q].raced
      BY <1>2, <2>1 DEF Process
    <2>3. /\ dir' \in [Stage -> Artifact] /\ dir'[s] = Absent
          /\ \A r \in Stage : r # s => dir'[r] = dir[r]
      BY <1>2, <2>1, NothingIsTyped
    <2>4. Typed'
      BY <1>1, <2>2, <2>3 DEF Typed
    <2>5. VersionsAreFresh'
      <3>1. runs \in Nat
        BY PipelineAssumption DEF Typed
      <3>2. /\ \A r \in Stage : dir'[r].ver = dir[r].ver \/ dir'[r].ver = 0
            /\ \A r \in Stage : dir'[r].ver <= runs' + 2
        BY <1>1, <2>3, <3>1, NothingIsTyped DEF VersionsAreFresh, NoVersion
      <3>3. \A q \in Proc : Busy(q)' <=> Busy(q)
        BY <1>1, <2>2 DEF Busy
      <3>4. \A q \in Proc : Busy(q)' => /\ proc'[q].out.ver > NoVersion
                                        /\ \A r \in Stage : dir'[r].ver # proc'[q].out.ver
        BY <2>2, <3>2, <3>3 DEF VersionsAreFresh, NoVersion
      <3> QED BY <1>1, <2>2, <3>2, <3>3, <3>4 DEF VersionsAreFresh
    <2>6. InTheWayIsNew'
      <3>1. \A q \in Proc : proc[q].stage \in Stage
        BY DEF Typed, Process
      <3> QED BY <1>1, <2>2, <2>3, <3>1, NothingIsTyped DEF InTheWayIsNew
    <2>7. HalfRemovedIsHeld'
      BY <1>1, <2>2, <2>3 DEF HalfRemovedIsHeld
    <2>8. RemovedIsHeld'
      BY <1>1, <2>2, <2>3 DEF RemovedIsHeld
    <2>9. SelectionKeepsCandidate'
      <3>1. \A q \in Proc : HasCopy(q) => HasCopy(q)'
        BY <1>1, <2>2 DEF HasCopy
      <3>2. \A q \in Proc : HasCandidate(q) => HasCandidate(q)'
        BY <1>1, <1>3, <2>2, <2>3, NothingIsTyped DEF HasCandidate
      <3> QED BY <1>1, <2>2, <3>1, <3>2 DEF SelectionKeepsCandidate
    <2>10. dir["selection"].whole \/ dir'["selection"].whole => dir'["selection"] = dir["selection"]
      BY <1>3, <2>3, NothingIsTyped
    <2>11. PackagingKeepsSelection'
      BY <1>1, <2>2, <2>10 DEF PackagingKeepsSelection, Packs
    <2>12. PromotedWasEvaluated' /\ LoaderInv'
      BY <1>1, <2>10, LoaderUntouched DEF PromotedWasEvaluated, Whole
    <2> QED BY <1>1, <2>4, <2>5, <2>6, <2>7, <2>8, <2>9, <2>11, <2>12
  <1>4. CASE dir[s] = Absent \/ dir[s].whole
    <2>1. dir' = dir /\ proc' = [proc EXCEPT ![p] = Idle]
      BY <1>4 DEF RemoveRest, Whole
    <2>2. /\ proc' \in [Proc -> Process] /\ proc'[p] = Idle
          /\ \A q \in Proc \ {p} : proc'[q] = proc[q]
      BY <1>2, <2>1, NothingIsTyped
    <2>3. Typed'
      BY <1>1, <2>1, <2>2, NothingIsTyped DEF Typed
    <2>4. VersionsAreFresh'
      <3>1. runs \in Nat
        BY PipelineAssumption DEF Typed
      <3> QED BY <1>1, <2>1, <2>2, <3>1, NothingIsTyped DEF VersionsAreFresh, Busy, NoVersion
    <2>5. InTheWayIsNew'
      BY <2>1, <2>2, NothingIsTyped DEF InTheWayIsNew
    <2>6. HalfRemovedIsHeld'
      BY <1>1, <1>4, <2>1, <2>2 DEF HalfRemovedIsHeld
    <2>7. RemovedIsHeld'
      BY <1>1, <2>1, <2>2 DEF RemovedIsHeld
    <2>8. SelectionKeepsCandidate' /\ PackagingKeepsSelection'
      BY <1>1, <2>1, <2>2, NothingIsTyped
         DEF SelectionKeepsCandidate, HasCandidate, HasCopy, PackagingKeepsSelection, Packs
    <2>9. PromotedWasEvaluated' /\ LoaderInv'
      BY <1>1, <2>1, LoaderUntouched DEF PromotedWasEvaluated, Whole
    <2> QED BY <1>1, <2>3, <2>4, <2>5, <2>6, <2>7, <2>8, <2>9
  <1> QED BY <1>3, <1>4

(* The new output appears, if nothing is in its place. *)
LEMMA RenameInv ==
    ASSUME PipelineInv, NEW p \in Proc, Rename(p)
    PROVE  PipelineInv'
  <1> USE DEF PipelineInv
  <1> DEFINE s == proc[p].stage
  <1>1. /\ UNCHANGED <<bundle, runs, runtime, selected>>
        /\ proc[p].pc = "removed"
        /\ mixed' \in {mixed, mixed \/ (proc[p].raced /\ proc[p].out.promoted)}
        /\ proc' = [proc EXCEPT ![p] = Idle]
    BY DEF Rename
  <1>2. /\ s \in Stage /\ proc[p] \in Process /\ proc[p].raced \in BOOLEAN
        /\ proc[p].out \in Artifact /\ proc[p].out.whole /\ proc[p].out.promoted \in BOOLEAN
        /\ proc \in [Proc -> Process] /\ dir \in [Stage -> Artifact]
    BY <1>1 DEF Typed, Process, Artifact
  <1>3. /\ proc' \in [Proc -> Process] /\ proc'[p] = Idle
        /\ \A q \in Proc \ {p} : proc'[q] = proc[q]
    BY <1>1, <1>2, NothingIsTyped
  <1>4. mixed' \in BOOLEAN /\ (mixed => mixed')
    BY <1>1, <1>2 DEF Typed
  <1>5. LoaderInv'
    BY <1>1, <1>4, LoaderUntouched
  <1>6. CASE dir[s] = Absent
    <2>1. /\ dir' = [dir EXCEPT ![s] = proc[p].out]
          /\ ever' = ever \cup {s} /\ interrupted' = interrupted \ {s}
          /\ ~ mixed' => ~ mixed /\ ~ (proc[p].raced /\ proc[p].out.promoted)
      BY <1>6 DEF Rename
    <2>2. /\ dir' \in [Stage -> Artifact] /\ dir'[s] = proc[p].out
          /\ \A r \in Stage : r # s => dir'[r] = dir[r]
      BY <1>2, <2>1
    <2>3. Busy(p)
      BY <1>1 DEF Busy
    <2>4. proc[p].out.ver > NoVersion
      BY <2>3 DEF VersionsAreFresh
    <2>5. Typed'
      BY <1>1, <1>3, <1>4, <2>2, <2>4, NothingIsTyped DEF Typed
    <2>6. VersionsAreFresh'
      <3>1. runs \in Nat
        BY PipelineAssumption DEF Typed
      <3>2. \A r \in Stage : dir'[r].ver <= runs' + 2
        BY <1>1, <2>2 DEF VersionsAreFresh
      <3>3. \A q \in Proc : proc'[q].since <= runs' + 2 /\ proc'[q].out.ver <= runs' + 2
        BY <1>1, <1>3, <3>1, NothingIsTyped DEF VersionsAreFresh, NoVersion
      <3>4. \A q \in Proc : Busy(q)' => q # p /\ Busy(q) /\ proc'[q] = proc[q]
        BY <1>3, NothingIsTyped DEF Busy
      <3>5. \A q \in Proc : Busy(q)' => \A r \in Stage : dir'[r].ver # proc'[q].out.ver
        BY <2>2, <2>3, <3>4 DEF VersionsAreFresh
      <3> QED BY <3>2, <3>3, <3>4, <3>5 DEF VersionsAreFresh
    <2>7. InTheWayIsNew'
      <3>1. \A q \in Proc : proc'[q].pc \in {"loaded", "written"} =>
               q # p /\ proc'[q] = proc[q] /\ proc[q].stage \in Stage /\ Busy(q)
        BY <1>2, <1>3, NothingIsTyped DEF Busy, Process
      <3>2. \A q \in Proc : Busy(q) => proc[q].since # proc[p].out.ver
        BY <2>3 DEF VersionsAreFresh
      <3> QED BY <2>2, <3>1, <3>2 DEF InTheWayIsNew
    <2>8. HalfRemovedIsHeld' /\ RemovedIsHeld' /\ ever' \subseteq Stage
      <3>1. dir'[s].whole /\ dir'[s] # Absent
        BY <1>2, <2>2, NothingIsTyped
      <3>2. \A q \in Proc : proc[q].stage # s => q # p /\ proc'[q] = proc[q]
        BY <1>3
      <3>3. HalfRemovedIsHeld'
        BY <2>1, <2>2, <3>1, <3>2 DEF HalfRemovedIsHeld
      <3>4. RemovedIsHeld'
        BY <2>1, <2>2, <3>1, <3>2 DEF RemovedIsHeld
      <3> QED BY <1>2, <2>1, <3>3, <3>4
    <2>9. SelectionKeepsCandidate'
      <3>1. \A q \in Proc \ {p} : HasCopy(q) => HasCopy(q)'
        BY <1>1, <1>3 DEF HasCopy
      <3>2. \A q \in Proc \ {p} : HasCandidate(q) => HasCandidate(q)'
        BY <1>1, <1>3, <1>6, <2>2, NothingIsTyped DEF HasCandidate
      <3> QED BY <1>3, <3>1, <3>2, NothingIsTyped DEF SelectionKeepsCandidate
    <2>10. PackagingKeepsSelection'
      <3>1. dir["selection"].whole => dir'["selection"] = dir["selection"]
        BY <1>6, <2>2, NothingIsTyped
      <3>2. \A q \in Proc : Packs(q)' => q # p /\ proc'[q] = proc[q] /\ Packs(q)
        BY <1>3, NothingIsTyped DEF Packs
      <3> QED BY <1>1, <3>1, <3>2 DEF PackagingKeepsSelection
    <2>11. PromotedWasEvaluated'
      <3>1. CASE s = "selection"
        <4>1. ~ mixed' /\ proc[p].out.promoted => HasCopy(p)
          BY <1>1, <2>1, <3>1 DEF SelectionKeepsCandidate
        <4> QED BY <1>1, <2>2, <3>1, <4>1 DEF PromotedWasEvaluated, HasCopy
      <3>2. CASE s # "selection"
        <4>1. dir'["selection"] = dir["selection"]
          BY <2>2, <3>2, NothingIsTyped
        <4> QED BY <1>1, <1>4, <4>1 DEF PromotedWasEvaluated, Whole
      <3> QED BY <3>1, <3>2
    <2> QED BY <1>5, <2>5, <2>6, <2>7, <2>8, <2>9, <2>10, <2>11
  <1>7. CASE dir[s] # Absent
    <2>1. UNCHANGED <<dir, ever, interrupted>>
      BY <1>7 DEF Rename
    <2>2. Typed'
      BY <1>1, <1>3, <1>4, <2>1, NothingIsTyped DEF Typed
    <2>3. VersionsAreFresh'
      <3>1. runs \in Nat
        BY PipelineAssumption DEF Typed
      <3> QED BY <1>1, <1>3, <2>1, <3>1, NothingIsTyped DEF VersionsAreFresh, Busy, NoVersion
    <2>4. InTheWayIsNew'
      BY <1>3, <2>1, NothingIsTyped DEF InTheWayIsNew
    <2>5. HalfRemovedIsHeld'
      BY <1>1, <1>3, <2>1 DEF HalfRemovedIsHeld
    <2>6. RemovedIsHeld'
      BY <1>1, <1>3, <1>7, <2>1 DEF RemovedIsHeld
    <2>7. SelectionKeepsCandidate' /\ PackagingKeepsSelection'
      BY <1>1, <1>3, <2>1, NothingIsTyped
         DEF SelectionKeepsCandidate, HasCandidate, HasCopy, PackagingKeepsSelection, Packs
    <2>8. PromotedWasEvaluated'
      BY <1>1, <1>4, <2>1 DEF PromotedWasEvaluated, Whole
    <2> QED BY <1>5, <2>1, <2>2, <2>3, <2>4, <2>5, <2>6, <2>7, <2>8
  <1> QED BY <1>6, <1>7

----------------------------------------------------------------------------
(* Packaging: the bundle, file by file.                                    *)

(* A packaging step of p: no directory and no stage is touched, the bundle *)
(* and the loader stay typed, and p stays out of the way of the stages.    *)
PackStep(p) ==
    /\ UNCHANGED <<dir, selected, ever, interrupted>>
    /\ runtime' \in Runtime
    /\ runs' \in 0 .. MaxRuns /\ runs <= runs'
    /\ bundle' \in Bundle
    /\ mixed' \in BOOLEAN /\ (mixed => mixed')
    /\ Elsewhere(p)
    /\ proc[p].pc \notin {"loaded", "written", "removing", "removed"}
    /\ proc'[p].pc \notin {"loaded", "written", "removing", "removed"}
    /\ proc'[p].since <= runs' + 2 /\ proc'[p].out.ver <= runs' + 2

(* Such a step concerns only the bundle and who packs. *)
LEMMA PackStepInv ==
    ASSUME PipelineInv, NEW p \in Proc, PackStep(p)
    PROVE  /\ Typed' /\ VersionsAreFresh' /\ InTheWayIsNew' /\ HalfRemovedIsHeld' /\ RemovedIsHeld'
           /\ ever' \subseteq Stage /\ SelectionKeepsCandidate' /\ PromotedWasEvaluated'
  <1> USE DEF PipelineInv
  <1>1. /\ UNCHANGED <<dir, selected, ever, interrupted>>
        /\ \A q \in Proc \ {p} : proc'[q] = proc[q]
    BY DEF PackStep, Elsewhere
  <1>2. Typed'
    BY <1>1 DEF PackStep, Elsewhere, Typed
  <1>3. VersionsAreFresh'
    <2>1. runs \in Nat /\ runs' \in Nat /\ runs <= runs'
      BY PipelineAssumption DEF Typed, PackStep
    <2>2. /\ \A s \in Stage : dir[s].ver \in Nat
          /\ \A q \in Proc : proc[q].since \in Nat /\ proc[q].out.ver \in Nat
      BY PipelineAssumption DEF Typed, Artifact, Version, Process
    <2>3. \A s \in Stage : dir'[s].ver <= runs' + 2
      BY <1>1, <2>1, <2>2 DEF VersionsAreFresh
    <2>4. \A q \in Proc : proc'[q].since <= runs' + 2 /\ proc'[q].out.ver <= runs' + 2
      BY <1>1, <2>1, <2>2 DEF VersionsAreFresh, PackStep
    <2>5. \A q \in Proc : Busy(q)' => q # p /\ Busy(q) /\ proc'[q] = proc[q]
      BY <1>1 DEF Busy, PackStep
    <2> QED BY <1>1, <2>3, <2>4, <2>5 DEF VersionsAreFresh
  <1>4. InTheWayIsNew'
    BY <1>1 DEF PackStep, InTheWayIsNew
  <1>5. HalfRemovedIsHeld' /\ RemovedIsHeld'
    BY <1>1 DEF PackStep, HalfRemovedIsHeld, RemovedIsHeld
  <1>6. SelectionKeepsCandidate'
    BY <1>1 DEF PackStep, SelectionKeepsCandidate, HasCandidate, HasCopy
  <1>7. PromotedWasEvaluated'
    BY <1>1 DEF PackStep, PromotedWasEvaluated, Whole
  <1> QED BY <1>1, <1>2, <1>3, <1>4, <1>5, <1>6, <1>7

(* A packaging begins with a selection before it. *)
LEMMA PackageInv ==
    ASSUME PipelineInv, NEW p \in Proc, NEW overwrite \in BOOLEAN, Package(p, overwrite)
    PROVE  PipelineInv'
  <1> DEFINE out == [Absent EXCEPT !.pipeline = dir["selection"].pipeline]
             begun == [Idle EXCEPT !.pc = "packing", !.stage = "selection",
                                   !.overwrite = overwrite, !.out = out]
  <1>1. /\ UNCHANGED <<dir, bundle, runtime, selected, ever, interrupted, mixed>>
        /\ proc[p].pc = "idle" /\ runs < MaxRuns /\ runs' = runs + 1
        /\ dir["selection"].whole /\ dir["selection"].promoted
        /\ proc' = [proc EXCEPT ![p] = begun]
    BY DEF Package, Whole
  <1>2. /\ out \in Artifact /\ out.ver = NoVersion
        /\ out.pipeline = dir["selection"].pipeline
    BY NothingIsTyped DEF PipelineInv, Typed, Artifact
  <1>3. /\ begun \in Process /\ begun.pc = "packing" /\ begun.since = NoVersion
        /\ begun.out = out
    <2> HIDE DEF out
    <2> QED BY <1>2, NothingIsTyped DEF Process
  <1> HIDE DEF begun
  <1>4. Elsewhere(p) /\ proc'[p] = begun
    BY <1>1, <1>3 DEF Elsewhere, PipelineInv, Typed
  <1>5. runs' \in 0 .. MaxRuns /\ runs <= runs' /\ NoVersion <= runs' + 2
    BY <1>1, PipelineAssumption DEF PipelineInv, Typed, NoVersion
  <1>6. PackStep(p)
    BY <1>1, <1>2, <1>3, <1>4, <1>5 DEF PackStep, PipelineInv, Typed
  <1>7. PackagingKeepsSelection'
    BY <1>1, <1>2, <1>3, <1>4 DEF PackagingKeepsSelection, Packs, Elsewhere, PipelineInv
  <1>8. LoaderInv'
    BY <1>1, LoaderUntouched DEF PipelineInv
  <1> QED BY <1>6, <1>7, <1>8, PackStepInv DEF PipelineInv

(* Copying a file marks it for a loader that has checked it already.       *)
LEMMA SwapIsTyped ==
    ASSUME runtime \in Runtime, NEW checked, NEW file \in File, SwapIf(checked, file)
    PROVE  /\ runtime' \in Runtime
           /\ runtime' = [runtime EXCEPT !.swapped = runtime'.swapped]
           /\ runtime.swapped \subseteq runtime'.swapped
           /\ runtime.pc \in checked => file \in runtime'.swapped
  BY DEF SwapIf, Runtime

(* A file is copied: whoever has not loaded it yet knows, or reads it anew. *)
LEMMA CopyLoaderInv ==
    ASSUME PipelineInv, NEW p \in Proc, CopyPipeline(p) \/ CopyPolicy(p)
    PROVE  runtime' \in Runtime /\ LoaderInv'
  <1>1. /\ bundle \in Bundle /\ runtime \in Runtime /\ LoaderInv
        /\ selected' = selected /\ mixed' = mixed
    BY DEF PipelineInv, Typed, CopyPipeline, CopyPolicy
  <1>2. ~ mixed => <<dir["selection"].pipeline, dir["selection"].policy>> \in selected
    BY DEF PipelineInv, PromotedWasEvaluated, CopyPipeline, CopyPolicy
  <1>3. ~ mixed => Evaluated(1, dir["selection"].pipeline) /\ Evaluated(2, dir["selection"].policy)
    BY <1>2 DEF Evaluated
  <1>4. CASE CopyPipeline(p)
    <2>1. /\ bundle'.pipeline = dir["selection"].pipeline /\ bundle'.policy = bundle.policy
          /\ bundle'.metaPipeline = bundle.metaPipeline /\ bundle'.metaPolicy = bundle.metaPolicy
      BY <1>1, <1>4 DEF CopyPipeline, Bundle
    <2>2. /\ runtime' \in Runtime /\ runtime' = [runtime EXCEPT !.swapped = runtime'.swapped]
          /\ runtime.swapped \subseteq runtime'.swapped
          /\ runtime.pc \in {"model", "policy"} => "pipeline" \in runtime'.swapped
      BY <1>1, <1>4, SwapIsTyped DEF CopyPipeline, File
    <2>3. /\ runtime'.pc = runtime.pc /\ runtime'.pipeline = runtime.pipeline
          /\ runtime'.policy = runtime.policy /\ runtime'.metaPipeline = runtime.metaPipeline
          /\ runtime'.metaPolicy = runtime.metaPolicy
      BY <1>1, <2>2 DEF Runtime
    <2>4. BundleWasSelected'
      BY <1>1, <1>3, <2>1 DEF LoaderInv, BundleWasSelected, Evaluated
    <2>5. ChecksHold'
      BY <1>1, <2>1, <2>2, <2>3 DEF LoaderInv, ChecksHold
    <2>6. ReadWasSelected'
      BY <1>1, <1>3, <2>1, <2>3 DEF LoaderInv, ReadWasSelected, Evaluated
    <2> QED BY <2>2, <2>4, <2>5, <2>6 DEF LoaderInv
  <1>5. CASE CopyPolicy(p)
    <2>1. /\ bundle'.pipeline = bundle.pipeline /\ bundle'.policy = dir["selection"].policy
          /\ bundle'.metaPipeline = bundle.metaPipeline /\ bundle'.metaPolicy = bundle.metaPolicy
      BY <1>1, <1>5 DEF CopyPolicy, Bundle
    <2>2. /\ runtime' \in Runtime /\ runtime' = [runtime EXCEPT !.swapped = runtime'.swapped]
          /\ runtime.swapped \subseteq runtime'.swapped
          /\ runtime.pc \in {"policy", "opened"} => "policy" \in runtime'.swapped
      BY <1>1, <1>5, SwapIsTyped DEF CopyPolicy, File
    <2>3. /\ runtime'.pc = runtime.pc /\ runtime'.pipeline = runtime.pipeline
          /\ runtime'.policy = runtime.policy /\ runtime'.metaPipeline = runtime.metaPipeline
          /\ runtime'.metaPolicy = runtime.metaPolicy
      BY <1>1, <2>2 DEF Runtime
    <2>4. BundleWasSelected'
      BY <1>1, <1>3, <2>1 DEF LoaderInv, BundleWasSelected, Evaluated
    <2>5. ChecksHold'
      BY <1>1, <2>1, <2>2, <2>3 DEF LoaderInv, ChecksHold
    <2>6. ReadWasSelected'
      BY <1>1, <1>3, <2>1, <2>3 DEF LoaderInv, ReadWasSelected, Evaluated
    <2> QED BY <2>2, <2>4, <2>5, <2>6 DEF LoaderInv
  <1> QED BY <1>4, <1>5

(* Of the stages and packagings, a copy disturbs only who hashes a policy. *)
LEMMA CopyInv ==
    ASSUME PipelineInv, NEW p \in Proc, CopyPipeline(p) \/ CopyPolicy(p)
    PROVE  PipelineInv'
  <1>1. /\ UNCHANGED <<dir, runs, selected, ever, interrupted, mixed>>
        /\ proc[p].pc \in {"packing", "piped"}
    BY DEF CopyPipeline, CopyPolicy
  <1>2. /\ proc[p] \in Process /\ proc \in [Proc -> Process] /\ proc[p].out \in Artifact
        /\ dir["selection"].pipeline \in Version /\ dir["selection"].policy \in Version
    BY NothingIsTyped DEF PipelineInv, Typed, Process, Artifact
  <1>3. /\ bundle' \in Bundle
        /\ bundle'.policy = bundle.policy \/ bundle'.policy = dir["selection"].policy
        /\ CopyPolicy(p) => bundle'.policy = dir["selection"].policy
    BY <1>2 DEF CopyPipeline, CopyPolicy, PipelineInv, Typed, Bundle
  <1>4. /\ Elsewhere(p) /\ proc'[p].pc \in {"piped", "copied"}
        /\ proc'[p].since = proc[p].since /\ proc'[p].out = proc[p].out
        /\ proc'[p].raced = proc[p].raced
        /\ proc'[p].pc = "copied" => CopyPolicy(p)
    <2>1. CASE CopyPipeline(p)
      <3>1. proc' = [proc EXCEPT ![p] = [proc[p] EXCEPT !.pc = "piped"]]
        BY <2>1 DEF CopyPipeline
      <3> QED BY <1>2, <3>1 DEF Process, Elsewhere
    <2>2. CASE CopyPolicy(p)
      <3>1. proc' = [proc EXCEPT ![p] = [proc[p] EXCEPT !.pc = "copied"]]
        BY <2>2 DEF CopyPolicy
      <3> QED BY <1>2, <2>2, <3>1 DEF Process, Elsewhere
    <2> QED BY <2>1, <2>2
  <1>5. PackStep(p)
    <2>1. proc'[p].since <= runs' + 2 /\ proc'[p].out.ver <= runs' + 2
      BY <1>1, <1>4 DEF PipelineInv, VersionsAreFresh
    <2>2. runs' \in 0 .. MaxRuns /\ runs <= runs'
      BY <1>1, PipelineAssumption DEF PipelineInv, Typed
    <2>3. mixed' \in BOOLEAN /\ (mixed => mixed')
      BY <1>1 DEF PipelineInv, Typed
    <2> QED BY <1>1, <1>3, <1>4, <2>1, <2>2, <2>3, CopyLoaderInv DEF PackStep
  <1>6. PackagingKeepsSelection'
    BY <1>1, <1>3, <1>4 DEF PackagingKeepsSelection, Packs, Elsewhere, PipelineInv
  <1> QED BY <1>5, <1>6, CopyLoaderInv, PackStepInv DEF PipelineInv

(* The hash is that of the policy in the bundle, the selection's if nobody *)
(* has replaced that.                                                      *)
LEMMA HashPolicyInv ==
    ASSUME PipelineInv, NEW p \in Proc, HashPolicy(p)
    PROVE  PipelineInv'
  <1> DEFINE out == [proc[p].out EXCEPT !.policy = bundle.policy]
  <1>1. /\ UNCHANGED <<dir, bundle, runs, runtime, selected, ever, interrupted, mixed>>
        /\ proc[p].pc = "copied"
        /\ proc' = [proc EXCEPT ![p] = [proc[p] EXCEPT !.pc = "hashed", !.out = out]]
    BY DEF HashPolicy
  <1>2. /\ proc[p] \in Process /\ proc \in [Proc -> Process] /\ proc[p].out \in Artifact
        /\ bundle.policy \in Version
    BY DEF PipelineInv, Typed, Process, Bundle
  <1>3. /\ out \in Artifact /\ out.ver = proc[p].out.ver /\ out.pipeline = proc[p].out.pipeline
        /\ out.policy = bundle.policy
    BY <1>2 DEF Artifact
  <1> HIDE DEF out
  <1>4. /\ Elsewhere(p) /\ proc'[p].pc = "hashed" /\ proc'[p].since = proc[p].since
        /\ proc'[p].out = out /\ proc'[p].raced = proc[p].raced
    BY <1>1, <1>2, <1>3 DEF Process, Elsewhere
  <1>5. PackStep(p)
    <2>1. proc'[p].since <= runs' + 2 /\ proc'[p].out.ver <= runs' + 2
      BY <1>1, <1>3, <1>4 DEF PipelineInv, VersionsAreFresh
    <2>2. runs' \in 0 .. MaxRuns /\ runs <= runs'
      BY <1>1, PipelineAssumption DEF PipelineInv, Typed
    <2> QED BY <1>1, <1>4, <2>1, <2>2 DEF PackStep, PipelineInv, Typed
  <1>6. PackagingKeepsSelection'
    BY <1>1, <1>3, <1>4 DEF PackagingKeepsSelection, Packs, Elsewhere, PipelineInv
  <1>7. LoaderInv'
    BY <1>1, LoaderUntouched DEF PipelineInv
  <1> QED BY <1>5, <1>6, <1>7, PackStepInv DEF PipelineInv

(* The metadata names the two files of one evaluated selection. *)
LEMMA WriteMetadataInv ==
    ASSUME PipelineInv, NEW p \in Proc, WriteMetadata(p)
    PROVE  PipelineInv'
  <1>1. /\ UNCHANGED <<dir, runs, runtime, selected, ever, interrupted>>
        /\ proc[p].pc = "hashed" /\ proc' = [proc EXCEPT ![p] = Idle]
        /\ mixed' = (mixed \/ proc[p].raced)
        /\ bundle' = [bundle EXCEPT !.metaPipeline = proc[p].out.pipeline,
                                    !.metaPolicy = proc[p].out.policy]
    BY DEF WriteMetadata
  <1>2. /\ proc \in [Proc -> Process] /\ proc[p].raced \in BOOLEAN
        /\ proc[p].out.pipeline \in Version /\ proc[p].out.policy \in Version
    BY DEF PipelineInv, Typed, Process, Artifact
  <1>3. /\ bundle' \in Bundle /\ bundle'.metaPipeline = proc[p].out.pipeline
        /\ bundle'.metaPolicy = proc[p].out.policy
        /\ bundle'.pipeline = bundle.pipeline /\ bundle'.policy = bundle.policy
    BY <1>1, <1>2 DEF PipelineInv, Typed, Bundle
  <1>4. Elsewhere(p) /\ proc'[p] = Idle
    BY <1>1, <1>2, NothingIsTyped DEF Elsewhere
  <1>5. mixed' \in BOOLEAN /\ (mixed => mixed') /\ (~ mixed' => ~ mixed /\ ~ proc[p].raced)
    BY <1>1, <1>2 DEF PipelineInv, Typed
  <1>6. runs' \in 0 .. MaxRuns /\ runs <= runs' /\ NoVersion <= runs' + 2
    BY <1>1, PipelineAssumption DEF PipelineInv, Typed, NoVersion
  <1>7. PackStep(p)
    BY <1>1, <1>3, <1>4, <1>5, <1>6, NothingIsTyped DEF PackStep, PipelineInv, Typed
  <1>8. PackagingKeepsSelection'
    BY <1>1, <1>3, <1>4, NothingIsTyped DEF PackagingKeepsSelection, Packs, Elsewhere, PipelineInv
  <1>9. LoaderInv'
    <2>1. ~ mixed' => <<bundle'.metaPipeline, bundle'.metaPolicy>> \in selected
      <3> SUFFICES ASSUME ~ mixed' PROVE <<bundle'.metaPipeline, bundle'.metaPolicy>> \in selected
        OBVIOUS
      <3>1. /\ dir["selection"].whole /\ dir["selection"].promoted
            /\ proc[p].out.pipeline = dir["selection"].pipeline
            /\ proc[p].out.policy = dir["selection"].policy
        BY <1>1, <1>5 DEF PipelineInv, PackagingKeepsSelection, Packs
      <3>2. <<dir["selection"].pipeline, dir["selection"].policy>> \in selected
        BY <1>5, <3>1 DEF PipelineInv, PromotedWasEvaluated, Whole
      <3> QED BY <1>3, <3>1, <3>2
    <2>2. BundleWasSelected'
      BY <1>1, <1>3, <1>5, <2>1 DEF PipelineInv, LoaderInv, BundleWasSelected, Evaluated
    <2>3. ChecksHold'
      BY <1>1, <1>3 DEF PipelineInv, LoaderInv, ChecksHold
    <2>4. ReadWasSelected'
      BY <1>1, <1>3, <1>5 DEF PipelineInv, LoaderInv, ReadWasSelected, Evaluated
    <2> QED BY <2>2, <2>3, <2>4 DEF LoaderInv
  <1> QED BY <1>7, <1>8, <1>9, PackStepInv DEF PipelineInv

----------------------------------------------------------------------------
(* The theorems.                                                           *)

(* Every step keeps the invariant. *)
LEMMA PipelineNextInv == PipelineInv /\ [PipelineNext]_pipelineVars => PipelineInv'
  <1> SUFFICES ASSUME PipelineInv, [PipelineNext]_pipelineVars PROVE PipelineInv'
    OBVIOUS
  <1>1. CASE \E p \in Proc, overwrite \in BOOLEAN : StageBegins(p, overwrite)
    <2> PICK p \in Proc, overwrite \in BOOLEAN : StageBegins(p, overwrite)
      BY <1>1
    <2>1. CASE Package(p, overwrite)
      BY <2>1, PackageInv
    <2>2. CASE ~ Package(p, overwrite)
      BY <2>2, StagesBegin, BeginsInv
    <2> QED BY <2>1, <2>2
  <1>2. CASE \E p \in Proc : StageProceeds(p)
    <2> PICK p \in Proc : StageProceeds(p)
      BY <1>2
    <2> QED BY EndsLeave, LeavesInv, WriteInv, RemoveOldInv, RemoveRestInv, RenameInv, CopyInv,
               HashPolicyInv, WriteMetadataInv DEF StageProceeds
  <1>3. CASE LoaderStep
    BY <1>3, LoaderStepInv
  <1>4. CASE UNCHANGED pipelineVars
    BY <1>4 DEF pipelineVars, PipelineInv, Typed, VersionsAreFresh, InTheWayIsNew,
                HalfRemovedIsHeld, RemovedIsHeld, SelectionKeepsCandidate, HasCandidate, HasCopy,
                PackagingKeepsSelection, PromotedWasEvaluated, LoaderInv, BundleWasSelected,
                ChecksHold, ReadWasSelected, Evaluated, Busy, Packs, Whole
  <1> QED BY <1>1, <1>2, <1>3, <1>4 DEF PipelineNext

(* The invariant says all that ArtifactsAreSound says. *)
LEMMA InvIsSound == PipelineInv => ArtifactsAreSound
  <1> SUFFICES ASSUME PipelineInv PROVE ArtifactsAreSound
    OBVIOUS
  <1> USE DEF PipelineInv
  <1>1. PipelineTypeOK
    <2>1. \A f \in DOMAIN bundle : bundle[f] \in Version
      BY DEF Typed, Bundle
    <2>2. \A p \in Proc :
            /\ proc[p].pc \in {"idle", "loaded", "written", "removing", "removed",
                               "packing", "piped", "copied", "hashed"}
            /\ proc[p].stage \in Stage /\ proc[p].out \in Artifact
      BY DEF Typed, Process
    <2>3. \A p \in Proc : proc[p].pc \in {"written", "removing", "removed"} =>
            proc[p].out.whole /\ proc[p].out.ver > NoVersion
      BY DEF Typed, VersionsAreFresh, Busy
    <2>4. \A s \in Stage : dir[s].whole => dir[s].ver > NoVersion
      BY NothingIsTyped DEF Typed
    <2> QED BY <2>1, <2>2, <2>3, <2>4 DEF PipelineTypeOK, Typed
  <1>2. OutputNotLost
    <2> SUFFICES ASSUME NEW s \in ever, ~ dir[s].whole, s \notin interrupted
                 PROVE  \E p \in Proc : /\ proc[p].stage = s /\ proc[p].out.whole
                                        /\ proc[p].pc \in {"removing", "removed"}
      BY DEF OutputNotLost, Whole
    <2>1. PICK p \in Proc : proc[p].stage = s /\ proc[p].pc \in {"removing", "removed"}
      BY DEF HalfRemovedIsHeld, RemovedIsHeld
    <2> QED BY <2>1 DEF Typed
  <1>3. RuntimeWasSelected
    BY DEF LoaderInv, ChecksHold, ReadWasSelected, Evaluated, RuntimeWasSelected
  <1> QED BY <1>1, <1>2, <1>3 DEF ArtifactsAreSound

(* The inductive invariant behind ArtifactsAreSound: fresh versions, a     *)
(* holder for what is half removed or gone, and selections and packagings  *)
(* that keep their source (candidate.py, policy_generate.py, bundle.py).   *)
THEOREM PipelineInvariant == PipelineSpec => []PipelineInv
  <1>1. PipelineInit => PipelineInv
    BY PipelineInitInv
  <1>2. PipelineInv /\ [PipelineNext]_pipelineVars => PipelineInv'
    BY PipelineNextInv
  <1> QED BY <1>1, <1>2, PTL DEF PipelineSpec

(* However many stages run side by side, fail or are killed, no output is  *)
(* lost, and what is promoted, packaged and loaded was evaluated together. *)
THEOREM ArtifactsStaySound == PipelineSpec => []ArtifactsAreSound
  BY PipelineInvariant, InvIsSound, PTL

(* Without --overwrite a stage removes only an output that a rival put     *)
(* there after its check (the check and rmtree of every generate.py).      *)
THEOREM NothingIsReplacedSilently == PipelineSpec => NoSilentReplacement
  <1> DEFINE Replacement ==
        \A s \in Stage : Whole(s) /\ ~ Whole(s)' =>
          \E p \in Proc : /\ proc[p].stage = s /\ proc[p].pc # proc'[p].pc
                          /\ proc[p].overwrite \/ dir[s].ver # proc[p].since
  <1>1. PipelineInv /\ [PipelineNext]_pipelineVars => [Replacement]_pipelineVars
    <2> SUFFICES ASSUME PipelineInv, [PipelineNext]_pipelineVars,
                        NEW s \in Stage, dir[s].whole, ~ dir'[s].whole
                 PROVE  \E p \in Proc : /\ proc[p].stage = s /\ proc[p].pc # proc'[p].pc
                                        /\ proc[p].overwrite \/ dir[s].ver # proc[p].since
      BY DEF Whole
    <2>1. dir' # dir
      OBVIOUS
    <2>2. PICK p \in Proc : RemoveOld(p) \/ RemoveRest(p) \/ Rename(p)
      <3>1. ASSUME NEW p \in Proc, NEW overwrite \in BOOLEAN, StageBegins(p, overwrite)
            PROVE  dir' = dir
        BY <3>1, StagesBegin DEF Begins, Start, Package
      <3>2. \E p \in Proc : StageProceeds(p)
        BY <2>1, <3>1 DEF PipelineNext, pipelineVars, LoaderStep
      <3> QED BY <2>1, <3>2 DEF StageProceeds, Write, WriteFails, RemoveFails, CopyPipeline,
                                CopyPolicy, HashPolicy, WriteMetadata, PackageFails, Kill
    <2>3. proc[p].stage \in Stage /\ dir \in [Stage -> Artifact] /\ proc \in [Proc -> Process]
          /\ (proc[p].pc = "removed" => proc[p].out.whole)
      BY DEF PipelineInv, Typed, Process
    <2>4. ~ RemoveRest(p)
      BY <2>3 DEF RemoveRest, Whole
    <2>5. ~ Rename(p)
      BY <2>3 DEF Rename
    <2>6. RemoveOld(p)
      BY <2>2, <2>4, <2>5
    <2>7. proc[p].pc = "written" /\ proc[p].stage = s
      BY <2>3, <2>6 DEF RemoveOld
    <2>8. proc'[p].pc \in {"removed", "removing"}
      BY <2>3, <2>6 DEF RemoveOld, Process
    <2> QED BY <2>7, <2>8 DEF PipelineInv, InTheWayIsNew
  <1> QED BY <1>1, PipelineInvariant, PTL DEF PipelineSpec, NoSilentReplacement

----------------------------------------------------------------------------
(* The worker and its assembler.                                           *)

(* What a valid event carries, and what the assembler makes of it. *)
Events == Telemetry \ {Malformed}
Measurement == {e.measurement : e \in Events}
Reading == {e.value : e \in Events}
Gathered == UNION {[D -> Reading] : D \in SUBSET Measurement}
Sample == [at : Nat, values : Gathered, age : 0 .. Timeout]
Buffer == [asset : Asset, latest : Nat, pending : Seq(Sample)]

(* The pending samples of one buffer, within its limit: no two of one      *)
(* timestamp, and none that is complete.                                   *)
SoundPending(ps) ==
    /\ ps \in Seq(Sample) /\ Len(ps) <= MaxBuffered
    /\ \A j, k \in 1 .. Len(ps) : ps[j].at = ps[k].at => j = k
    /\ \A j \in 1 .. Len(ps) : ~ Required \subseteq DOMAIN ps[j].values

SoundBuffer(b) == b \in Buffer /\ SoundPending(b.pending)

(* The assembler, as a value. *)
Sound(bs) ==
    /\ bs \in Seq(Buffer) /\ Len(bs) <= MaxAssets
    /\ \A i, j \in 1 .. Len(bs) : bs[i].asset = bs[j].asset => i = j
    /\ \A i \in 1 .. Len(bs) : SoundBuffer(bs[i])

Untracked(bs, a) == \A i \in 1 .. Len(bs) : bs[i].asset # a

(* An asset that was never evicted: without a buffer its session has not   *)
(* begun, and with one it is not ahead of it.                              *)
SessionsAreTracked ==
    \A a \in Asset \ evicted :
      /\ Untracked(buffers, a) => session[a] = Never
      /\ \A i \in 1 .. Len(buffers) : buffers[i].asset = a =>
           /\ session[a] <= buffers[i].latest
           /\ clean => session[a] = buffers[i].latest

(* The rest of a batch is counted as open, the message in hand until it    *)
(* has succeeded.                                                          *)
BatchIsOpen ==
    /\ pc \in {"handling", "committing"} => batch # <<>>
    /\ pc = "handling" => Len(batch) <= open
    /\ pc = "committing" => Len(batch) <= open + 1

WorkerInv ==
    /\ TypeOK /\ Sound(buffers) /\ SessionsAreTracked /\ BatchIsOpen
    /\ RaisesOnlyAfterEviction

----------------------------------------------------------------------------
(* Flattening a sequence of sequences.                                     *)

(* f[i] is the first i sequences, one after the other. *)
Unfolds(f, seqs, n) ==
    f = [i \in 1 .. n |-> IF i = 1 THEN seqs[i] ELSE f[i - 1] \o seqs[i]]

(* Every set of naturals has a least element. *)
LEMMA LeastOf ==
    ASSUME NEW S, S \subseteq Nat, S # {}
    PROVE  \E x \in S : \A y \in S : x <= y
<1> DEFINE R == OpToRel(<, Nat)
<1>1. IsWellFoundedOn(R, Nat)  BY NatLessThanWellFounded
<1>2. PICK x \in S : \A y \in S : <<y, x>> \notin R  BY <1>1, WFMin
<1>3. ASSUME NEW y \in S PROVE x <= y
  <2>1. x \in Nat /\ y \in Nat /\ <<y, x>> \in Nat \X Nat  OBVIOUS
  <2>2. ~ (y < x)  BY <1>2, <2>1 DEF OpToRel
  <2>3. QED  BY <2>1, <2>2
<1>4. QED  BY <1>3

(* FlattenSeq is the last value of a function that appends one sequence    *)
(* after the other: there is no least length without one.                  *)
LEMMA FlattenUnfolds ==
    ASSUME NEW T, NEW seqs \in Seq(Seq(T)), seqs # <<>>
    PROVE  \E f : Unfolds(f, seqs, Len(seqs)) /\ FlattenSeq(seqs) = f[Len(seqs)]
<1> DEFINE Bad == {n \in 1 .. Len(seqs) : ~ \E f : Unfolds(f, seqs, n)}
<1>1. Len(seqs) \in Nat /\ Len(seqs) # 0  OBVIOUS
<1>2. Bad = {}
  <2> SUFFICES ASSUME Bad # {} PROVE FALSE  OBVIOUS
  <2>1. PICK n \in Bad : \A m \in Bad : n <= m
    <3>1. Bad \subseteq Nat  BY <1>1
    <3>2. QED  BY <3>1, LeastOf
  <2>2. n \in 1 .. Len(seqs) /\ n \in Nat  BY <1>1, <2>1
  <2>3. CASE n = 1
    <3> DEFINE g == [i \in 1 .. 1 |-> seqs[i]]
    <3>1. Unfolds(g, seqs, 1)  BY DEF Unfolds
    <3>2. QED  BY <2>1, <2>3, <3>1
  <2>4. CASE n # 1
    <3>1. n - 1 \in 1 .. Len(seqs) /\ n - 1 \notin Bad
      <4>1. n - 1 \in 1 .. Len(seqs) /\ ~ (n <= n - 1)  BY <1>1, <2>2, <2>4
      <4> HIDE DEF Bad
      <4>2. QED  BY <2>1, <4>1
    <3>2. PICK f : Unfolds(f, seqs, n - 1)  BY <3>1
    <3> DEFINE g == [i \in 1 .. n |-> IF i = n THEN f[n - 1] \o seqs[n] ELSE f[i]]
    <3>3. \A i \in 1 .. n : g[i] = IF i = 1 THEN seqs[i] ELSE g[i - 1] \o seqs[i]
      <4> TAKE i \in 1 .. n
      <4>1. CASE i = n
        <5>1. n - 1 \in 1 .. n /\ n - 1 # n  BY <2>2, <2>4
        <5>2. g[n - 1] = f[n - 1]  BY <5>1
        <5>3. n \in 1 .. n  BY <2>2
        <5>4. g[n] = f[n - 1] \o seqs[n]  BY <5>3
        <5>5. QED  BY <2>4, <4>1, <5>2, <5>4
      <4>2. CASE i # n
        <5>1. i \in 1 .. n - 1  BY <2>2, <4>2
        <5>2. f[i] = IF i = 1 THEN seqs[i] ELSE f[i - 1] \o seqs[i]  BY <3>2, <5>1 DEF Unfolds
        <5>3. g[i] = f[i]  BY <4>2
        <5>4. i # 1 => g[i - 1] = f[i - 1]  BY <2>2, <5>1
        <5>5. QED  BY <5>2, <5>3, <5>4
      <4>3. QED  BY <4>1, <4>2
    <3>4. Unfolds(g, seqs, n)  BY <3>3 DEF Unfolds
    <3>5. QED  BY <2>1, <3>4
  <2>5. QED  BY <2>3, <2>4
<1>3. Len(seqs) \in 1 .. Len(seqs)  BY <1>1
<1>4. \E f : Unfolds(f, seqs, Len(seqs))  BY <1>2, <1>3
<1> DEFINE h == CHOOSE f : Unfolds(f, seqs, Len(seqs))
<1>5. Unfolds(h, seqs, Len(seqs))  BY <1>4
<1>6. FlattenSeq(seqs) = h[Len(seqs)]
  BY <1>1 DEF FlattenSeq, Unfolds
<1>7. QED  BY <1>5, <1>6

(* At most one element each; no two elements of one timestamp. *)
Short(seqs) == \A i \in 1 .. Len(seqs) : Len(seqs[i]) <= 1
Distinct(seqs) ==
    \A i, m \in 1 .. Len(seqs) : \A j \in 1 .. Len(seqs[i]) : \A l \in 1 .. Len(seqs[m]) :
      seqs[i][j].at = seqs[m][l].at => i = m /\ j = l

(* What a flattened sequence of sequences holds. *)
LEMMA FlattenFacts ==
    ASSUME NEW T, NEW seqs \in Seq(Seq(T))
    PROVE  /\ FlattenSeq(seqs) \in Seq(T)
           /\ \A k \in 1 .. Len(FlattenSeq(seqs)) : \E i \in 1 .. Len(seqs) : \E j \in 1 .. Len(seqs[i]) :
                FlattenSeq(seqs)[k] = seqs[i][j]
           /\ \A i \in 1 .. Len(seqs) : \A j \in 1 .. Len(seqs[i]) :
                \E k \in 1 .. Len(FlattenSeq(seqs)) : FlattenSeq(seqs)[k] = seqs[i][j]
           /\ Short(seqs) => Len(FlattenSeq(seqs)) <= Len(seqs)
           /\ Distinct(seqs) => \A k, l \in 1 .. Len(FlattenSeq(seqs)) :
                                 FlattenSeq(seqs)[k].at = FlattenSeq(seqs)[l].at => k = l
<1>1. CASE seqs = <<>>
  <2>1. FlattenSeq(seqs) = seqs /\ Len(seqs) = 0  BY <1>1 DEF FlattenSeq
  <2>2. seqs \in Seq(T) /\ 1 .. Len(seqs) = {}  BY <1>1, <2>1
  <2>3. QED  BY <2>1, <2>2
<1>2. CASE seqs # <<>>
  <2>1. PICK f : Unfolds(f, seqs, Len(seqs)) /\ FlattenSeq(seqs) = f[Len(seqs)]
    BY <1>2, FlattenUnfolds
  <2> DEFINE N == Len(seqs)
             From(n) == \A k \in 1 .. Len(f[n]) : \E i \in 1 .. n : \E j \in 1 .. Len(seqs[i]) :
                          f[n][k] = seqs[i][j]
             Into(n) == \A i \in 1 .. n : \A j \in 1 .. Len(seqs[i]) :
                          \E k \in 1 .. Len(f[n]) : f[n][k] = seqs[i][j]
             Few(n) == Short(seqs) => Len(f[n]) <= n
             Apart(n) == Distinct(seqs) => \A k, l \in 1 .. Len(f[n]) : f[n][k].at = f[n][l].at => k = l
             Good(n) == f[n] \in Seq(T) /\ From(n) /\ Into(n) /\ Few(n) /\ Apart(n)
             Bad == {n \in 1 .. N : ~ Good(n)}
  <2>2. N \in Nat /\ N # 0  BY <1>2
  <2>3. ASSUME NEW n \in 1 .. N
        PROVE  /\ seqs[n] \in Seq(T)
               /\ n = 1 => f[n] = seqs[n]
               /\ n # 1 => f[n] = f[n - 1] \o seqs[n]
    <3>1. f = [i \in 1 .. N |-> IF i = 1 THEN seqs[i] ELSE f[i - 1] \o seqs[i]]
      BY <2>1 DEF Unfolds
    <3>2. f[n] = IF n = 1 THEN seqs[n] ELSE f[n - 1] \o seqs[n]
      BY <3>1, Zenon
    <3>3. seqs[n] \in Seq(T)  BY <2>2
    <3>4. QED  BY <3>2, <3>3, Zenon
  <2>4. Good(1)
    <3>1. 1 \in 1 .. N  BY <2>2
    <3>2. f[1] = seqs[1] /\ f[1] \in Seq(T)  BY <2>3, <3>1
    <3>3. \A i \in 1 .. 1 : i = 1  OBVIOUS
    <3>4. From(1) /\ Into(1)  BY <3>2, <3>3
    <3>5. Few(1) /\ Apart(1)  BY <3>1, <3>2 DEF Short, Distinct
    <3>6. QED  BY <3>2, <3>4, <3>5
  <2>5. ASSUME NEW n \in 2 .. N, Good(n - 1) PROVE Good(n)
    <3>1. n \in Nat /\ n - 1 \in Nat /\ n \in 1 .. N /\ n # 1  BY <2>2
    <3> DEFINE a == f[n - 1]
               b == seqs[n]
    <3>2. f[n] = a \o b /\ a \in Seq(T) /\ b \in Seq(T)  BY <2>3, <2>5, <3>1
    <3>3. From(n - 1) /\ Into(n - 1) /\ Few(n - 1) /\ Apart(n - 1)  BY <2>5
    <3> HIDE DEF Good, From, Into, Few, Apart, a, b
    <3>4. /\ a \o b \in Seq(T) /\ Len(a) \in Nat /\ Len(b) \in Nat /\ Len(a \o b) = Len(a) + Len(b)
          /\ \A k \in 1 .. Len(a) : k \in 1 .. Len(a \o b) /\ (a \o b)[k] = a[k]
          /\ \A j \in 1 .. Len(b) : /\ Len(a) + j \in 1 .. Len(a \o b)
                                     /\ (a \o b)[Len(a) + j] = b[j]
          /\ \A k \in 1 .. Len(a \o b) : k \in 1 .. Len(a) \/ k - Len(a) \in 1 .. Len(b)
      BY <3>2
    <3>5. From(n)
      <4> SUFFICES ASSUME NEW k \in 1 .. Len(f[n])
                   PROVE  \E i \in 1 .. n : \E j \in 1 .. Len(seqs[i]) : f[n][k] = seqs[i][j]
        BY DEF From
      <4>1. CASE k \in 1 .. Len(a)
        <5>1. PICK i \in 1 .. n - 1 : \E j \in 1 .. Len(seqs[i]) : a[k] = seqs[i][j]
          BY <3>3, <4>1 DEF From, a
        <5>2. i \in 1 .. n /\ f[n][k] = a[k]  BY <3>1, <3>2, <3>4, <4>1
        <5>3. QED  BY <5>1, <5>2
      <4>2. CASE k - Len(a) \in 1 .. Len(b)
        <5>1. k \in Int /\ k = Len(a) + (k - Len(a))  BY <3>4
        <5>2. f[n][k] = b[k - Len(a)]  BY <3>2, <3>4, <4>2, <5>1
        <5>3. n \in 1 .. n  BY <3>1
        <5>4. QED  BY <4>2, <5>2, <5>3 DEF b
      <4>3. QED  BY <3>2, <3>4, <4>1, <4>2
    <3>6. Into(n)
      <4> SUFFICES ASSUME NEW i \in 1 .. n, NEW j \in 1 .. Len(seqs[i])
                   PROVE  \E k \in 1 .. Len(f[n]) : f[n][k] = seqs[i][j]
        BY DEF Into
      <4>1. CASE i = n
        BY <3>2, <3>4, <4>1 DEF b
      <4>2. CASE i # n
        <5>1. i \in 1 .. n - 1  BY <3>1, <4>2
        <5>2. PICK k \in 1 .. Len(a) : a[k] = seqs[i][j]  BY <3>3, <5>1 DEF Into, a
        <5>3. QED  BY <3>2, <3>4, <5>2
      <4>3. QED  BY <4>1, <4>2
    <3>7. Few(n)
      <4> SUFFICES ASSUME Short(seqs) PROVE Len(f[n]) <= n  BY DEF Few
      <4>1. Len(a) <= n - 1 /\ Len(b) <= 1  BY <3>1, <3>3 DEF Few, Short, a, b
      <4>2. QED  BY <3>1, <3>2, <3>4, <4>1
    <3>8. Apart(n)
      <4> SUFFICES ASSUME Distinct(seqs), NEW k \in 1 .. Len(a \o b), NEW l \in 1 .. Len(a \o b),
                          (a \o b)[k].at = (a \o b)[l].at
                   PROVE  k = l
        BY <3>2 DEF Apart
      <4>1. ASSUME NEW x \in 1 .. Len(a), NEW y \in 1 .. Len(b) PROVE a[x].at # b[y].at
        <5>1. PICK i \in 1 .. n - 1 : \E j \in 1 .. Len(seqs[i]) : a[x] = seqs[i][j]
          BY <3>3 DEF From, a
        <5>2. i \in 1 .. Len(seqs) /\ i # n  BY <2>2, <3>1
        <5>3. PICK j \in 1 .. Len(seqs[i]) : a[x] = seqs[i][j]  BY <5>1
        <5>4. n \in 1 .. Len(seqs)  BY <3>1
        <5>5. y \in 1 .. Len(seqs[n])  BY DEF b
        <5>6. seqs[i][j].at # seqs[n][y].at  BY <5>2, <5>4, <5>5, Zenon DEF Distinct
        <5>7. QED  BY <5>3, <5>6, Zenon DEF b
      <4>2. \A x, y \in 1 .. Len(a) : a[x].at = a[y].at => x = y  BY <3>3 DEF Apart, a
      <4>3. \A x, y \in 1 .. Len(b) : b[x].at = b[y].at => x = y
        <5>1. n \in 1 .. Len(seqs)  BY <3>1
        <5>2. \A x, y \in 1 .. Len(seqs[n]) : seqs[n][x].at = seqs[n][y].at => n = n /\ x = y
          BY <5>1, Zenon DEF Distinct
        <5>3. QED  BY <5>2, Zenon DEF b
      <4>4. \A x \in 1 .. Len(a \o b) : x \in Int /\ x = Len(a) + (x - Len(a))  BY <3>4
      <4>5. \A x \in 1 .. Len(a \o b) : x - Len(a) \in 1 .. Len(b) => (a \o b)[x] = b[x - Len(a)]
        BY <3>4, <4>4
      <4>6. CASE k \in 1 .. Len(a) /\ l \in 1 .. Len(a)  BY <3>4, <4>2, <4>6
      <4>7. CASE k \in 1 .. Len(a) /\ l - Len(a) \in 1 .. Len(b)  BY <3>4, <4>1, <4>5, <4>7
      <4>8. CASE k - Len(a) \in 1 .. Len(b) /\ l \in 1 .. Len(a)  BY <3>4, <4>1, <4>5, <4>8
      <4>9. CASE k - Len(a) \in 1 .. Len(b) /\ l - Len(a) \in 1 .. Len(b)
        <5>1. k - Len(a) = l - Len(a)  BY <4>3, <4>5, <4>9
        <5>2. QED  BY <3>4, <4>4, <5>1
      <4>10. QED  BY <3>4, <4>6, <4>7, <4>8, <4>9
    <3>9. QED  BY <3>2, <3>4, <3>5, <3>6, <3>7, <3>8 DEF Good
  <2> HIDE DEF Good
  <2>6. Bad = {}
    <3> SUFFICES ASSUME Bad # {} PROVE FALSE  OBVIOUS
    <3>1. Bad \subseteq Nat  BY <2>2
    <3>2. PICK n \in Bad : \A m \in Bad : n <= m  BY <3>1, LeastOf
    <3>3. n \in 1 .. N /\ ~ Good(n)  OBVIOUS
    <3>4. n # 1  BY <2>4, <3>3
    <3>5. n \in 2 .. N /\ n - 1 \in 1 .. N /\ ~ (n <= n - 1)  BY <2>2, <3>3, <3>4
    <3>6. Good(n - 1)
      <4>1. n - 1 \notin Bad
        <5> HIDE DEF Bad
        <5>1. QED  BY <3>2, <3>5
      <4>2. QED  BY <3>5, <4>1
    <3>7. QED  BY <2>5, <3>3, <3>5, <3>6
  <2>7. Good(N)
    <3>1. N \in 1 .. N  BY <2>2
    <3>2. QED  BY <2>6, <3>1
  <2>8. QED  BY <2>1, <2>7 DEF Good
<1>3. QED  BY <1>1, <1>2
----------------------------------------------------------------------------
(* Sequences.                                                              *)

(* Where the elements of a concatenation come from. *)
LEMMA ConcatFacts ==
    ASSUME NEW S, NEW a \in Seq(S), NEW b \in Seq(S)
    PROVE  /\ a \o b \in Seq(S) /\ Len(a) \in Nat /\ Len(b) \in Nat /\ Len(a \o b) = Len(a) + Len(b)
           /\ \A k \in 1 .. Len(a) : k \in 1 .. Len(a \o b) /\ (a \o b)[k] = a[k]
           /\ \A j \in 1 .. Len(b) : /\ Len(a) + j \in 1 .. Len(a \o b)
                                     /\ (a \o b)[Len(a) + j] = b[j]
           /\ \A k \in 1 .. Len(a \o b) :
                \/ k \in 1 .. Len(a) /\ (a \o b)[k] = a[k]
                \/ k - Len(a) \in 1 .. Len(b) /\ (a \o b)[k] = b[k - Len(a)]
  OBVIOUS

(* One more element, place by place. *)
LEMMA AppendFacts ==
    ASSUME NEW S, NEW s \in Seq(S), NEW x \in S
    PROVE  /\ Append(s, x) \in Seq(S) /\ Len(s) \in Nat /\ Len(Append(s, x)) = Len(s) + 1
           /\ Append(s, x)[Len(s) + 1] = x /\ Last(Append(s, x)) = x
           /\ \A k \in 1 .. Len(s) : k \in 1 .. Len(s) + 1 /\ Append(s, x)[k] = s[k]
           /\ \A k \in 1 .. Len(s) + 1 : k \in 1 .. Len(s) \/ k = Len(s) + 1
  BY DEF Last

(* The rest of a sequence, place by place. *)
LEMMA TailFacts ==
    ASSUME NEW S, NEW s \in Seq(S), s # <<>>
    PROVE  /\ Tail(s) \in Seq(S) /\ Len(s) \in Nat \ {0} /\ Len(Tail(s)) = Len(s) - 1
           /\ Head(s) = s[1] /\ Head(s) \in S /\ 1 \in 1 .. Len(s)
           /\ \A k \in 1 .. Len(s) - 1 : k + 1 \in 1 .. Len(s) /\ Tail(s)[k] = s[k + 1]
           /\ \A k \in 1 .. Len(s) : k = 1 \/ k - 1 \in 1 .. Len(s) - 1
  OBVIOUS

(* All but the last element, place by place. *)
LEMMA FrontFacts ==
    ASSUME NEW S, NEW s \in Seq(S), s # <<>>
    PROVE  /\ Front(s) \in Seq(S) /\ Len(s) \in Nat \ {0} /\ Len(Front(s)) = Len(s) - 1
           /\ Last(s) = s[Len(s)] /\ Last(s) \in S /\ Len(s) \in 1 .. Len(s)
           /\ \A k \in 1 .. Len(s) - 1 : k \in 1 .. Len(s) /\ Front(s)[k] = s[k] /\ k # Len(s)
           /\ \A k \in 1 .. Len(s) : k = Len(s) \/ k \in 1 .. Len(s) - 1
<1>1. Len(s) \in Nat \ {0} /\ Len(s) \in 1 .. Len(s)  OBVIOUS
<1>2. /\ SubSeq(s, 1, Len(s) - 1) \in Seq(S) /\ Len(SubSeq(s, 1, Len(s) - 1)) = Len(s) - 1
      /\ \A k \in 1 .. Len(s) - 1 : SubSeq(s, 1, Len(s) - 1)[k] = s[k]
  <2>1. SubSeq(s, 1, Len(s) - 1) \in Seq(S)  BY <1>1
  <2>2. Len(SubSeq(s, 1, Len(s) - 1)) = Len(s) - 1  BY <1>1
  <2>3. \A k \in 1 .. Len(s) - 1 : SubSeq(s, 1, Len(s) - 1)[k] = s[k]  BY <1>1
  <2>4. QED  BY <2>1, <2>2, <2>3
<1>3. /\ \A k \in 1 .. Len(s) - 1 : k \in 1 .. Len(s) /\ k # Len(s)
      /\ \A k \in 1 .. Len(s) : k = Len(s) \/ k \in 1 .. Len(s) - 1
  BY <1>1
<1>4. s[Len(s)] \in S  BY <1>1
<1>5. QED  BY <1>1, <1>2, <1>3, <1>4, Zenon DEF Front, Last

(* RemoveAt closes the gap. *)
LEMMA RemoveFacts ==
    ASSUME NEW S, NEW s \in Seq(S), NEW i \in 1 .. Len(s)
    PROVE  /\ RemoveAt(s, i) \in Seq(S) /\ Len(s) \in Nat /\ Len(RemoveAt(s, i)) = Len(s) - 1
           /\ \A k \in 1 .. Len(s) - 1 :
                \/ k < i /\ k \in 1 .. Len(s) /\ RemoveAt(s, i)[k] = s[k]
                \/ i <= k /\ k + 1 \in 1 .. Len(s) /\ RemoveAt(s, i)[k] = s[k + 1]
<1>1. Len(s) \in Nat /\ i \in 1 .. Len(s)  OBVIOUS
<1> DEFINE x == SubSeq(s, 1, i - 1)
           y == SubSeq(s, i + 1, Len(s))
<1>2. x \in Seq(S) /\ Len(x) = i - 1 /\ \A j \in 1 .. i - 1 : x[j] = s[j]
  BY <1>1
<1>3. y \in Seq(S) /\ Len(y) = Len(s) - i /\ \A j \in 1 .. Len(s) - i : y[j] = s[j + i]
  BY <1>1
<1>4. RemoveAt(s, i) = x \o y  BY DEF RemoveAt
<1> HIDE DEF x, y
<1>5. /\ x \o y \in Seq(S) /\ Len(x \o y) = Len(s) - 1
      /\ \A k \in 1 .. Len(x \o y) :
           \/ k \in 1 .. Len(x) /\ (x \o y)[k] = x[k]
           \/ k - Len(x) \in 1 .. Len(y) /\ (x \o y)[k] = y[k - Len(x)]
  <2>0. x \in Seq(S) /\ y \in Seq(S)  BY <1>2, <1>3
  <2>1. /\ x \o y \in Seq(S) /\ Len(x \o y) = Len(x) + Len(y)
        /\ \A k \in 1 .. Len(x \o y) :
             \/ k \in 1 .. Len(x) /\ (x \o y)[k] = x[k]
             \/ k - Len(x) \in 1 .. Len(y) /\ (x \o y)[k] = y[k - Len(x)]
    BY <2>0, ConcatFacts
  <2>2. Len(x) + Len(y) = Len(s) - 1  BY <1>1, <1>2, <1>3
  <2>3. QED  BY <2>1, <2>2, Zenon
<1>6. ASSUME NEW k \in 1 .. Len(s) - 1
      PROVE  \/ k < i /\ k \in 1 .. Len(s) /\ (x \o y)[k] = s[k]
             \/ i <= k /\ k + 1 \in 1 .. Len(s) /\ (x \o y)[k] = s[k + 1]
  <2>1. CASE k \in 1 .. Len(x) /\ (x \o y)[k] = x[k]  BY <1>1, <1>2, <2>1
  <2>2. CASE k - Len(x) \in 1 .. Len(y) /\ (x \o y)[k] = y[k - Len(x)]
    <3>1. k - (i - 1) \in 1 .. Len(s) - i /\ (k - (i - 1)) + i = k + 1  BY <1>1, <1>2, <1>3, <2>2
    <3>2. (x \o y)[k] = s[k + 1]  BY <1>2, <1>3, <2>2, <3>1
    <3>3. i <= k /\ k + 1 \in 1 .. Len(s)  BY <1>1, <3>1
    <3>4. QED  BY <3>2, <3>3
  <2>3. QED  BY <1>1, <1>5, <2>1, <2>2
<1>7. QED  BY <1>1, <1>4, <1>5, <1>6

(* Every element but the one removed has a place of its own in the rest. *)
Places(p, r, s, i) ==
    /\ \A k \in 1 .. Len(s) - 1 : p[k] \in 1 .. Len(s) /\ r[k] = s[p[k]]
    /\ \A j, k \in 1 .. Len(s) - 1 : p[k] # i /\ (p[j] = p[k] => j = k)
    /\ \A m \in 1 .. Len(s) : m # i => \E k \in 1 .. Len(s) - 1 : p[k] = m

LEMMA RemovePlaces ==
    ASSUME NEW S, NEW s \in Seq(S), NEW i \in 1 .. Len(s)
    PROVE  \E p : Places(p, RemoveAt(s, i), s, i)
<1> DEFINE r == RemoveAt(s, i)
           p == [k \in 1 .. Len(s) - 1 |-> IF k < i THEN k ELSE k + 1]
<1>1. /\ Len(s) \in Nat /\ i \in Nat /\ i \in 1 .. Len(s)
      /\ \A k \in 1 .. Len(s) - 1 : \/ k < i /\ k \in 1 .. Len(s) /\ r[k] = s[k]
                                    \/ i <= k /\ k + 1 \in 1 .. Len(s) /\ r[k] = s[k + 1]
  <2>1. Len(s) \in Nat /\ i \in Nat /\ i \in 1 .. Len(s)  OBVIOUS
  <2>2. QED  BY <2>1, RemoveFacts, Zenon
<1> HIDE DEF r
<1>2. ASSUME NEW k \in 1 .. Len(s) - 1 PROVE p[k] \in 1 .. Len(s) /\ r[k] = s[p[k]] /\ p[k] # i
  <2>1. k \in Int /\ p[k] = IF k < i THEN k ELSE k + 1  BY <1>1
  <2>2. CASE k < i  BY <1>1, <2>1, <2>2
  <2>3. CASE ~ (k < i)  BY <1>1, <2>1, <2>3
  <2>4. QED  BY <2>2, <2>3
<1>3. ASSUME NEW j \in 1 .. Len(s) - 1, NEW k \in 1 .. Len(s) - 1, p[j] = p[k] PROVE j = k
  BY <1>1, <1>3
<1>4. ASSUME NEW m \in 1 .. Len(s), m # i PROVE \E k \in 1 .. Len(s) - 1 : p[k] = m
  <2>1. CASE m < i
    <3>1. m \in 1 .. Len(s) - 1  BY <1>1, <2>1
    <3>2. QED  BY <2>1, <3>1
  <2>2. CASE i < m
    <3>1. m - 1 \in 1 .. Len(s) - 1 /\ ~ (m - 1 < i) /\ (m - 1) + 1 = m  BY <1>1, <2>2
    <3>2. p[m - 1] = m  BY <3>1
    <3>3. QED  BY <3>1, <3>2
  <2>3. QED  BY <1>1, <1>4, <2>1, <2>2
<1> HIDE DEF p
<1>5. Places(p, r, s, i)  BY <1>2, <1>3, <1>4 DEF Places
<1>6. QED  BY <1>5 DEF r

----------------------------------------------------------------------------
(* The assembler.                                                          *)

(* A set of places has a least one. *)
LEMMA SmallestIn ==
    ASSUME NEW n \in Nat, NEW I, I \subseteq 1 .. n, I # {}
    PROVE  Min(I) \in I
<1>1. I \subseteq Nat  OBVIOUS
<1>2. PICK x \in I : \A y \in I : x <= y  BY <1>1, LeastOf
<1>3. QED  BY <1>2 DEF Min

(* AssetPlace finds the buffer of an asset that has one. *)
LEMMA AssetPlaceFacts ==
    ASSUME NEW bs \in Seq(Buffer), NEW a
    PROVE  /\ AssetPlace(bs, a) = 0 => Untracked(bs, a)
           /\ AssetPlace(bs, a) # 0 => /\ AssetPlace(bs, a) \in 1 .. Len(bs)
                                       /\ bs[AssetPlace(bs, a)].asset = a
<1> DEFINE I == {i \in 1 .. Len(bs) : bs[i].asset = a}
<1>1. AssetPlace(bs, a) = IF I # {} THEN Min(I) ELSE 0
  BY DEF AssetPlace, SelectInSeq
<1>2. Len(bs) \in Nat /\ I \subseteq 1 .. Len(bs)  OBVIOUS
<1>3. CASE I = {}
  <2>1. Untracked(bs, a)  BY <1>3 DEF Untracked
  <2>2. QED  BY <1>1, <1>3, <2>1
<1>4. CASE I # {}
  <2>1. Min(I) \in I  BY <1>2, <1>4, SmallestIn
  <2>2. Min(I) # 0  BY <1>2, <2>1
  <2>3. QED  BY <1>1, <1>4, <2>1, <2>2
<1>5. QED  BY <1>3, <1>4

(* PendingPlace finds the sample of a timestamp that has one. *)
LEMMA PendingPlaceFacts ==
    ASSUME NEW b \in Buffer, NEW t
    PROVE  /\ PendingPlace(b, t) = 0 => \A j \in 1 .. Len(b.pending) : b.pending[j].at # t
           /\ PendingPlace(b, t) # 0 => /\ PendingPlace(b, t) \in 1 .. Len(b.pending)
                                        /\ b.pending[PendingPlace(b, t)].at = t
<1> DEFINE s == b.pending
           I == {i \in 1 .. Len(s) : s[i].at = t}
<1>1. PendingPlace(b, t) = IF I # {} THEN Min(I) ELSE 0
  BY DEF PendingPlace, SelectInSeq
<1>2. s \in Seq(Sample)  BY DEF Buffer
<1>3. Len(s) \in Nat /\ I \subseteq 1 .. Len(s)  BY <1>2
<1> HIDE DEF s
<1>4. CASE I = {}
  <2>1. \A j \in 1 .. Len(s) : s[j].at # t  BY <1>4
  <2>2. QED  BY <1>1, <1>4, <2>1 DEF s
<1>5. CASE I # {}
  <2>1. Min(I) \in I  BY <1>3, <1>5, SmallestIn
  <2>2. Min(I) # 0  BY <1>3, <2>1
  <2>3. QED  BY <1>1, <1>5, <2>1, <2>2 DEF s
<1>6. QED  BY <1>4, <1>5

(* What a buffer waits for, and what outcomes report. *)
Waits(b) == {<<b.asset, b.pending[j].at>> : j \in 1 .. Len(b.pending)}
Told(os) ==
    {<<os[k].asset, os[k].at>> : k \in {n \in 1 .. Len(os) : os[n].status # "pending"}}

Reports(os) ==
    os \in Seq(OutcomeType) /\ \A k \in 1 .. Len(os) : os[k].status = "rejected"

(* No outcomes report nothing. *)
LEMMA NoReports == Reports(<<>>) /\ Told(<<>>) = {}
  BY DEF Reports, Told

(* What Outcome makes. *)
LEMMA OutcomeFacts ==
    ASSUME NEW a \in Asset, NEW t \in Nat,
           NEW st \in {"pending", "complete", "rejected"},
           NEW r \in {"none", "late", "conflicting_duplicate", "incomplete_timeout"}
    PROVE  /\ Outcome(st, a, t, r) \in OutcomeType /\ Outcome(st, a, t, r).status = st
           /\ Outcome(st, a, t, r).asset = a /\ Outcome(st, a, t, r).at = t
  BY DEF Outcome, OutcomeType

(* ReportIncomplete rejects all that a buffer was waiting for. *)
LEMMA ReportFacts ==
    ASSUME NEW b \in Buffer
    PROVE  Reports(ReportIncomplete(b)) /\ Waits(b) = Told(ReportIncomplete(b))
<1> DEFINE s == b.pending
           os == ReportIncomplete(b)
<1>1. s \in Seq(Sample) /\ Len(s) \in Nat /\ b.asset \in Asset  BY DEF Buffer
<1>2. \A i \in 1 .. Len(s) : s[i].at \in Nat
  <2> HIDE DEF s
  <2>1. \A i \in 1 .. Len(s) : s[i] \in Sample  BY <1>1
  <2>2. QED  BY <2>1 DEF Sample
<1>3. os = [i \in 1 .. Len(s) |-> Rejected(b.asset, s[i].at, "incomplete_timeout")]
  BY DEF ReportIncomplete
<1> HIDE DEF os, s
<1>4. \A i \in 1 .. Len(s) : /\ os[i] \in OutcomeType /\ os[i].status = "rejected"
                             /\ os[i].asset = b.asset /\ os[i].at = s[i].at
  BY <1>1, <1>2, <1>3, OutcomeFacts DEF Rejected
<1>5. os \in Seq(OutcomeType) /\ Len(os) = Len(s)  BY <1>1, <1>3, <1>4
<1>6. Reports(os)  BY <1>4, <1>5 DEF Reports
<1>7. {n \in 1 .. Len(os) : os[n].status # "pending"} = 1 .. Len(s)  BY <1>4, <1>5
<1>8. Told(os) = {<<os[k].asset, os[k].at>> : k \in 1 .. Len(s)}  BY <1>7 DEF Told
<1>9. Waits(b) = Told(os)  BY <1>4, <1>8 DEF Waits, s
<1>10. QED  BY <1>6, <1>9 DEF os

(* Reports one after the other, and then any outcome. *)
LEMMA ReportsThen ==
    ASSUME NEW os, Reports(os), NEW more \in Seq(OutcomeType)
    PROVE  /\ os \o more \in Seq(OutcomeType)
           /\ \A k \in 1 .. Len(os \o more) :
                \/ k \in 1 .. Len(os) /\ (os \o more)[k].status = "rejected"
                \/ k - Len(os) \in 1 .. Len(more) /\ (os \o more)[k] = more[k - Len(os)]
           /\ Told(os) \cup Told(more) \subseteq Told(os \o more)
<1> DEFINE b == os \o more
<1>1. os \in Seq(OutcomeType) /\ \A k \in 1 .. Len(os) : os[k].status = "rejected"  BY DEF Reports
<1>2. /\ b \in Seq(OutcomeType) /\ Len(os) \in Nat /\ Len(more) \in Nat
      /\ \A k \in 1 .. Len(os) : k \in 1 .. Len(b) /\ b[k] = os[k]
      /\ \A j \in 1 .. Len(more) : Len(os) + j \in 1 .. Len(b) /\ b[Len(os) + j] = more[j]
  BY <1>1, ConcatFacts
<1>3. \A k \in 1 .. Len(b) : \/ k \in 1 .. Len(os) /\ b[k] = os[k]
                             \/ k - Len(os) \in 1 .. Len(more) /\ b[k] = more[k - Len(os)]
  BY <1>1, ConcatFacts
<1> HIDE DEF b
<1>4. \A k \in 1 .. Len(b) : \/ k \in 1 .. Len(os) /\ b[k].status = "rejected"
                             \/ k - Len(os) \in 1 .. Len(more) /\ b[k] = more[k - Len(os)]
  BY <1>1, <1>3
<1>5. ASSUME NEW w \in Told(os) PROVE w \in Told(b)
  <2>1. PICK k \in 1 .. Len(os) : os[k].status # "pending" /\ w = <<os[k].asset, os[k].at>>
    BY <1>5 DEF Told
  <2>2. QED  BY <1>2, <2>1 DEF Told
<1>6. ASSUME NEW w \in Told(more) PROVE w \in Told(b)
  <2>1. PICK k \in 1 .. Len(more) : more[k].status # "pending" /\ w = <<more[k].asset, more[k].at>>
    BY <1>6 DEF Told
  <2>2. QED  BY <1>2, <2>1 DEF Told
<1>7. QED  BY <1>2, <1>4, <1>5, <1>6 DEF b

(* Buffers that come from a sound assembler, each from a place of its own. *)
Drawn(cs, bs, p) ==
    /\ cs \in Seq(Buffer)
    /\ \A k \in 1 .. Len(cs) : p[k] \in 1 .. Len(bs) /\ cs[k] = bs[p[k]]
    /\ \A j, k \in 1 .. Len(cs) : p[j] = p[k] => j = k

(* They and one more buffer, of an asset that is not among them, are sound *)
(* if they fit.                                                            *)
LEMMA DrawnIsSound ==
    ASSUME NEW bs, Sound(bs), NEW cs, NEW p, Drawn(cs, bs, p), Len(cs) < MaxAssets,
           NEW b, SoundBuffer(b), \A k \in 1 .. Len(cs) : cs[k].asset # b.asset
    PROVE  /\ Sound(Append(cs, b)) /\ Append(cs, b) # <<>>
           /\ Last(Append(cs, b)) = b /\ Len(Append(cs, b)) = Len(cs) + 1
           /\ \A k \in 1 .. Len(cs) : Append(cs, b)[k] = cs[k]
           /\ Waiting(Append(cs, b)) = Waiting(cs) \cup Waits(b)
<1> DEFINE ds == Append(cs, b)
<1>1. cs \in Seq(Buffer) /\ b \in Buffer  BY DEF Drawn, SoundBuffer
<1>2. /\ ds \in Seq(Buffer) /\ Len(cs) \in Nat /\ Len(ds) = Len(cs) + 1
      /\ ds[Len(cs) + 1] = b /\ Last(ds) = b
      /\ \A k \in 1 .. Len(cs) : k \in 1 .. Len(cs) + 1 /\ ds[k] = cs[k]
      /\ \A k \in 1 .. Len(cs) + 1 : k \in 1 .. Len(cs) \/ k = Len(cs) + 1
  BY <1>1, AppendFacts
<1> HIDE DEF ds
<1>3. \A k \in 1 .. Len(cs) : SoundBuffer(cs[k])  BY DEF Drawn, Sound
<1>4. \A j, k \in 1 .. Len(cs) : cs[j].asset = cs[k].asset => j = k
  <2> SUFFICES ASSUME NEW j \in 1 .. Len(cs), NEW k \in 1 .. Len(cs), cs[j].asset = cs[k].asset
               PROVE  j = k
    OBVIOUS
  <2>1. p[j] \in 1 .. Len(bs) /\ p[k] \in 1 .. Len(bs) /\ bs[p[j]].asset = bs[p[k]].asset
    BY DEF Drawn
  <2>2. p[j] = p[k]  BY <2>1 DEF Sound
  <2>3. QED  BY <2>2 DEF Drawn
<1>5. \A k \in 1 .. Len(ds) : SoundBuffer(ds[k])  BY <1>2, <1>3
<1>6. \A j, k \in 1 .. Len(ds) : ds[j].asset = ds[k].asset => j = k  BY <1>2, <1>4
<1>7. Len(ds) <= MaxAssets /\ ds # <<>>  BY <1>2, AssemblyAssumption
<1>8. Sound(ds)  BY <1>2, <1>5, <1>6, <1>7 DEF Sound
<1>9. \A w : w \in Waiting(ds) <=> w \in Waiting(cs) \/ w \in Waits(b)
  <2>1. \A w, es : w \in Waiting(es) <=> \E i \in 1 .. Len(es) : w \in Waits(es[i])
    BY DEF Waiting, Waits
  <2>2. Len(cs) + 1 \in 1 .. Len(ds)  BY <1>2
  <2>3. QED  BY <1>2, <2>1, <2>2
<1>10. QED  BY <1>2, <1>7, <1>8, <1>9 DEF ds

(* A new buffer waits for nothing. *)
LEMMA NewBufferFacts ==
    ASSUME NEW a \in Asset
    PROVE  /\ SoundBuffer(AssetBuffer(a)) /\ AssetBuffer(a).asset = a
           /\ AssetBuffer(a).latest = Never /\ AssetBuffer(a).pending = <<>>
           /\ Waits(AssetBuffer(a)) = {}
<1> DEFINE b == AssetBuffer(a)
<1>1. b = [asset |-> a, latest |-> Never, pending |-> <<>>]  BY DEF AssetBuffer
<1>2. b \in Buffer /\ b.asset = a /\ b.latest = Never /\ b.pending = <<>>
  BY <1>1 DEF Buffer, Never
<1>3. Len(b.pending) = 0 /\ 1 .. Len(b.pending) = {}  BY <1>2
<1> HIDE DEF b
<1>4. Len(b.pending) <= MaxBuffered  BY <1>3, AssemblyAssumption
<1>5. SoundBuffer(b)
  <2>1. b.pending \in Seq(Sample)  BY <1>2
  <2>2. QED  BY <1>2, <1>3, <1>4, <2>1 DEF SoundBuffer, SoundPending
<1>6. Waits(b) = {}  BY <1>3 DEF Waits
<1>7. QED  BY <1>2, <1>5, <1>6 DEF b

(* The assembler waits for what one of its buffers waits for. *)
LEMMA WaitingFacts ==
    ASSUME NEW bs, NEW w
    PROVE  w \in Waiting(bs) <=> \E i \in 1 .. Len(bs) : w \in Waits(bs[i])
  BY DEF Waiting, Waits

(* What _buffer_for does to the assembler. *)
Found(f, bs, a) ==
    /\ Sound(f.buffers) /\ f.buffers # <<>> /\ Last(f.buffers).asset = a
    /\ Reports(f.outcomes)
    /\ \/ \E i \in 1 .. Len(bs) : Last(f.buffers) = bs[i]
       \/ Untracked(bs, a) /\ Last(f.buffers) = AssetBuffer(a)
    /\ \A k \in 1 .. Len(f.buffers) :
         k = Len(f.buffers) \/ \E i \in 1 .. Len(bs) : f.buffers[k] = bs[i]
    /\ Waiting(bs) \subseteq Waiting(f.buffers) \cup Told(f.outcomes)

(* Whether it finds a buffer, makes one or evicts another to make it. *)
LEMMA BufferForFacts ==
    ASSUME NEW bs, Sound(bs), NEW a \in Asset
    PROVE  Found(BufferFor(bs, a), bs, a)
<1> DEFINE f == BufferFor(bs, a)
           place == AssetPlace(bs, a)
           full == Len(bs) >= MaxAssets
<1>1. /\ bs \in Seq(Buffer) /\ Len(bs) \in Nat /\ Len(bs) <= MaxAssets
      /\ \A i, j \in 1 .. Len(bs) : bs[i].asset = bs[j].asset => i = j
      /\ \A i \in 1 .. Len(bs) : SoundBuffer(bs[i])
      /\ MaxAssets \in Nat \ {0}
  BY AssemblyAssumption DEF Sound
<1>2. CASE place = 0 /\ ~ full
  <2>1. f = [buffers |-> Append(bs, AssetBuffer(a)), outcomes |-> <<>>]
    BY <1>2 DEF BufferFor, NewBufferFor
  <2>2. f.buffers = Append(bs, AssetBuffer(a)) /\ f.outcomes = <<>>  BY <2>1
  <2>3. Untracked(bs, a)  BY <1>1, <1>2, AssetPlaceFacts
  <2>4. Drawn(bs, bs, [k \in 1 .. Len(bs) |-> k])  BY <1>1 DEF Drawn
  <2>5. /\ Sound(f.buffers) /\ f.buffers # <<>> /\ Last(f.buffers) = AssetBuffer(a)
        /\ Len(f.buffers) = Len(bs) + 1 /\ \A k \in 1 .. Len(bs) : f.buffers[k] = bs[k]
        /\ Waiting(f.buffers) = Waiting(bs) \cup Waits(AssetBuffer(a))
    <3>1. Len(bs) < MaxAssets  BY <1>1, <1>2
    <3>2. \A k \in 1 .. Len(bs) : bs[k].asset # AssetBuffer(a).asset
      BY <2>3, NewBufferFacts DEF Untracked
    <3>3. QED  BY <2>2, <2>4, <3>1, <3>2, NewBufferFacts, DrawnIsSound
  <2>6. \A k \in 1 .. Len(f.buffers) : k = Len(f.buffers) \/ k \in 1 .. Len(bs)
    BY <1>1, <2>5
  <2> HIDE DEF f
  <2>7. QED  BY <2>2, <2>3, <2>5, <2>6, NewBufferFacts, NoReports DEF Found, f
<1>3. CASE place = 0 /\ full
  <2>1. f = [buffers |-> Append(Tail(bs), AssetBuffer(a)), outcomes |-> ReportIncomplete(Head(bs))]
    BY <1>3 DEF BufferFor, NewBufferFor
  <2>2. /\ f.buffers = Append(Tail(bs), AssetBuffer(a))
        /\ f.outcomes = ReportIncomplete(Head(bs))
    BY <2>1
  <2>3. Untracked(bs, a)  BY <1>1, <1>3, AssetPlaceFacts
  <2>4. bs # <<>>  BY <1>1, <1>3
  <2> DEFINE cs == Tail(bs)
  <2>5. /\ cs \in Seq(Buffer) /\ Len(bs) \in Nat \ {0} /\ Len(cs) = Len(bs) - 1
        /\ Head(bs) = bs[1] /\ Head(bs) \in Buffer /\ 1 \in 1 .. Len(bs)
        /\ \A k \in 1 .. Len(bs) - 1 : k + 1 \in 1 .. Len(bs) /\ cs[k] = bs[k + 1]
        /\ \A k \in 1 .. Len(bs) : k = 1 \/ k - 1 \in 1 .. Len(bs) - 1
    BY <1>1, <2>4, TailFacts
  <2> HIDE DEF cs
  <2>6. Drawn(cs, bs, [k \in 1 .. Len(cs) |-> k + 1])  BY <2>5 DEF Drawn
  <2> HIDE DEF f
  <2>7. /\ Sound(f.buffers) /\ f.buffers # <<>> /\ Last(f.buffers) = AssetBuffer(a)
        /\ Len(f.buffers) = Len(cs) + 1 /\ \A k \in 1 .. Len(cs) : f.buffers[k] = cs[k]
        /\ Waiting(f.buffers) = Waiting(cs) \cup Waits(AssetBuffer(a))
    <3>1. Len(cs) < MaxAssets  BY <1>1, <2>5
    <3>2. \A k \in 1 .. Len(cs) : cs[k].asset # AssetBuffer(a).asset
      BY <2>3, <2>5, NewBufferFacts DEF Untracked
    <3>3. f.buffers = Append(cs, AssetBuffer(a))  BY <2>2 DEF cs
    <3>4. QED  BY <2>6, <3>1, <3>2, <3>3, NewBufferFacts, DrawnIsSound
  <2>8. \A k \in 1 .. Len(f.buffers) : k = Len(f.buffers) \/ k \in 1 .. Len(cs)
    BY <2>5, <2>7
  <2>9. \A k \in 1 .. Len(f.buffers) :
          k = Len(f.buffers) \/ \E i \in 1 .. Len(bs) : f.buffers[k] = bs[i]
    <3>1. \A k \in 1 .. Len(cs) : \E i \in 1 .. Len(bs) : cs[k] = bs[i]  BY <2>6 DEF Drawn
    <3>2. QED  BY <2>7, <2>8, <3>1
  <2>10. ASSUME NEW w \in Waiting(bs) PROVE w \in Waiting(f.buffers) \cup Told(f.outcomes)
    <3>1. PICK i \in 1 .. Len(bs) : w \in Waits(bs[i])  BY <2>10, WaitingFacts
    <3>2. CASE i = 1
      <4>1. Waits(bs[1]) = Told(f.outcomes)  BY <2>2, <2>5, ReportFacts
      <4>2. QED  BY <3>1, <3>2, <4>1
    <3>3. CASE i # 1
      <4>1. i - 1 \in 1 .. Len(cs) /\ cs[i - 1] = bs[(i - 1) + 1] /\ (i - 1) + 1 = i
        BY <2>5, <3>3
      <4>2. w \in Waits(cs[i - 1])  BY <3>1, <4>1
      <4>3. w \in Waiting(cs)  BY <4>1, <4>2, WaitingFacts
      <4>4. QED  BY <2>7, <4>3
    <3>4. QED  BY <3>2, <3>3
  <2>11. Reports(f.outcomes)  BY <2>2, <2>5, ReportFacts
  <2>12. QED  BY <2>3, <2>7, <2>9, <2>10, <2>11, NewBufferFacts DEF Found, f
<1>4. CASE place # 0
  <2>1. f = [buffers |-> Append(RemoveAt(bs, place), bs[place]), outcomes |-> <<>>]
    BY <1>4 DEF BufferFor
  <2> DEFINE cs == RemoveAt(bs, place)
  <2>2. f.buffers = Append(cs, bs[place]) /\ f.outcomes = <<>>  BY <2>1
  <2>3. place \in 1 .. Len(bs) /\ bs[place].asset = a  BY <1>1, <1>4, AssetPlaceFacts
  <2> HIDE DEF place, f
  <2>4. cs \in Seq(Buffer) /\ Len(cs) = Len(bs) - 1  BY <1>1, <2>3, RemoveFacts
  <2>5. PICK p : Places(p, cs, bs, place)
    <3>1. \E p : Places(p, RemoveAt(bs, place), bs, place)  BY <1>1, <2>3, RemovePlaces
    <3>2. QED  BY <3>1
  <2> HIDE DEF cs
  <2>6. Drawn(cs, bs, p)  BY <2>4, <2>5 DEF Drawn, Places
  <2>7. /\ Sound(f.buffers) /\ f.buffers # <<>> /\ Last(f.buffers) = bs[place]
        /\ Len(f.buffers) = Len(cs) + 1 /\ \A k \in 1 .. Len(cs) : f.buffers[k] = cs[k]
        /\ Waiting(f.buffers) = Waiting(cs) \cup Waits(bs[place])
    <3>1. Len(cs) < MaxAssets  BY <1>1, <2>4
    <3>2. \A k \in 1 .. Len(cs) : cs[k].asset # bs[place].asset
      <4> TAKE k \in 1 .. Len(cs)
      <4>1. p[k] \in 1 .. Len(bs) /\ p[k] # place /\ cs[k] = bs[p[k]]  BY <2>4, <2>5 DEF Places
      <4>2. QED  BY <1>1, <2>3, <4>1
    <3>3. QED  BY <1>1, <2>2, <2>3, <2>6, <3>1, <3>2, DrawnIsSound
  <2>8. \A k \in 1 .. Len(f.buffers) : k = Len(f.buffers) \/ k \in 1 .. Len(cs)
    BY <1>1, <2>4, <2>7
  <2>9. \A k \in 1 .. Len(f.buffers) :
          k = Len(f.buffers) \/ \E i \in 1 .. Len(bs) : f.buffers[k] = bs[i]
    <3>1. \A k \in 1 .. Len(cs) : \E i \in 1 .. Len(bs) : cs[k] = bs[i]  BY <2>6 DEF Drawn
    <3>2. QED  BY <2>7, <2>8, <3>1
  <2>10. ASSUME NEW w \in Waiting(bs) PROVE w \in Waiting(f.buffers)
    <3>1. PICK i \in 1 .. Len(bs) : w \in Waits(bs[i])  BY <2>10, WaitingFacts
    <3>2. CASE i = place  BY <2>7, <3>1, <3>2
    <3>3. CASE i # place
      <4>1. PICK k \in 1 .. Len(cs) : p[k] = i  BY <2>4, <2>5, <3>3 DEF Places
      <4>2. w \in Waits(cs[k])  BY <2>4, <2>5, <3>1, <4>1 DEF Places
      <4>3. w \in Waiting(cs)  BY <4>1, <4>2, WaitingFacts
      <4>4. QED  BY <2>7, <4>3
    <3>4. QED  BY <3>2, <3>3
  <2>11. QED  BY <2>2, <2>3, <2>7, <2>9, <2>10, NoReports DEF Found, f
<1>5. QED  BY <1>2, <1>3, <1>4

----------------------------------------------------------------------------
(* One buffer.                                                             *)

(* A buffer with other pending samples. *)
LEMMA WithPending ==
    ASSUME NEW b \in Buffer, NEW ps \in Seq(Sample)
    PROVE  /\ [b EXCEPT !.pending = ps] \in Buffer
           /\ [b EXCEPT !.pending = ps].asset = b.asset
           /\ [b EXCEPT !.pending = ps].latest = b.latest
           /\ [b EXCEPT !.pending = ps].pending = ps
  BY DEF Buffer

(* What is left of sound samples is sound. *)
LEMMA RestIsSound ==
    ASSUME NEW ps, SoundPending(ps), ps # <<>>
    PROVE  /\ SoundPending(Tail(ps)) /\ Len(Tail(ps)) < MaxBuffered
           /\ \A j \in 1 .. Len(ps) : j # 1 => j - 1 \in 1 .. Len(Tail(ps)) /\ Tail(ps)[j - 1] = ps[j]
<1>1. /\ ps \in Seq(Sample) /\ Len(ps) <= MaxBuffered
      /\ \A j, k \in 1 .. Len(ps) : ps[j].at = ps[k].at => j = k
      /\ \A j \in 1 .. Len(ps) : ~ Required \subseteq DOMAIN ps[j].values
  BY DEF SoundPending
<1> DEFINE t == Tail(ps)
<1>2. /\ t \in Seq(Sample) /\ Len(ps) \in Nat \ {0} /\ Len(t) = Len(ps) - 1
      /\ \A k \in 1 .. Len(ps) - 1 : k + 1 \in 1 .. Len(ps) /\ t[k] = ps[k + 1]
      /\ \A k \in 1 .. Len(ps) : k = 1 \/ k - 1 \in 1 .. Len(ps) - 1
  BY <1>1, TailFacts
<1> HIDE DEF t
<1>3. Len(t) <= MaxBuffered /\ Len(t) < MaxBuffered  BY <1>1, <1>2, AssemblyAssumption
<1>4. ASSUME NEW j \in 1 .. Len(t), NEW k \in 1 .. Len(t), t[j].at = t[k].at PROVE j = k
  <2>1. j + 1 \in 1 .. Len(ps) /\ k + 1 \in 1 .. Len(ps) /\ ps[j + 1].at = ps[k + 1].at
    BY <1>2, <1>4
  <2>2. j + 1 = k + 1  BY <1>1, <2>1
  <2>3. QED  BY <1>2, <2>2
<1>5. \A j \in 1 .. Len(t) : ~ Required \subseteq DOMAIN t[j].values
  <2> TAKE j \in 1 .. Len(t)
  <2>1. j + 1 \in 1 .. Len(ps) /\ t[j] = ps[j + 1]  BY <1>2
  <2>2. QED  BY <1>1, <2>1
<1>6. ASSUME NEW j \in 1 .. Len(ps), j # 1 PROVE j - 1 \in 1 .. Len(t) /\ t[j - 1] = ps[j]
  <2>1. j - 1 \in 1 .. Len(ps) - 1 /\ (j - 1) + 1 = j  BY <1>2, <1>6
  <2>2. QED  BY <1>2, <2>1
<1>7. SoundPending(t)  BY <1>2, <1>3, <1>4, <1>5 DEF SoundPending
<1>8. QED  BY <1>3, <1>6, <1>7 DEF t

(* A step that keeps the buffer's owner and its last timestamp, and what *)
(* it was waiting for, but for what it reports.                          *)
Keeps(r, b) ==
    /\ SoundBuffer(r.buffer) /\ r.buffer.asset = b.asset /\ r.buffer.latest = b.latest
    /\ Reports(r.outcomes) /\ Waits(b) \subseteq Waits(r.buffer) \cup Told(r.outcomes)

(* The sample that gives way is reported. *)
LEMMA MakeRoomFacts ==
    ASSUME NEW b, SoundBuffer(b)
    PROVE  /\ Keeps(MakeRoom(b), b) /\ Len(MakeRoom(b).buffer.pending) < MaxBuffered
           /\ \A j \in 1 .. Len(MakeRoom(b).buffer.pending) :
                \E k \in 1 .. Len(b.pending) : MakeRoom(b).buffer.pending[j] = b.pending[k]
<1> DEFINE r == MakeRoom(b)
           ps == b.pending
<1>1. b \in Buffer /\ SoundPending(ps) /\ ps \in Seq(Sample) /\ b.asset \in Asset
  BY DEF SoundBuffer, Buffer, SoundPending
<1>2. CASE Len(ps) < MaxBuffered
  <2>1. r = [buffer |-> b, outcomes |-> <<>>]  BY <1>2 DEF MakeRoom
  <2>2. r.buffer = b /\ r.outcomes = <<>>  BY <2>1
  <2> HIDE DEF r
  <2>3. Keeps(r, b)  BY <2>2, NoReports DEF Keeps
  <2>4. QED  BY <1>2, <2>2, <2>3 DEF r
<1>3. CASE ~ Len(ps) < MaxBuffered
  <2> DEFINE o == Rejected(b.asset, Head(ps).at, "incomplete_timeout")
             q == [b EXCEPT !.pending = Tail(ps)]
  <2>1. r = [buffer |-> q, outcomes |-> <<o>>]  BY <1>3 DEF MakeRoom
  <2>2. r.buffer = q /\ r.outcomes = <<o>>  BY <2>1
  <2>3. ps # <<>>  BY <1>1, <1>3, AssemblyAssumption
  <2>4. /\ SoundPending(Tail(ps)) /\ Len(Tail(ps)) < MaxBuffered
        /\ \A j \in 1 .. Len(ps) : j # 1 => j - 1 \in 1 .. Len(Tail(ps)) /\ Tail(ps)[j - 1] = ps[j]
    BY <1>1, <2>3, RestIsSound
  <2>5. /\ Tail(ps) \in Seq(Sample) /\ Head(ps) = ps[1] /\ Head(ps) \in Sample
        /\ Len(Tail(ps)) = Len(ps) - 1
        /\ \A k \in 1 .. Len(ps) - 1 : k + 1 \in 1 .. Len(ps) /\ Tail(ps)[k] = ps[k + 1]
    BY <1>1, <2>3, TailFacts
  <2>6. /\ q \in Buffer /\ q.asset = b.asset /\ q.latest = b.latest /\ q.pending = Tail(ps)
    BY <1>1, <2>5, WithPending
  <2>7. /\ o \in OutcomeType /\ o.status = "rejected" /\ o.asset = b.asset /\ o.at = ps[1].at
    <3>1. Head(ps).at \in Nat  BY <2>5 DEF Sample
    <3>2. QED  BY <1>1, <2>5, <3>1, OutcomeFacts DEF Rejected
  <2> HIDE DEF r, o, q
  <2>8. Reports(<<o>>) /\ Told(<<o>>) = {<<b.asset, ps[1].at>>}
    <3>1. <<o>> \in Seq(OutcomeType) /\ Len(<<o>>) = 1 /\ <<o>>[1] = o /\ 1 .. 1 = {1}  BY <2>7
    <3>2. Reports(<<o>>)  BY <2>7, <3>1 DEF Reports
    <3>3. {n \in 1 .. Len(<<o>>) : <<o>>[n].status # "pending"} = {1}  BY <2>7, <3>1
    <3>4. QED  BY <2>7, <3>1, <3>2, <3>3 DEF Told
  <2>9. ASSUME NEW w \in Waits(b) PROVE w \in Waits(q) \cup Told(<<o>>)
    <3>1. PICK j \in 1 .. Len(ps) : w = <<b.asset, ps[j].at>>  BY <2>9 DEF Waits
    <3>2. CASE j = 1  BY <2>8, <3>1, <3>2
    <3>3. CASE j # 1
      <4>1. j - 1 \in 1 .. Len(q.pending) /\ q.pending[j - 1] = ps[j]  BY <2>4, <2>6, <3>3
      <4>2. QED  BY <2>6, <3>1, <4>1 DEF Waits
    <3>4. QED  BY <3>2, <3>3
  <2>10. Keeps(r, b)  BY <2>2, <2>4, <2>6, <2>8, <2>9 DEF Keeps, SoundBuffer
  <2>11. QED  BY <2>2, <2>4, <2>5, <2>6, <2>10 DEF r
<1>4. QED  BY <1>2, <1>3

(* Sound samples and one more, of a new timestamp, are sound if they fit. *)
LEMMA AddedIsSound ==
    ASSUME NEW ps, SoundPending(ps), Len(ps) < MaxBuffered, NEW x \in Sample,
           ~ Required \subseteq DOMAIN x.values, \A j \in 1 .. Len(ps) : ps[j].at # x.at
    PROVE  /\ SoundPending(Append(ps, x)) /\ Len(ps) + 1 \in 1 .. Len(Append(ps, x))
           /\ Append(ps, x)[Len(ps) + 1] = x
           /\ \A j \in 1 .. Len(ps) : j \in 1 .. Len(Append(ps, x)) /\ Append(ps, x)[j] = ps[j]
<1>1. /\ ps \in Seq(Sample) /\ Len(ps) <= MaxBuffered
      /\ \A j, k \in 1 .. Len(ps) : ps[j].at = ps[k].at => j = k
      /\ \A j \in 1 .. Len(ps) : ~ Required \subseteq DOMAIN ps[j].values
  BY DEF SoundPending
<1> DEFINE t == Append(ps, x)
<1>2. /\ t \in Seq(Sample) /\ Len(ps) \in Nat /\ Len(t) = Len(ps) + 1
      /\ t[Len(ps) + 1] = x
      /\ \A k \in 1 .. Len(ps) : k \in 1 .. Len(ps) + 1 /\ t[k] = ps[k]
      /\ \A k \in 1 .. Len(ps) + 1 : k \in 1 .. Len(ps) \/ k = Len(ps) + 1
  BY <1>1, AppendFacts
<1> HIDE DEF t
<1>3. Len(t) <= MaxBuffered /\ Len(ps) + 1 \in 1 .. Len(t)  BY <1>2, AssemblyAssumption
<1>4. \A j, k \in 1 .. Len(t) : t[j].at = t[k].at => j = k  BY <1>1, <1>2
<1>5. \A j \in 1 .. Len(t) : ~ Required \subseteq DOMAIN t[j].values  BY <1>1, <1>2
<1>6. SoundPending(t)  BY <1>2, <1>3, <1>4, <1>5 DEF SoundPending
<1>7. QED  BY <1>2, <1>3, <1>6 DEF t

(* Sound samples without one of them are sound. *)
LEMMA RemovedIsSound ==
    ASSUME NEW ps, SoundPending(ps), NEW i \in 1 .. Len(ps)
    PROVE  /\ SoundPending(RemoveAt(ps, i))
           /\ \A j \in 1 .. Len(ps) : j # i =>
                \E k \in 1 .. Len(RemoveAt(ps, i)) : RemoveAt(ps, i)[k] = ps[j]
<1>1. /\ ps \in Seq(Sample) /\ Len(ps) \in Nat /\ Len(ps) <= MaxBuffered
      /\ \A j, k \in 1 .. Len(ps) : ps[j].at = ps[k].at => j = k
      /\ \A j \in 1 .. Len(ps) : ~ Required \subseteq DOMAIN ps[j].values
  BY DEF SoundPending
<1> DEFINE t == RemoveAt(ps, i)
<1>2. t \in Seq(Sample) /\ Len(t) = Len(ps) - 1  BY <1>1, RemoveFacts
<1>3. PICK p : Places(p, t, ps, i)
  <2>1. \E p : Places(p, RemoveAt(ps, i), ps, i)  BY <1>1, RemovePlaces
  <2>2. QED  BY <2>1
<1> HIDE DEF t
<1>4. /\ \A k \in 1 .. Len(t) : p[k] \in 1 .. Len(ps) /\ t[k] = ps[p[k]]
      /\ \A j, k \in 1 .. Len(t) : p[j] = p[k] => j = k
      /\ \A j \in 1 .. Len(ps) : j # i => \E k \in 1 .. Len(t) : p[k] = j
  BY <1>2, <1>3 DEF Places
<1>5. Len(t) <= MaxBuffered  BY <1>1, <1>2, AssemblyAssumption
<1>6. \A j, k \in 1 .. Len(t) : t[j].at = t[k].at => j = k
  <2> SUFFICES ASSUME NEW j \in 1 .. Len(t), NEW k \in 1 .. Len(t), t[j].at = t[k].at PROVE j = k
    OBVIOUS
  <2>1. p[j] \in 1 .. Len(ps) /\ p[k] \in 1 .. Len(ps) /\ ps[p[j]].at = ps[p[k]].at  BY <1>4
  <2>2. p[j] = p[k]  BY <1>1, <2>1
  <2>3. QED  BY <1>4, <2>2
<1>7. \A j \in 1 .. Len(t) : ~ Required \subseteq DOMAIN t[j].values  BY <1>1, <1>4
<1>8. SoundPending(t)  BY <1>2, <1>5, <1>6, <1>7 DEF SoundPending
<1>9. QED  BY <1>4, <1>8 DEF t

(* Sound samples stay sound when one of them gains a measurement. *)
LEMMA UpdatedIsSound ==
    ASSUME NEW ps, SoundPending(ps), NEW i \in 1 .. Len(ps), NEW x \in Sample,
           ~ Required \subseteq DOMAIN x.values, x.at = ps[i].at
    PROVE  /\ SoundPending([ps EXCEPT ![i] = x])
           /\ \A j \in 1 .. Len(ps) : /\ j \in 1 .. Len([ps EXCEPT ![i] = x])
                                      /\ [ps EXCEPT ![i] = x][j].at = ps[j].at
<1>1. /\ ps \in Seq(Sample) /\ Len(ps) \in Nat /\ Len(ps) <= MaxBuffered
      /\ \A j, k \in 1 .. Len(ps) : ps[j].at = ps[k].at => j = k
      /\ \A j \in 1 .. Len(ps) : ~ Required \subseteq DOMAIN ps[j].values
  BY DEF SoundPending
<1> DEFINE t == [ps EXCEPT ![i] = x]
<1>2. /\ t \in Seq(Sample) /\ Len(t) = Len(ps)
      /\ \A j \in 1 .. Len(ps) : t[j] = IF j = i THEN x ELSE ps[j]
  BY <1>1
<1> HIDE DEF t
<1>3. \A j \in 1 .. Len(ps) : /\ t[j].at = ps[j].at
                              /\ ~ Required \subseteq DOMAIN t[j].values
  BY <1>1, <1>2
<1>4. SoundPending(t)  BY <1>1, <1>2, <1>3 DEF SoundPending
<1>5. QED  BY <1>2, <1>3, <1>4 DEF t

(* A new sample is not complete: something is required. *)
LEMMA NewSampleFacts ==
    ASSUME NEW t \in Nat
    PROVE  /\ PendingSample(t) \in Sample /\ PendingSample(t).at = t
           /\ ~ Required \subseteq DOMAIN PendingSample(t).values
<1>1. <<>> \in [{} -> Reading] /\ DOMAIN <<>> = {}  OBVIOUS
<1>2. <<>> \in Gathered  BY <1>1 DEF Gathered
<1>3. 0 \in 0 .. Timeout  BY AssemblyAssumption
<1>4. ~ Required \subseteq {}  BY AssemblyAssumption
<1> DEFINE s == PendingSample(t)
<1>5. s = [at |-> t, values |-> <<>>, age |-> 0]  BY DEF PendingSample
<1>6. s \in Sample /\ s.at = t /\ s.values = <<>>
  <2> DEFINE v == <<>>
  <2>1. v \in Gathered  BY <1>2
  <2>2. s = [at |-> t, values |-> v, age |-> 0]  BY <1>5
  <2> HIDE DEF v, s
  <2>3. s \in Sample /\ s.at = t /\ s.values = v  BY <1>3, <2>1, <2>2 DEF Sample
  <2>4. QED  BY <2>3 DEF v
<1>7. QED  BY <1>1, <1>4, <1>6

(* The sample of the timestamp is there, and nothing got lost unreported. *)
LEMMA SampleForFacts ==
    ASSUME NEW b, SoundBuffer(b), NEW t \in Nat
    PROVE  Keeps(SampleFor(b, t), b) /\ PendingPlace(SampleFor(b, t).buffer, t) # 0
<1> DEFINE r == SampleFor(b, t)
<1>1. b \in Buffer  BY DEF SoundBuffer
<1>2. CASE PendingPlace(b, t) # 0
  <2>1. r = [buffer |-> b, outcomes |-> <<>>]  BY <1>2 DEF SampleFor
  <2>2. r.buffer = b /\ r.outcomes = <<>>  BY <2>1
  <2> HIDE DEF r
  <2>3. Keeps(r, b)  BY <2>2, NoReports DEF Keeps
  <2>4. QED  BY <1>2, <2>2, <2>3 DEF r
<1>3. CASE PendingPlace(b, t) = 0
  <2> DEFINE m == MakeRoom(b)
             ps == m.buffer.pending
             x == PendingSample(t)
             q == [m.buffer EXCEPT !.pending = Append(ps, x)]
  <2>1. r = [m EXCEPT !.buffer.pending = Append(@, x)]  BY <1>3 DEF SampleFor
  <2>2. m = [buffer |-> m.buffer, outcomes |-> m.outcomes]  BY DEF MakeRoom
  <2>3. r.buffer = q /\ r.outcomes = m.outcomes  BY <2>1, <2>2
  <2>4. /\ Keeps(m, b) /\ Len(ps) < MaxBuffered
        /\ \A j \in 1 .. Len(ps) : \E k \in 1 .. Len(b.pending) : ps[j] = b.pending[k]
    BY MakeRoomFacts
  <2>5. x \in Sample /\ x.at = t /\ ~ Required \subseteq DOMAIN x.values  BY NewSampleFacts
  <2> HIDE DEF r, x, m
  <2>6. m.buffer \in Buffer /\ SoundPending(ps) /\ ps \in Seq(Sample)
    BY <2>4 DEF Keeps, SoundBuffer, SoundPending
  <2>7. \A j \in 1 .. Len(ps) : ps[j].at # x.at
    <3>1. \A k \in 1 .. Len(b.pending) : b.pending[k].at # t  BY <1>1, <1>3, PendingPlaceFacts
    <3>2. QED  BY <2>4, <2>5, <3>1
  <2> HIDE DEF ps
  <2>8. /\ SoundPending(Append(ps, x)) /\ Len(ps) + 1 \in 1 .. Len(Append(ps, x))
        /\ Append(ps, x)[Len(ps) + 1] = x
        /\ \A j \in 1 .. Len(ps) : j \in 1 .. Len(Append(ps, x)) /\ Append(ps, x)[j] = ps[j]
    BY <2>4, <2>5, <2>6, <2>7, AddedIsSound
  <2>9. /\ q \in Buffer /\ q.asset = m.buffer.asset /\ q.latest = m.buffer.latest
        /\ q.pending = Append(ps, x)
    <3>1. Append(ps, x) \in Seq(Sample)  BY <2>8 DEF SoundPending
    <3>2. QED  BY <2>6, <3>1, WithPending
  <2> HIDE DEF q
  <2>10. ASSUME NEW w \in Waits(m.buffer) PROVE w \in Waits(q)
    <3>1. PICK j \in 1 .. Len(ps) : w = <<m.buffer.asset, ps[j].at>>  BY <2>10 DEF Waits, ps
    <3>2. QED  BY <2>8, <2>9, <3>1 DEF Waits
  <2>11. Keeps(r, b)  BY <2>3, <2>4, <2>8, <2>9, <2>10 DEF Keeps, SoundBuffer
  <2>12. PendingPlace(q, t) # 0
    <3>1. Len(ps) + 1 \in 1 .. Len(q.pending) /\ q.pending[Len(ps) + 1].at = t
      BY <2>5, <2>8, <2>9
    <3>2. QED  BY <2>9, <3>1, PendingPlaceFacts
  <2>13. QED  BY <2>3, <2>11, <2>12 DEF r
<1>4. QED  BY <1>2, <1>3

(* What ingest does to the buffer of an event once its sample is there. *)
Adds(r, b, e) ==
    /\ SoundBuffer(r.buffer) /\ r.buffer.asset = b.asset
    /\ r.outcome \in OutcomeType /\ r.outcome.asset = e.asset
    /\ r.outcome.status = "complete" => r.outcome.at = e.at /\ r.buffer.latest = e.at
    /\ r.outcome.status # "complete" => r.buffer.latest = b.latest
    /\ \A w \in Waits(b) \ Waits(r.buffer) :
         r.outcome.status # "pending" /\ w = <<r.outcome.asset, r.outcome.at>>

(* What a valid event carries. *)
LEMMA EventFacts ==
    ASSUME NEW e \in Events
    PROVE  /\ e.asset \in Asset /\ e.at \in Nat /\ e.at # Never
           /\ e.measurement \in Measurement /\ e.value \in Reading
  BY WorkerAssumption DEF Events, Measurement, Reading

(* A duplicate, a conflict, one more measurement, the last one. *)
LEMMA AddMeasurementFacts ==
    ASSUME NEW b, SoundBuffer(b), NEW e \in Events, b.asset = e.asset,
           PendingPlace(b, e.at) # 0
    PROVE  Adds(AddMeasurement(b, e), b, e)
<1> DEFINE r == AddMeasurement(b, e)
           i == PendingPlace(b, e.at)
           ps == b.pending
           p == ps[i]
           m == e.measurement
           values == [n \in DOMAIN p.values \cup {m} |->
                        IF n = m THEN e.value ELSE p.values[n]]
           rest == RemoveAt(ps, i)
           without == [b EXCEPT !.pending = rest]
           x == [p EXCEPT !.values = values]
<1>1. b \in Buffer /\ SoundPending(ps) /\ ps \in Seq(Sample)  BY DEF SoundBuffer, SoundPending
<1>2. /\ e.asset \in Asset /\ e.at \in Nat /\ m \in Measurement /\ e.value \in Reading
  BY EventFacts
<1>3. i \in 1 .. Len(ps) /\ p.at = e.at /\ p \in Sample  BY <1>1, PendingPlaceFacts
<1>4. \/ m \in DOMAIN p.values /\ p.values[m] = e.value
         /\ r = [buffer |-> b, outcome |-> Buffered(e.asset, e.at)]
      \/ m \in DOMAIN p.values /\ p.values[m] # e.value
         /\ r = [buffer |-> without, outcome |-> Rejected(e.asset, e.at, "conflicting_duplicate")]
      \/ m \notin DOMAIN p.values /\ ~ Required \subseteq DOMAIN values
         /\ r = [buffer |-> [b EXCEPT !.pending[i].values = values],
                 outcome |-> Buffered(e.asset, e.at)]
      \/ m \notin DOMAIN p.values /\ Required \subseteq DOMAIN values
         /\ r = [buffer |-> [without EXCEPT !.latest = e.at], outcome |-> Complete(e.asset, e.at)]
  BY DEF AddMeasurement
<1>5. /\ SoundPending(rest)
      /\ \A j \in 1 .. Len(ps) : j # i => \E k \in 1 .. Len(rest) : rest[k] = ps[j]
  BY <1>1, <1>3, RemovedIsSound
<1>6. /\ without \in Buffer /\ without.asset = b.asset /\ without.latest = b.latest
      /\ without.pending = rest
  <2>1. rest \in Seq(Sample)  BY <1>5 DEF SoundPending
  <2> HIDE DEF rest
  <2>2. QED  BY <1>1, <2>1, WithPending
<1>7. /\ Buffered(e.asset, e.at) \in OutcomeType /\ Buffered(e.asset, e.at).status = "pending"
      /\ Buffered(e.asset, e.at).asset = e.asset
  BY <1>2, OutcomeFacts DEF Buffered
<1>8. \A j \in 1 .. Len(ps) : j = i \/ ps[j].at # e.at  BY <1>1, <1>3 DEF SoundPending
<1>9. ASSUME NEW c, c.asset = b.asset, c.pending = rest, NEW w \in Waits(b) \ Waits(c)
      PROVE  w = <<e.asset, e.at>>
  <2>1. PICK j \in 1 .. Len(ps) : w = <<b.asset, ps[j].at>>  BY <1>9 DEF Waits
  <2>2. CASE j = i  BY <1>3, <2>1, <2>2
  <2>3. CASE j # i
    <3>1. PICK k \in 1 .. Len(rest) : rest[k] = ps[j]  BY <1>5, <2>3
    <3>2. w \in Waits(c)  BY <1>9, <2>1, <3>1 DEF Waits
    <3>3. QED  BY <1>9, <3>2
  <2>4. QED  BY <2>2, <2>3
<1> HIDE DEF r, i, without, values, rest
<1>10. CASE r = [buffer |-> b, outcome |-> Buffered(e.asset, e.at)]
  <2>1. r.buffer = b /\ r.outcome = Buffered(e.asset, e.at)  BY <1>10
  <2>2. QED  BY <1>7, <2>1 DEF Adds, r
<1>11. CASE r = [buffer |-> without, outcome |-> Rejected(e.asset, e.at, "conflicting_duplicate")]
  <2> DEFINE o == Rejected(e.asset, e.at, "conflicting_duplicate")
  <2>1. r.buffer = without /\ r.outcome = o  BY <1>11
  <2>2. o \in OutcomeType /\ o.status = "rejected" /\ o.asset = e.asset /\ o.at = e.at
    BY <1>2, OutcomeFacts DEF Rejected
  <2> HIDE DEF o
  <2>3. SoundBuffer(without)  BY <1>5, <1>6 DEF SoundBuffer
  <2>4. \A w \in Waits(b) \ Waits(without) : w = <<e.asset, e.at>>  BY <1>6, <1>9
  <2>5. QED  BY <1>6, <2>1, <2>2, <2>3, <2>4 DEF Adds, r
<1>12. CASE /\ ~ Required \subseteq DOMAIN values
            /\ r = [buffer |-> [b EXCEPT !.pending[i].values = values],
                    outcome |-> Buffered(e.asset, e.at)]
  <2> DEFINE qs == [ps EXCEPT ![i] = x]
             q == [b EXCEPT !.pending = qs]
  <2>1. r.buffer = q /\ r.outcome = Buffered(e.asset, e.at)  BY <1>12
  <2>2. values \in Gathered
    <3>1. PICK D \in SUBSET Measurement : p.values \in [D -> Reading]
      BY <1>3 DEF Sample, Gathered
    <3>2. D \cup {m} \in SUBSET Measurement /\ values \in [D \cup {m} -> Reading]
      BY <1>2, <3>1 DEF values
    <3>3. QED  BY <3>2 DEF Gathered
  <2>3. x \in Sample /\ x.at = p.at /\ x.values = values  BY <1>3, <2>2 DEF Sample
  <2> HIDE DEF x
  <2>4. /\ SoundPending(qs)
        /\ \A j \in 1 .. Len(ps) : j \in 1 .. Len(qs) /\ qs[j].at = ps[j].at
    <3>1. x.at = ps[i].at /\ ~ Required \subseteq DOMAIN x.values  BY <1>12, <2>3
    <3>2. i \in 1 .. Len(ps) /\ SoundPending(ps) /\ x \in Sample  BY <1>1, <1>3, <2>3
    <3> HIDE DEF ps
    <3>3. QED  BY <3>1, <3>2, UpdatedIsSound
  <2>5. qs \in Seq(Sample)  BY <2>4 DEF SoundPending
  <2> HIDE DEF qs
  <2>6. q \in Buffer /\ q.asset = b.asset /\ q.latest = b.latest /\ q.pending = qs
    BY <1>1, <2>5, WithPending
  <2> HIDE DEF q
  <2>7. ASSUME NEW w \in Waits(b) PROVE w \in Waits(q)
    <3>1. PICK j \in 1 .. Len(ps) : w = <<b.asset, ps[j].at>>  BY <2>7 DEF Waits
    <3>2. QED  BY <2>4, <2>6, <3>1 DEF Waits
  <2>8. SoundBuffer(q)  BY <2>4, <2>6 DEF SoundBuffer
  <2>9. QED  BY <1>7, <2>1, <2>6, <2>7, <2>8 DEF Adds, r
<1>13. CASE r = [buffer |-> [without EXCEPT !.latest = e.at], outcome |-> Complete(e.asset, e.at)]
  <2> DEFINE o == Complete(e.asset, e.at)
             q == [without EXCEPT !.latest = e.at]
  <2>1. r.buffer = q /\ r.outcome = o  BY <1>13
  <2>2. o \in OutcomeType /\ o.status = "complete" /\ o.asset = e.asset /\ o.at = e.at
    BY <1>2, OutcomeFacts DEF Complete
  <2> HIDE DEF o
  <2>3. q \in Buffer /\ q.asset = b.asset /\ q.latest = e.at /\ q.pending = rest
    BY <1>2, <1>6 DEF Buffer
  <2> HIDE DEF q
  <2>4. SoundBuffer(q)  BY <1>5, <2>3 DEF SoundBuffer
  <2>5. \A w \in Waits(b) \ Waits(q) : w = <<e.asset, e.at>>  BY <1>9, <2>3
  <2>6. QED  BY <2>1, <2>2, <2>3, <2>4, <2>5 DEF Adds, r
<1>14. QED  BY <1>4, <1>10, <1>11, <1>12, <1>13

(* What ingest does to the buffer of an event. *)
Ends(os, e) ==
    /\ os \in Seq(OutcomeType) /\ os # <<>> /\ os[Len(os)].asset = e.asset
    /\ \A k \in 1 .. Len(os) : k = Len(os) \/ os[k].status = "rejected"

Takes(r, b, e) ==
    /\ SoundBuffer(r.buffer) /\ r.buffer.asset = b.asset /\ Ends(r.outcomes, e)
    /\ LET o == r.outcomes[Len(r.outcomes)]
       IN /\ o.status = "complete" => b.latest < o.at /\ r.buffer.latest = o.at
          /\ o.status # "complete" => r.buffer.latest = b.latest
    /\ Waits(b) \subseteq Waits(r.buffer) \cup Told(r.outcomes)

(* An outcome for the event, after reports. *)
LEMMA EndsFacts ==
    ASSUME NEW os, Reports(os), NEW o \in OutcomeType, NEW e, o.asset = e.asset
    PROVE  /\ Ends(Append(os, o), e) /\ Append(os, o)[Len(Append(os, o))] = o
           /\ Told(os) \subseteq Told(Append(os, o))
           /\ o.status # "pending" => <<o.asset, o.at>> \in Told(Append(os, o))
<1> DEFINE t == Append(os, o)
<1>1. os \in Seq(OutcomeType) /\ \A k \in 1 .. Len(os) : os[k].status = "rejected"  BY DEF Reports
<1>2. /\ t \in Seq(OutcomeType) /\ Len(os) \in Nat /\ Len(t) = Len(os) + 1
      /\ t[Len(os) + 1] = o
      /\ \A k \in 1 .. Len(os) : k \in 1 .. Len(os) + 1 /\ t[k] = os[k]
      /\ \A k \in 1 .. Len(os) + 1 : k \in 1 .. Len(os) \/ k = Len(os) + 1
  BY <1>1, AppendFacts
<1> HIDE DEF t
<1>3. t # <<>> /\ Len(t) \in 1 .. Len(t)  BY <1>2
<1>4. Ends(t, e)  BY <1>1, <1>2, <1>3 DEF Ends
<1>5. ASSUME NEW w \in Told(os) PROVE w \in Told(t)
  <2>1. PICK k \in 1 .. Len(os) : os[k].status # "pending" /\ w = <<os[k].asset, os[k].at>>
    BY <1>5 DEF Told
  <2>2. QED  BY <1>2, <2>1 DEF Told
<1>6. o.status # "pending" => <<o.asset, o.at>> \in Told(t)  BY <1>2, <1>3 DEF Told
<1>7. QED  BY <1>2, <1>4, <1>5, <1>6 DEF t

(* A late measurement, or one that is added. *)
LEMMA IngestIntoFacts ==
    ASSUME NEW b, SoundBuffer(b), NEW e \in Events, b.asset = e.asset
    PROVE  Takes(IngestInto(b, e), b, e)
<1> DEFINE r == IngestInto(b, e)
<1>1. b.latest \in Nat /\ e.asset \in Asset /\ e.at \in Nat  BY EventFacts DEF SoundBuffer, Buffer
<1>2. CASE Late(b, e.at)
  <2> DEFINE o == Rejected(e.asset, e.at, "late")
  <2>1. r = [buffer |-> b, outcomes |-> <<o>>]  BY <1>2 DEF IngestInto
  <2>2. r.buffer = b /\ r.outcomes = Append(<<>>, o)  BY <2>1
  <2>3. o \in OutcomeType /\ o.status = "rejected" /\ o.asset = e.asset
    BY <1>1, OutcomeFacts DEF Rejected
  <2> HIDE DEF o, r
  <2>4. Ends(r.outcomes, e) /\ r.outcomes[Len(r.outcomes)] = o
    BY <2>2, <2>3, NoReports, EndsFacts
  <2>5. QED  BY <2>2, <2>3, <2>4 DEF Takes, r
<1>3. CASE ~ Late(b, e.at)
  <2> DEFINE f == SampleFor(b, e.at)
             d == AddMeasurement(f.buffer, e)
  <2>1. r = [buffer |-> d.buffer, outcomes |-> Append(f.outcomes, d.outcome)]
    BY <1>3 DEF IngestInto
  <2>2. r.buffer = d.buffer /\ r.outcomes = Append(f.outcomes, d.outcome)  BY <2>1
  <2>3. Keeps(f, b) /\ PendingPlace(f.buffer, e.at) # 0  BY <1>1, SampleForFacts
  <2> HIDE DEF r, f
  <2>4. Adds(d, f.buffer, e)  BY <2>3, AddMeasurementFacts DEF Keeps
  <2> HIDE DEF d
  <2>5. /\ Ends(r.outcomes, e) /\ r.outcomes[Len(r.outcomes)] = d.outcome
        /\ Told(f.outcomes) \subseteq Told(r.outcomes)
        /\ d.outcome.status # "pending" => <<d.outcome.asset, d.outcome.at>> \in Told(r.outcomes)
    <3>1. Reports(f.outcomes) /\ d.outcome \in OutcomeType /\ d.outcome.asset = e.asset
      BY <2>3, <2>4 DEF Keeps, Adds
    <3>2. QED  BY <2>2, <3>1, EndsFacts, Zenon
  <2>6. b.latest < e.at  BY <1>1, <1>3, EventFacts DEF Late, Never
  <2>7. Waits(b) \subseteq Waits(r.buffer) \cup Told(r.outcomes)
    BY <2>2, <2>3, <2>4, <2>5 DEF Keeps, Adds
  <2>8. QED  BY <2>2, <2>3, <2>4, <2>5, <2>6, <2>7 DEF Takes, Keeps, Adds, r
<1>4. QED  BY <1>2, <1>3

----------------------------------------------------------------------------
(* The assembler as a whole.                                               *)

(* Reports before the outcomes of an event. *)
LEMMA ReportsEnd ==
    ASSUME NEW os, Reports(os), NEW more, NEW e, Ends(more, e)
    PROVE  /\ Ends(os \o more, e)
           /\ (os \o more)[Len(os \o more)] = more[Len(more)]
           /\ Told(os) \cup Told(more) \subseteq Told(os \o more)
<1> DEFINE t == os \o more
<1>1. os \in Seq(OutcomeType) /\ more \in Seq(OutcomeType) /\ more # <<>>  BY DEF Reports, Ends
<1>2. /\ t \in Seq(OutcomeType)
      /\ \A k \in 1 .. Len(t) : \/ k \in 1 .. Len(os) /\ t[k].status = "rejected"
                                \/ k - Len(os) \in 1 .. Len(more) /\ t[k] = more[k - Len(os)]
      /\ Told(os) \cup Told(more) \subseteq Told(t)
  BY <1>1, ReportsThen
<1>3. /\ Len(os) \in Nat /\ Len(more) \in Nat /\ Len(t) = Len(os) + Len(more)
      /\ \A j \in 1 .. Len(more) : t[Len(os) + j] = more[j]
  BY <1>1, ConcatFacts
<1> HIDE DEF t
<1>4. Len(more) \in 1 .. Len(more) /\ t # <<>>  BY <1>1, <1>3
<1>5. t[Len(t)] = more[Len(more)]  BY <1>3, <1>4
<1>6. ASSUME NEW k \in 1 .. Len(t), k # Len(t) PROVE t[k].status = "rejected"
  <2>1. CASE k - Len(os) \in 1 .. Len(more) /\ t[k] = more[k - Len(os)]
    <3>1. k - Len(os) # Len(more)  BY <1>3, <1>6
    <3>2. QED  BY <2>1, <3>1 DEF Ends
  <2>2. QED  BY <1>2, <2>1
<1>7. Ends(t, e)  BY <1>2, <1>4, <1>5, <1>6 DEF Ends
<1>8. QED  BY <1>2, <1>5, <1>7 DEF t

(* How far an asset has come, as the assembler remembers it. *)
Remembers(bs, a, t) ==
    \/ Untracked(bs, a) /\ t = Never
    \/ \E i \in 1 .. Len(bs) : bs[i].asset = a /\ bs[i].latest = t

(* What ingest does to the assembler. *)
Ingested(d, bs, e) ==
    LET o == d.outcomes[Len(d.outcomes)]
        n == Len(d.buffers)
    IN /\ Sound(d.buffers) /\ n \in 1 .. n /\ Ends(d.outcomes, e)
       /\ d.buffers[n].asset = e.asset
       /\ \E t : /\ Remembers(bs, e.asset, t)
                 /\ o.status = "complete" => t < o.at /\ d.buffers[n].latest = o.at
                 /\ o.status # "complete" => d.buffers[n].latest = t
       /\ \A k \in 1 .. n : k = n \/ \E i \in 1 .. Len(bs) : d.buffers[k] = bs[i]
       /\ Waiting(bs) \subseteq Waiting(d.buffers) \cup Told(d.outcomes)

(* The whole of ingest: the buffer, made or moved, and then the event. *)
LEMMA IngestFacts ==
    ASSUME NEW bs, Sound(bs), NEW e \in Events
    PROVE  Ingested(Ingest(bs, e), bs, e)
<1> DEFINE d == Ingest(bs, e)
           a == e.asset
           f == BufferFor(bs, a)
           b == Last(f.buffers)
           r == IngestInto(b, e)
           cs == Front(f.buffers)
           ds == Append(cs, r.buffer)
           os == f.outcomes \o r.outcomes
<1>1. d = [buffers |-> ds, outcomes |-> os]  BY DEF Ingest
<1>2. d.buffers = ds /\ d.outcomes = os
  <2> HIDE DEF d, ds, os
  <2>1. QED  BY <1>1
<1>3. Found(f, bs, a)  BY EventFacts, BufferForFacts
<1> HIDE DEF d, f
<1>4. /\ Sound(f.buffers) /\ f.buffers \in Seq(Buffer) /\ f.buffers # <<>> /\ b.asset = a
      /\ Len(f.buffers) <= MaxAssets
      /\ \A i \in 1 .. Len(f.buffers) : SoundBuffer(f.buffers[i])
      /\ \A i, j \in 1 .. Len(f.buffers) : f.buffers[i].asset = f.buffers[j].asset => i = j
  BY <1>3 DEF Found, Sound
<1>5. /\ cs \in Seq(Buffer) /\ Len(f.buffers) \in Nat \ {0} /\ Len(cs) = Len(f.buffers) - 1
      /\ b = f.buffers[Len(f.buffers)] /\ Len(f.buffers) \in 1 .. Len(f.buffers)
      /\ \A k \in 1 .. Len(f.buffers) - 1 :
           k \in 1 .. Len(f.buffers) /\ cs[k] = f.buffers[k] /\ k # Len(f.buffers)
      /\ \A k \in 1 .. Len(f.buffers) : k = Len(f.buffers) \/ k \in 1 .. Len(f.buffers) - 1
  BY <1>4, FrontFacts
<1> HIDE DEF b, cs
<1>6. SoundBuffer(b)  BY <1>4, <1>5
<1>7. Takes(r, b, e)  BY <1>4, <1>6, IngestIntoFacts
<1> HIDE DEF r
<1>8. /\ Ends(os, e) /\ os[Len(os)] = r.outcomes[Len(r.outcomes)]
      /\ Told(f.outcomes) \cup Told(r.outcomes) \subseteq Told(os)
  <2>1. Reports(f.outcomes) /\ Ends(r.outcomes, e)  BY <1>3, <1>7 DEF Found, Takes
  <2>2. QED  BY <2>1, ReportsEnd
<1> HIDE DEF os
<1>9. Drawn(cs, f.buffers, [k \in 1 .. Len(cs) |-> k])  BY <1>5 DEF Drawn
<1>10. /\ Sound(ds) /\ Last(ds) = r.buffer /\ Len(ds) = Len(cs) + 1
       /\ \A k \in 1 .. Len(cs) : ds[k] = cs[k]
       /\ Waiting(ds) = Waiting(cs) \cup Waits(r.buffer)
  <2>1. Len(cs) < MaxAssets  BY <1>4, <1>5, AssemblyAssumption
  <2>2. SoundBuffer(r.buffer) /\ r.buffer.asset = b.asset  BY <1>7 DEF Takes
  <2>3. \A k \in 1 .. Len(cs) : cs[k].asset # r.buffer.asset
    <3> TAKE k \in 1 .. Len(cs)
    <3>1. k \in 1 .. Len(f.buffers) /\ cs[k] = f.buffers[k] /\ k # Len(f.buffers)  BY <1>5
    <3>2. f.buffers[k].asset # f.buffers[Len(f.buffers)].asset  BY <1>4, <1>5, <3>1
    <3>3. QED  BY <1>5, <2>2, <3>1, <3>2
  <2>4. QED  BY <1>4, <1>9, <2>1, <2>2, <2>3, DrawnIsSound
<1> HIDE DEF ds
<1> DEFINE n == Len(ds)
<1>11. n \in 1 .. n /\ ds[n] = r.buffer /\ n = Len(f.buffers)  BY <1>5, <1>10 DEF Last
<1>12. \A k \in 1 .. n : k = n \/ k \in 1 .. Len(cs)  BY <1>5, <1>11
<1>13. \A k \in 1 .. n : k = n \/ \E i \in 1 .. Len(bs) : ds[k] = bs[i]
  <2>1. \A k \in 1 .. Len(cs) : \E i \in 1 .. Len(bs) : f.buffers[k] = bs[i]
    BY <1>3, <1>5 DEF Found
  <2>2. QED  BY <1>5, <1>10, <1>12, <2>1
<1>14. Remembers(bs, a, b.latest)
  <2>1. CASE \E i \in 1 .. Len(bs) : b = bs[i]  BY <1>4, <2>1 DEF Remembers
  <2>2. CASE Untracked(bs, a) /\ b = AssetBuffer(a)
    <3>1. b.latest = Never  BY <2>2, EventFacts, NewBufferFacts
    <3>2. QED  BY <2>2, <3>1 DEF Remembers
  <2>3. QED  BY <1>3, <2>1, <2>2 DEF Found, b
<1>15. ASSUME NEW w \in Waiting(bs) PROVE w \in Waiting(ds) \cup Told(os)
  <2>1. w \in Waiting(f.buffers) \/ w \in Told(f.outcomes)  BY <1>3 DEF Found
  <2>2. CASE w \in Told(f.outcomes)  BY <1>8, <2>2
  <2>3. CASE w \in Waiting(f.buffers)
    <3>1. PICK i \in 1 .. Len(f.buffers) : w \in Waits(f.buffers[i])  BY <2>3, WaitingFacts
    <3>2. CASE i = Len(f.buffers)
      <4>1. w \in Waits(r.buffer) \/ w \in Told(r.outcomes)  BY <1>5, <1>7, <3>1, <3>2 DEF Takes
      <4>2. QED  BY <1>8, <1>10, <4>1
    <3>3. CASE i \in 1 .. Len(f.buffers) - 1
      <4>1. i \in 1 .. Len(cs) /\ w \in Waits(cs[i])  BY <1>5, <3>1, <3>3
      <4>2. w \in Waiting(cs)  BY <4>1, WaitingFacts
      <4>3. QED  BY <1>10, <4>2
    <3>4. QED  BY <1>5, <3>2, <3>3
  <2>4. QED  BY <2>1, <2>2, <2>3
<1>16. LET o == os[Len(os)]
       IN /\ o.status = "complete" => b.latest < o.at /\ ds[n].latest = o.at
          /\ o.status # "complete" => ds[n].latest = b.latest
  BY <1>7, <1>8, <1>11 DEF Takes
<1>17. ds[n].asset = a  BY <1>4, <1>7, <1>11 DEF Takes
<1>18. QED  BY <1>2, <1>8, <1>10, <1>11, <1>13, <1>14, <1>15, <1>16, <1>17 DEF Ingested, d

(* A change of pending samples alone. *)
Alike(cs, bs) ==
    /\ cs \in Seq(Buffer) /\ Len(cs) = Len(bs)
    /\ \A i \in 1 .. Len(bs) : /\ SoundBuffer(cs[i]) /\ cs[i].asset = bs[i].asset
                               /\ cs[i].latest = bs[i].latest

(* It leaves the assembler sound. *)
LEMMA AlikeIsSound ==
    ASSUME NEW bs, Sound(bs), NEW cs, Alike(cs, bs)
    PROVE  Sound(cs)
  BY DEF Sound, Alike

(* The samples at some of the places. *)
Picked(ps, I) == FlattenSeq([i \in 1 .. Len(ps) |-> IF i \in I THEN <<ps[i]>> ELSE <<>>])

(* Sound samples, picked, are sound. *)
LEMMA PickedFacts ==
    ASSUME NEW ps, SoundPending(ps), NEW I, I \subseteq 1 .. Len(ps)
    PROVE  /\ SoundPending(Picked(ps, I))
           /\ \A i \in I : \E k \in 1 .. Len(Picked(ps, I)) : Picked(ps, I)[k] = ps[i]
<1>1. /\ ps \in Seq(Sample) /\ Len(ps) \in Nat /\ Len(ps) <= MaxBuffered
      /\ \A j, k \in 1 .. Len(ps) : ps[j].at = ps[k].at => j = k
      /\ \A j \in 1 .. Len(ps) : ~ Required \subseteq DOMAIN ps[j].values
      /\ \A j \in 1 .. Len(ps) : ps[j] \in Sample
  BY DEF SoundPending
<1> DEFINE ss == [i \in 1 .. Len(ps) |-> IF i \in I THEN <<ps[i]>> ELSE <<>>]
           q == FlattenSeq(ss)
<1>2. ASSUME NEW i \in 1 .. Len(ps)
      PROVE  /\ ss[i] \in Seq(Sample)
             /\ i \in I => Len(ss[i]) = 1 /\ ss[i][1] = ps[i]
             /\ i \notin I => Len(ss[i]) = 0
  <2>1. CASE i \in I
    <3>1. ss[i] = <<ps[i]>>  BY <2>1
    <3>2. QED  BY <1>1, <2>1, <3>1
  <2>2. CASE i \notin I
    <3>1. ss[i] = <<>>  BY <2>2
    <3>2. QED  BY <2>2, <3>1
  <2>3. QED  BY <2>1, <2>2
<1>3. ss \in Seq(Seq(Sample)) /\ Len(ss) = Len(ps)
  <2>1. ss \in [1 .. Len(ps) -> Seq(Sample)]  BY <1>2
  <2> HIDE DEF ss
  <2>2. QED  BY <1>1, <2>1
<1> HIDE DEF ss
<1>4. ASSUME NEW i \in 1 .. Len(ss), NEW j \in 1 .. Len(ss[i])
      PROVE  i \in I /\ i \in 1 .. Len(ps) /\ j = 1 /\ ss[i][j] = ps[i]
  <2>1. i \in 1 .. Len(ps)  BY <1>3
  <2>2. i \in I  BY <1>2, <2>1
  <2>3. Len(ss[i]) = 1 /\ ss[i][1] = ps[i]  BY <1>2, <2>1, <2>2
  <2>4. j = 1  BY <2>3
  <2>5. QED  BY <2>1, <2>2, <2>3, <2>4
<1>5. Short(ss)
  <2>1. \A i \in 1 .. Len(ps) : Len(ss[i]) = 0 \/ Len(ss[i]) = 1  BY <1>2
  <2>2. ASSUME NEW i \in 1 .. Len(ps) PROVE Len(ss[i]) <= 1
    <3>1. CASE Len(ss[i]) = 0  BY <3>1
    <3>2. CASE Len(ss[i]) = 1  BY <3>2
    <3>3. QED  BY <2>1, <3>1, <3>2
  <2>3. QED  BY <1>3, <2>2, Zenon DEF Short
<1>6. Distinct(ss)
  <2> SUFFICES ASSUME NEW i \in 1 .. Len(ss), NEW m \in 1 .. Len(ss),
                      NEW j \in 1 .. Len(ss[i]), NEW l \in 1 .. Len(ss[m]),
                      ss[i][j].at = ss[m][l].at
               PROVE  i = m /\ j = l
    BY DEF Distinct
  <2>1. /\ i \in 1 .. Len(ps) /\ j = 1 /\ ss[i][j] = ps[i]
        /\ m \in 1 .. Len(ps) /\ l = 1 /\ ss[m][l] = ps[m]
    BY <1>4
  <2>2. QED  BY <1>1, <2>1
<1>7. /\ q \in Seq(Sample)
      /\ \A k \in 1 .. Len(q) : \E i \in 1 .. Len(ss) : \E j \in 1 .. Len(ss[i]) : q[k] = ss[i][j]
      /\ \A i \in 1 .. Len(ss) : \A j \in 1 .. Len(ss[i]) : \E k \in 1 .. Len(q) : q[k] = ss[i][j]
      /\ Len(q) <= Len(ss)
      /\ \A k, l \in 1 .. Len(q) : q[k].at = q[l].at => k = l
  BY <1>3, <1>5, <1>6, FlattenFacts
<1> HIDE DEF q
<1>8. \A k \in 1 .. Len(q) : \E i \in 1 .. Len(ps) : q[k] = ps[i]
  <2> TAKE k \in 1 .. Len(q)
  <2>1. PICK i \in 1 .. Len(ss) : \E j \in 1 .. Len(ss[i]) : q[k] = ss[i][j]  BY <1>7
  <2>2. QED  BY <1>4, <2>1
<1>9. SoundPending(q)
  <2>1. Len(q) <= MaxBuffered  BY <1>1, <1>3, <1>7, AssemblyAssumption
  <2>2. \A k \in 1 .. Len(q) : ~ Required \subseteq DOMAIN q[k].values  BY <1>1, <1>8
  <2>3. QED  BY <1>7, <2>1, <2>2 DEF SoundPending
<1>10. ASSUME NEW i \in I PROVE \E k \in 1 .. Len(q) : q[k] = ps[i]
  <2>1. i \in 1 .. Len(ss) /\ 1 \in 1 .. Len(ss[i]) /\ ss[i][1] = ps[i]  BY <1>2, <1>3
  <2>2. \E k \in 1 .. Len(q) : q[k] = ss[i][1]  BY <1>7, <2>1
  <2>3. QED  BY <2>1, <2>2
<1>11. q = Picked(ps, I)  BY DEF Picked, q, ss
<1>12. QED  BY <1>9, <1>10, <1>11

(* What a sweep keeps of one buffer, and what it reports. *)
LEMMA SplitFacts ==
    ASSUME NEW b, SoundBuffer(b)
    PROVE  /\ SoundPending(Only(b.pending, Kept)) /\ SoundPending(Only(b.pending, Expired))
           /\ \A j \in 1 .. Len(b.pending) :
                \/ \E k \in 1 .. Len(Only(b.pending, Kept)) : Only(b.pending, Kept)[k] = b.pending[j]
                \/ \E k \in 1 .. Len(Only(b.pending, Expired)) :
                     Only(b.pending, Expired)[k] = b.pending[j]
<1> DEFINE ps == b.pending
           I == {i \in 1 .. Len(ps) : Kept(ps[i])}
           J == {i \in 1 .. Len(ps) : Expired(ps[i])}
<1>1. SoundPending(ps)  BY DEF SoundBuffer
<1>2. Only(ps, Kept) = Picked(ps, I)
  <2>1. [i \in 1 .. Len(ps) |-> IF Kept(ps[i]) THEN <<ps[i]>> ELSE <<>>]
          = [i \in 1 .. Len(ps) |-> IF i \in I THEN <<ps[i]>> ELSE <<>>]
    OBVIOUS
  <2>2. QED  BY <2>1 DEF Only, Picked
<1>3. Only(ps, Expired) = Picked(ps, J)
  <2>1. [i \in 1 .. Len(ps) |-> IF Expired(ps[i]) THEN <<ps[i]>> ELSE <<>>]
          = [i \in 1 .. Len(ps) |-> IF i \in J THEN <<ps[i]>> ELSE <<>>]
    OBVIOUS
  <2>2. QED  BY <2>1 DEF Only, Picked
<1>4. I \subseteq 1 .. Len(ps) /\ J \subseteq 1 .. Len(ps)  OBVIOUS
<1>5. \A j \in 1 .. Len(ps) : j \in I \/ j \in J  BY DEF Kept
<1> HIDE DEF I, J, ps
<1>6. /\ SoundPending(Picked(ps, I)) /\ SoundPending(Picked(ps, J))
      /\ \A i \in I : \E k \in 1 .. Len(Picked(ps, I)) : Picked(ps, I)[k] = ps[i]
      /\ \A i \in J : \E k \in 1 .. Len(Picked(ps, J)) : Picked(ps, J)[k] = ps[i]
  BY <1>1, <1>4, PickedFacts
<1>7. QED  BY <1>2, <1>3, <1>5, <1>6 DEF ps

(* A sweep keeps or reports every sample. *)
LEMMA SweepFacts ==
    ASSUME NEW bs, Sound(bs)
    PROVE  /\ Alike(SweepTimeouts(bs).buffers, bs)
           /\ SweepTimeouts(bs).outcomes \in Seq(OutcomeType)
           /\ Waiting(bs) \subseteq Waiting(SweepTimeouts(bs).buffers)
                                      \cup Told(SweepTimeouts(bs).outcomes)
<1> DEFINE kept(i) == [bs[i] EXCEPT !.pending = Only(@, Kept)]
           gone(i) == [bs[i] EXCEPT !.pending = Only(@, Expired)]
           cs == [i \in 1 .. Len(bs) |-> kept(i)]
           rs == [i \in 1 .. Len(bs) |-> ReportIncomplete(gone(i))]
           os == FlattenSeq(rs)
<1>1. SweepTimeouts(bs).buffers = cs /\ SweepTimeouts(bs).outcomes = os
  BY DEF SweepTimeouts
<1>2. bs \in Seq(Buffer) /\ Len(bs) \in Nat /\ \A i \in 1 .. Len(bs) : SoundBuffer(bs[i])
  BY DEF Sound
<1>3. ASSUME NEW i \in 1 .. Len(bs)
      PROVE  /\ SoundBuffer(kept(i)) /\ kept(i).asset = bs[i].asset
             /\ kept(i).latest = bs[i].latest
             /\ gone(i) \in Buffer
             /\ Waits(bs[i]) \subseteq Waits(kept(i)) \cup Waits(gone(i))
  <2> DEFINE b == bs[i]
             x == Only(b.pending, Kept)
             y == Only(b.pending, Expired)
             bx == [b EXCEPT !.pending = x]
             by == [b EXCEPT !.pending = y]
  <2>1. kept(i) = bx /\ gone(i) = by  OBVIOUS
  <2>2. SoundBuffer(b) /\ b \in Buffer  BY <1>2 DEF SoundBuffer
  <2>3. /\ SoundPending(x) /\ SoundPending(y)
        /\ \A j \in 1 .. Len(b.pending) : \/ \E k \in 1 .. Len(x) : x[k] = b.pending[j]
                                          \/ \E k \in 1 .. Len(y) : y[k] = b.pending[j]
    BY <2>2, SplitFacts
  <2> HIDE DEF x, y, b
  <2>4. x \in Seq(Sample) /\ y \in Seq(Sample)  BY <2>3 DEF SoundPending
  <2>5. /\ bx \in Buffer /\ bx.asset = b.asset /\ bx.latest = b.latest /\ bx.pending = x
        /\ by \in Buffer /\ by.asset = b.asset /\ by.pending = y
    BY <2>2, <2>4, WithPending
  <2> HIDE DEF bx, by, kept, gone
  <2>6. SoundBuffer(bx)  BY <2>3, <2>5 DEF SoundBuffer
  <2>7. ASSUME NEW w \in Waits(b) PROVE w \in Waits(bx) \cup Waits(by)
    <3>1. PICK j \in 1 .. Len(b.pending) : w = <<b.asset, b.pending[j].at>>  BY <2>7 DEF Waits
    <3>2. CASE \E k \in 1 .. Len(x) : x[k] = b.pending[j]  BY <2>5, <3>1, <3>2 DEF Waits
    <3>3. CASE \E k \in 1 .. Len(y) : y[k] = b.pending[j]  BY <2>5, <3>1, <3>3 DEF Waits
    <3>4. QED  BY <2>3, <3>2, <3>3
  <2>8. QED  BY <2>1, <2>5, <2>6, <2>7 DEF b
<1> HIDE DEF kept, gone
<1>4. cs \in Seq(Buffer) /\ Len(cs) = Len(bs) /\ \A i \in 1 .. Len(bs) : cs[i] = kept(i)
  <2>1. \A i \in 1 .. Len(bs) : kept(i) \in Buffer  BY <1>3 DEF SoundBuffer
  <2>2. QED  BY <1>2, <2>1
<1>5. /\ rs \in Seq(Seq(OutcomeType)) /\ Len(rs) = Len(bs)
      /\ \A i \in 1 .. Len(bs) : /\ rs[i] \in Seq(OutcomeType) /\ Waits(gone(i)) = Told(rs[i])
  <2>1. \A i \in 1 .. Len(bs) : /\ ReportIncomplete(gone(i)) \in Seq(OutcomeType)
                                /\ Waits(gone(i)) = Told(ReportIncomplete(gone(i)))
    BY <1>3, ReportFacts DEF Reports
  <2>2. QED  BY <1>2, <2>1
<1> HIDE DEF cs, rs
<1>6. Alike(cs, bs)  BY <1>3, <1>4 DEF Alike
<1>7. /\ os \in Seq(OutcomeType)
      /\ \A i \in 1 .. Len(rs) : \A j \in 1 .. Len(rs[i]) : \E k \in 1 .. Len(os) : os[k] = rs[i][j]
  BY <1>5, FlattenFacts
<1> HIDE DEF os
<1>8. ASSUME NEW w \in Waiting(bs) PROVE w \in Waiting(cs) \cup Told(os)
  <2>1. PICK i \in 1 .. Len(bs) : w \in Waits(bs[i])  BY <1>8, WaitingFacts
  <2>2. CASE w \in Waits(kept(i))
    <3>1. w \in Waiting(cs)  BY <1>4, <2>2, WaitingFacts
    <3>2. QED  BY <3>1
  <2>3. CASE w \in Waits(gone(i))
    <3>1. w \in Told(rs[i])  BY <1>5, <2>3
    <3>2. PICK j \in 1 .. Len(rs[i]) : /\ rs[i][j].status # "pending"
                                       /\ w = <<rs[i][j].asset, rs[i][j].at>>
      BY <3>1 DEF Told
    <3>3. PICK k \in 1 .. Len(os) : os[k] = rs[i][j]  BY <1>5, <1>7
    <3>4. w \in Told(os)  BY <3>2, <3>3 DEF Told
    <3>5. QED  BY <3>4
  <2>4. QED  BY <1>3, <2>1, <2>2, <2>3
<1>9. QED  BY <1>1, <1>6, <1>7, <1>8

(* A tick keeps every sample. *)
LEMMA AgedFacts ==
    ASSUME NEW bs, Sound(bs)
    PROVE  Alike(Aged(bs), bs) /\ Waiting(bs) \subseteq Waiting(Aged(bs))
<1> DEFINE olds(ps) == [j \in 1 .. Len(ps) |-> Older(ps[j])]
           older(i) == [bs[i] EXCEPT !.pending = olds(bs[i].pending)]
           cs == [i \in 1 .. Len(bs) |-> older(i)]
<1>1. Aged(bs) = cs  BY DEF Aged
<1>2. bs \in Seq(Buffer) /\ Len(bs) \in Nat /\ \A i \in 1 .. Len(bs) : SoundBuffer(bs[i])
  BY DEF Sound
<1>3. ASSUME NEW p \in Sample
      PROVE  Older(p) \in Sample /\ Older(p).at = p.at /\ Older(p).values = p.values
  <2>1. p.age \in 0 .. Timeout /\ (IF p.age < Timeout THEN p.age + 1 ELSE p.age) \in 0 .. Timeout
    BY AssemblyAssumption DEF Sample
  <2>2. QED  BY <2>1 DEF Sample, Older
<1>4. ASSUME NEW ps, SoundPending(ps)
      PROVE  /\ SoundPending(olds(ps)) /\ Len(olds(ps)) = Len(ps)
             /\ \A j \in 1 .. Len(ps) : olds(ps)[j].at = ps[j].at
  <2>1. ps \in Seq(Sample) /\ Len(ps) \in Nat /\ \A j \in 1 .. Len(ps) : ps[j] \in Sample
    BY <1>4 DEF SoundPending
  <2>2. olds(ps) \in Seq(Sample) /\ Len(olds(ps)) = Len(ps)  BY <1>3, <2>1
  <2>3. \A j \in 1 .. Len(ps) : olds(ps)[j].at = ps[j].at /\ olds(ps)[j].values = ps[j].values
    BY <1>3, <2>1
  <2> HIDE DEF olds
  <2>4. SoundPending(olds(ps))  BY <1>4, <2>2, <2>3 DEF SoundPending
  <2>5. QED  BY <2>2, <2>3, <2>4
<1> HIDE DEF olds
<1>5. ASSUME NEW i \in 1 .. Len(bs)
      PROVE  /\ SoundBuffer(older(i)) /\ older(i).asset = bs[i].asset
             /\ older(i).latest = bs[i].latest
             /\ Waits(bs[i]) \subseteq Waits(older(i))
  <2> DEFINE b == bs[i]
             x == olds(b.pending)
             bx == [b EXCEPT !.pending = x]
  <2>1. older(i) = bx  OBVIOUS
  <2>2. b \in Buffer /\ SoundPending(b.pending)  BY <1>2 DEF SoundBuffer
  <2>3. /\ SoundPending(x) /\ Len(x) = Len(b.pending)
        /\ \A j \in 1 .. Len(b.pending) : x[j].at = b.pending[j].at
    BY <1>4, <2>2
  <2> HIDE DEF x, b
  <2>4. /\ bx \in Buffer /\ bx.asset = b.asset /\ bx.latest = b.latest /\ bx.pending = x
    BY <2>2, <2>3, WithPending DEF SoundPending
  <2> HIDE DEF bx, older
  <2>5. SoundBuffer(bx)  BY <2>3, <2>4 DEF SoundBuffer
  <2>6. Waits(b) \subseteq Waits(bx)  BY <2>3, <2>4 DEF Waits
  <2>7. QED  BY <2>1, <2>4, <2>5, <2>6 DEF b
<1> HIDE DEF older
<1>6. cs \in Seq(Buffer) /\ Len(cs) = Len(bs) /\ \A i \in 1 .. Len(bs) : cs[i] = older(i)
  <2>1. \A i \in 1 .. Len(bs) : older(i) \in Buffer  BY <1>5 DEF SoundBuffer
  <2>2. QED  BY <1>2, <2>1
<1> HIDE DEF cs
<1>7. Alike(cs, bs)  BY <1>5, <1>6 DEF Alike
<1>8. ASSUME NEW w \in Waiting(bs) PROVE w \in Waiting(cs)
  <2>1. PICK i \in 1 .. Len(bs) : w \in Waits(bs[i])  BY <1>8, WaitingFacts
  <2>2. w \in Waits(cs[i])  BY <1>5, <1>6, <2>1
  <2>3. QED  BY <1>6, <2>2, WaitingFacts
<1>9. QED  BY <1>1, <1>7, <1>8

----------------------------------------------------------------------------
(* The worker.                                                             *)

(* What TypeOK says of the buffers, a sound assembler has. *)
LEMMA SoundIsTyped ==
    ASSUME NEW bs, Sound(bs)
    PROVE  \A i \in 1 .. Len(bs) :
             /\ bs[i].asset \in Asset /\ bs[i].latest \in Nat
             /\ \A j \in 1 .. Len(bs[i].pending) : bs[i].pending[j].age \in 0 .. Timeout
<1> TAKE i \in 1 .. Len(bs)
<1> DEFINE ps == bs[i].pending
<1>1. bs[i] \in Buffer /\ SoundPending(ps)  BY DEF Sound, SoundBuffer
<1>2. bs[i].asset \in Asset /\ bs[i].latest \in Nat  BY <1>1 DEF Buffer
<1> HIDE DEF ps
<1>3. \A j \in 1 .. Len(ps) : ps[j] \in Sample  BY <1>1 DEF SoundPending
<1>4. \A j \in 1 .. Len(ps) : ps[j].age \in 0 .. Timeout  BY <1>3 DEF Sample
<1>5. QED  BY <1>2, <1>4 DEF ps

(* The empty assembler. *)
LEMMA NoBuffers == Sound(<<>>) /\ \A a : Untracked(<<>>, a)
<1>1. <<>> \in Seq(Buffer) /\ Len(<<>>) = 0 /\ 1 .. Len(<<>>) = {}  OBVIOUS
<1>2. 0 <= MaxAssets  BY AssemblyAssumption
<1>3. QED  BY <1>1, <1>2 DEF Sound, Untracked

(* A change of pending samples alone leaves the sessions where they were. *)
LEMMA AlikeIsTracked ==
    ASSUME Sound(buffers), SessionsAreTracked, Alike(buffers', buffers),
           UNCHANGED <<session, evicted, clean>>
    PROVE  SessionsAreTracked'
<1>1. Len(buffers') = Len(buffers)  BY DEF Alike
<1>2. \A i \in 1 .. Len(buffers) : /\ buffers'[i].asset = buffers[i].asset
                                   /\ buffers'[i].latest = buffers[i].latest
  BY DEF Alike
<1>3. QED  BY <1>1, <1>2 DEF SessionsAreTracked, Untracked

(* The worker starts with nothing to remember. *)
LEMMA InitTracked ==
    ASSUME Init
    PROVE  WorkerInv
<1> USE DEF Init
<1>1. Sound(buffers) /\ \A a : Untracked(buffers, a)  BY NoBuffers
<1>2. 1 .. Len(buffers) = {} /\ 1 .. Len(outcomes) = {}  OBVIOUS
<1>3. TypeOK
  <2>1. /\ queue \in Seq(Telemetry) /\ batch \in Seq(Telemetry) /\ Len(batch) <= MaxPoll
        /\ fetched \in 0 .. Len(queue) /\ outcomes \in Seq(OutcomeType)
        /\ attempted \in 0 .. Len(outcomes) /\ faults \in 0 .. MaxFaults /\ open \in Nat
    BY WorkerAssumption
  <2>2. session \in [Asset -> Nat] /\ evicted \subseteq Asset /\ clean \in BOOLEAN
    BY DEF Never
  <2>3. pc \in {"polling", "handling", "committing", "sweeping", "down", "raised"}  OBVIOUS
  <2>4. QED  BY <1>1, <2>1, <2>2, <2>3, SoundIsTyped DEF TypeOK
<1>4. SessionsAreTracked  BY <1>2 DEF SessionsAreTracked
<1>5. BatchIsOpen /\ RaisesOnlyAfterEviction  BY DEF BatchIsOpen, RaisesOnlyAfterEviction
<1>6. QED  BY <1>1, <1>3, <1>4, <1>5 DEF WorkerInv

(* The asset of a valid event that was never evicted. *)
LEMMA RememberedSession ==
    ASSUME WorkerInv, NEW a \in Asset \ evicted, NEW t, Remembers(buffers, a, t)
    PROVE  session[a] \in Nat /\ t \in Nat /\ session[a] <= t /\ (clean => session[a] = t)
<1>1. session[a] \in Nat /\ SessionsAreTracked /\ Sound(buffers)  BY DEF WorkerInv, TypeOK
<1>2. CASE Untracked(buffers, a) /\ t = Never
  <2>1. session[a] = Never  BY <1>1, <1>2 DEF SessionsAreTracked
  <2>2. QED  BY <1>2, <2>1 DEF Never
<1>3. CASE \E i \in 1 .. Len(buffers) : buffers[i].asset = a /\ buffers[i].latest = t
  <2>1. PICK i \in 1 .. Len(buffers) : buffers[i].asset = a /\ buffers[i].latest = t  BY <1>3
  <2>2. t \in Nat  BY <1>1, <2>1, SoundIsTyped
  <2>3. QED  BY <1>1, <2>1, <2>2 DEF SessionsAreTracked
<1>4. QED  BY <1>2, <1>3 DEF Remembers

(* What handling an event comes to, whatever becomes of its outcomes. *)
LEMMA HandleEventFacts ==
    ASSUME WorkerInv, HandleEvent
    PROVE  /\ pc = "handling" /\ Head(batch) \in Events
           /\ LET d == Ingest(buffers, Head(batch)) IN
              /\ Ingested(d, buffers, Head(batch))
              /\ buffers' = d.buffers /\ outcomes' = d.outcomes
              /\ evicted' = evicted \cup
                    ({buffers[i].asset : i \in 1 .. Len(buffers)}
                       \ {buffers'[i].asset : i \in 1 .. Len(buffers')})
              /\ UNCHANGED <<queue, fetched>>
<1> DEFINE e == Head(batch)
           d == Ingest(buffers, e)
<1>1. pc = "handling" /\ e # Malformed /\ HandleOutcomes(d) /\ UNCHANGED <<queue, fetched>>
  BY DEF HandleEvent
<1>2. batch \in Seq(Telemetry) /\ batch # <<>> /\ Sound(buffers)
  BY <1>1 DEF WorkerInv, TypeOK, BatchIsOpen
<1>3. e \in Telemetry  BY <1>2
<1>4. e \in Events  BY <1>1, <1>3 DEF Events
<1> HIDE DEF e
<1>5. Ingested(d, buffers, e)  BY <1>2, <1>4, IngestFacts
<1> HIDE DEF d
<1>6. /\ buffers' = d.buffers /\ outcomes' = d.outcomes
      /\ evicted' = evicted \cup ({buffers[i].asset : i \in 1 .. Len(buffers)}
                                    \ {d.buffers[i].asset : i \in 1 .. Len(d.buffers)})
  BY <1>1 DEF HandleOutcomes
<1>7. QED  BY <1>1, <1>4, <1>5, <1>6 DEF e, d

(* The three ends of handling an event. *)
Handled(o) ==
    /\ ~ NonMonotonic(o) /\ attempted' = Len(outcomes')
    /\ session' = IF o.status = "complete" THEN SessionIngest(o.asset, o.at) ELSE session
    /\ Succeed

Failed(o) ==
    \E k \in 1 .. Len(outcomes') :
      /\ attempted' = k /\ ~ NonMonotonic(outcomes'[k])
      /\ session' = IF outcomes'[k].status = "complete"
                    THEN SessionIngest(o.asset, o.at) ELSE session
      /\ GiveUp

Raised(o) ==
    /\ NonMonotonic(o) /\ attempted' = Len(outcomes') /\ pc' = "raised"
    /\ UNCHANGED <<batch, session, faults, open, clean>>

(* Handling an event has one of the three ends. *)
LEMMA HandleEventEnds ==
    ASSUME WorkerInv, HandleEvent
    PROVE  /\ outcomes' \in Seq(OutcomeType) /\ Len(outcomes') \in 1 .. Len(outcomes')
           /\ LET o == outcomes'[Len(outcomes')]
              IN  /\ o \in OutcomeType /\ Last(outcomes') = o
                  /\ Handled(o) \/ Failed(o) \/ Raised(o)
<1> DEFINE e == Head(batch)
           d == Ingest(buffers, e)
           o == outcomes'[Len(outcomes')]
<1>1. Ingested(d, buffers, e) /\ buffers' = d.buffers /\ outcomes' = d.outcomes
  BY HandleEventFacts
<1>2. HandleOutcomes(d)  BY DEF HandleEvent
<1> HIDE DEF d, e
<1>3. outcomes' \in Seq(OutcomeType) /\ outcomes' # <<>>  BY <1>1 DEF Ingested, Ends
<1>4. Len(outcomes') \in 1 .. Len(outcomes') /\ o \in OutcomeType  BY <1>3
<1>5. Last(outcomes') = o  BY DEF Last
<1>6. Handled(o) \/ Failed(o) \/ Raised(o)
  BY <1>1, <1>2, <1>5, Zenon DEF HandleOutcomes, Handled, Failed, Raised
<1>7. QED  BY <1>3, <1>4, <1>5, <1>6

(* The session of the event's asset does not fall behind unseen, and no    *)
(* other session moves.                                                    *)
LEMMA EventIsTracked ==
    ASSUME WorkerInv, HandleEvent
    PROVE  SessionsAreTracked' /\ RaisesOnlyAfterEviction'
<1> DEFINE e == Head(batch)
           d == Ingest(buffers, e)
           n == Len(buffers')
           o == outcomes'[Len(outcomes')]
<1>1. /\ e \in Events /\ Ingested(d, buffers, e) /\ buffers' = d.buffers /\ outcomes' = d.outcomes
      /\ evicted' = evicted \cup ({buffers[i].asset : i \in 1 .. Len(buffers)}
                                    \ {buffers'[i].asset : i \in 1 .. Len(buffers')})
  BY HandleEventFacts
<1>2. /\ outcomes' \in Seq(OutcomeType) /\ o \in OutcomeType /\ Last(outcomes') = o
      /\ Handled(o) \/ Failed(o) \/ Raised(o)
  BY HandleEventEnds
<1> HIDE DEF d, e
<1>3. /\ Sound(buffers') /\ n \in 1 .. n /\ buffers'[n].asset = e.asset /\ o.asset = e.asset
      /\ \A k \in 1 .. Len(outcomes') : k = Len(outcomes') \/ outcomes'[k].status = "rejected"
      /\ \A k \in 1 .. n : k = n \/ \E i \in 1 .. Len(buffers) : buffers'[k] = buffers[i]
  BY <1>1 DEF Ingested, Ends
<1>4. PICK t : /\ Remembers(buffers, e.asset, t)
               /\ o.status = "complete" => t < o.at /\ buffers'[n].latest = o.at
               /\ o.status # "complete" => buffers'[n].latest = t
  BY <1>1 DEF Ingested
<1>5. e.asset \in Asset /\ o.at \in Nat /\ o.asset \in Asset  BY <1>1, <1>2, EventFacts DEF OutcomeType
<1>6. session \in [Asset -> Nat] /\ clean \in BOOLEAN /\ pc = "handling"
  BY HandleEventFacts DEF WorkerInv, TypeOK
<1> HIDE DEF o, n
<1>7. e.asset \notin evicted => /\ session[e.asset] \in Nat /\ t \in Nat /\ session[e.asset] <= t
                                /\ clean => session[e.asset] = t
  BY <1>4, <1>5, RememberedSession
<1>8. e.asset \notin evicted => ~ NonMonotonic(o)
  BY <1>3, <1>4, <1>5, <1>7 DEF NonMonotonic
<1>9. \A x \in Asset : x # e.asset => session'[x] = session[x]
  BY <1>2, <1>3, <1>6 DEF Handled, Failed, Raised, SessionIngest
<1>10. clean' => clean
  BY <1>2 DEF Handled, Failed, Raised, Succeed, GiveUp
<1>11. ASSUME NEW x \in Asset \ evicted', x # e.asset
       PROVE  /\ Untracked(buffers', x) => session'[x] = Never
              /\ \A k \in 1 .. Len(buffers') : buffers'[k].asset = x =>
                   session'[x] <= buffers'[k].latest /\ (clean' => session'[x] = buffers'[k].latest)
  <2>1. x \in Asset \ evicted /\ SessionsAreTracked  BY <1>1 DEF WorkerInv
  <2>2. ASSUME Untracked(buffers', x) PROVE session'[x] = Never
    <3>1. Untracked(buffers, x)  BY <1>1, <1>11, <2>2 DEF Untracked
    <3>2. QED  BY <1>9, <1>11, <2>1, <3>1 DEF SessionsAreTracked
  <2>3. ASSUME NEW k \in 1 .. Len(buffers'), buffers'[k].asset = x
        PROVE  session'[x] <= buffers'[k].latest /\ (clean' => session'[x] = buffers'[k].latest)
    <3>1. PICK i \in 1 .. Len(buffers) : buffers'[k] = buffers[i]  BY <1>3, <1>11, <2>3 DEF n
    <3>2. buffers[i].asset = x  BY <2>3, <3>1
    <3>3. session[x] <= buffers[i].latest /\ (clean => session[x] = buffers[i].latest)
      BY <2>1, <3>2 DEF SessionsAreTracked
    <3>4. QED  BY <1>9, <1>10, <1>11, <3>1, <3>3
  <2>4. QED  BY <2>2, <2>3
<1>12. ASSUME e.asset \notin evicted
       PROVE  /\ session'[e.asset] <= buffers'[n].latest
              /\ clean' => session'[e.asset] = buffers'[n].latest
  <2>1. /\ session[e.asset] \in Nat /\ t \in Nat /\ session[e.asset] <= t
        /\ clean => session[e.asset] = t /\ ~ NonMonotonic(o)
    BY <1>7, <1>8, <1>12
  <2>2. session[e.asset] <= buffers'[n].latest  BY <1>4, <1>5, <2>1
  <2>3. SessionIngest(o.asset, o.at)[e.asset] = o.at  BY <1>3, <1>5, <1>6 DEF SessionIngest
  <2>4. CASE Handled(o)
    <3>1. CASE o.status = "complete"
      <4>1. session'[e.asset] = o.at  BY <2>3, <2>4, <3>1 DEF Handled
      <4>2. QED  BY <1>4, <1>5, <3>1, <4>1
    <3>2. CASE o.status # "complete"
      <4>1. session' = session  BY <2>4, <3>2 DEF Handled
      <4>2. QED  BY <1>4, <1>10, <2>1, <2>2, <3>2, <4>1
    <3>3. QED  BY <3>1, <3>2
  <2>5. CASE Failed(o)
    <3>1. PICK k \in 1 .. Len(outcomes') :
                 session' = IF outcomes'[k].status = "complete"
                            THEN SessionIngest(o.asset, o.at) ELSE session
      BY <2>5 DEF Failed
    <3>2. clean' = FALSE  BY <2>5 DEF Failed, GiveUp
    <3>3. CASE outcomes'[k].status = "complete"
      <4>1. o.status = "complete"  BY <1>3, <3>3 DEF o
      <4>2. session'[e.asset] = o.at  BY <2>3, <3>1, <3>3
      <4>3. QED  BY <1>4, <1>5, <3>2, <4>1, <4>2
    <3>4. CASE outcomes'[k].status # "complete"  BY <2>2, <3>1, <3>2, <3>4
    <3>5. QED  BY <3>3, <3>4
  <2>6. CASE Raised(o)  BY <1>8, <1>12, <2>6 DEF Raised
  <2>7. QED  BY <1>2, <2>4, <2>5, <2>6
<1>13. ASSUME NEW x \in Asset \ evicted', x = e.asset
       PROVE  /\ Untracked(buffers', x) => session'[x] = Never
              /\ \A k \in 1 .. Len(buffers') : buffers'[k].asset = x =>
                   session'[x] <= buffers'[k].latest /\ (clean' => session'[x] = buffers'[k].latest)
  <2>1. e.asset \notin evicted  BY <1>1, <1>13
  <2>2. ~ Untracked(buffers', x)  BY <1>3, <1>13 DEF Untracked, n
  <2>3. \A k \in 1 .. Len(buffers') : buffers'[k].asset = x => k = n
    BY <1>3, <1>13 DEF Sound, n
  <2>4. QED  BY <1>12, <1>13, <2>1, <2>2, <2>3
<1>14. SessionsAreTracked'  BY <1>11, <1>13 DEF SessionsAreTracked
<1>15. ASSUME pc' = "raised" PROVE Last(outcomes').asset \in evicted'
  <2>1. NonMonotonic(o)  BY <1>2, <1>15 DEF Handled, Failed, Raised, Succeed, GiveUp
  <2>2. QED  BY <1>1, <1>2, <1>3, <1>8, <2>1
<1>16. QED  BY <1>14, <1>15 DEF RaisesOnlyAfterEviction

(* Types, limits and the open batch, however the event ends. *)
LEMMA EventIsTyped ==
    ASSUME WorkerInv, HandleEvent
    PROVE  TypeOK' /\ Sound(buffers') /\ BatchIsOpen'
<1> DEFINE o == outcomes'[Len(outcomes')]
<1>1. /\ pc = "handling" /\ Head(batch) \in Events /\ Sound(buffers') /\ UNCHANGED <<queue, fetched>>
      /\ evicted' \subseteq evicted \cup {buffers[i].asset : i \in 1 .. Len(buffers)}
  BY HandleEventFacts DEF Ingested
<1>2. /\ outcomes' \in Seq(OutcomeType) /\ Len(outcomes') \in 1 .. Len(outcomes')
      /\ o \in OutcomeType
      /\ Handled(o) \/ Failed(o) \/ Raised(o)
  BY HandleEventEnds
<1> HIDE DEF o
<1>3. /\ TypeOK /\ Sound(buffers) /\ batch # <<>> /\ Len(batch) <= open
  BY <1>1 DEF WorkerInv, BatchIsOpen
<1>4. /\ batch \in Seq(Telemetry) /\ Len(batch) \in Nat \ {0} /\ open \in Nat /\ open - 1 \in Nat
      /\ Len(batch) <= (open - 1) + 1
  BY <1>3 DEF TypeOK
<1>5. evicted' \subseteq Asset
  <2>1. \A i \in 1 .. Len(buffers) : buffers[i].asset \in Asset  BY <1>3 DEF TypeOK
  <2>2. QED  BY <1>1, <1>3, <2>1 DEF TypeOK
<1>6. session' \in [Asset -> Nat]
  <2>1. session \in [Asset -> Nat] /\ o.asset \in Asset /\ o.at \in Nat
    BY <1>2, <1>3 DEF TypeOK, OutcomeType
  <2>2. SessionIngest(o.asset, o.at) \in [Asset -> Nat]  BY <2>1 DEF SessionIngest
  <2>3. session' = session \/ session' = SessionIngest(o.asset, o.at)
    BY <1>2 DEF Handled, Failed, Raised
  <2>4. QED  BY <2>1, <2>2, <2>3
<1>7. attempted' \in 0 .. Len(outcomes')
  <2>1. Len(outcomes') \in Nat  BY <1>2
  <2>2. QED  BY <1>2, <2>1 DEF Handled, Failed, Raised
<1>8. CASE Handled(o)
  <2>1. pc' = "committing" /\ open' = open - 1 /\ UNCHANGED <<batch, faults, clean>>
    BY <1>8 DEF Handled, Succeed
  <2>2. BatchIsOpen'  BY <1>3, <1>4, <2>1 DEF BatchIsOpen
  <2>3. TypeOK'
    BY <1>1, <1>2, <1>3, <1>4, <1>5, <1>6, <1>7, <2>1, SoundIsTyped DEF TypeOK
  <2>4. QED  BY <1>1, <2>2, <2>3
<1>9. CASE Failed(o)
  <2>1. /\ pc' = "polling" /\ faults < MaxFaults /\ faults' = faults + 1 /\ clean' = FALSE
        /\ batch' = <<>> /\ open' = open
    BY <1>9 DEF Failed, GiveUp
  <2>2. faults' \in 0 .. MaxFaults  BY <1>3, <2>1, WorkerAssumption DEF TypeOK
  <2>3. batch' \in Seq(Telemetry) /\ Len(batch') <= MaxPoll  BY <2>1, WorkerAssumption
  <2>4. BatchIsOpen'  BY <2>1 DEF BatchIsOpen
  <2>5. TypeOK'
    BY <1>1, <1>2, <1>3, <1>4, <1>5, <1>6, <1>7, <2>1, <2>2, <2>3, SoundIsTyped DEF TypeOK
  <2>6. QED  BY <1>1, <2>4, <2>5
<1>10. CASE Raised(o)
  <2>1. pc' = "raised" /\ UNCHANGED <<batch, session, faults, open, clean>>
    BY <1>10 DEF Raised
  <2>2. BatchIsOpen'  BY <2>1 DEF BatchIsOpen
  <2>3. TypeOK'
    BY <1>1, <1>2, <1>3, <1>4, <1>5, <1>6, <1>7, <2>1, SoundIsTyped DEF TypeOK
  <2>4. QED  BY <1>1, <2>2, <2>3
<1>11. QED  BY <1>2, <1>8, <1>9, <1>10

(* What a step that leaves the assembler and the sessions alone preserves. *)
LEMMA MemoriesStay ==
    ASSUME WorkerInv, UNCHANGED <<buffers, session, evicted>>, clean' => clean, pc' # "raised"
    PROVE  Sound(buffers') /\ SessionsAreTracked' /\ RaisesOnlyAfterEviction'
<1>1. Sound(buffers) /\ SessionsAreTracked  BY DEF WorkerInv
<1>2. SessionsAreTracked'  BY <1>1 DEF SessionsAreTracked, Untracked
<1>3. QED  BY <1>1, <1>2 DEF RaisesOnlyAfterEviction

(* The plant sends one more message. *)
LEMMA SendPreserves ==
    ASSUME WorkerInv, NEW m \in Telemetry, Send(m)
    PROVE  WorkerInv'
<1> USE DEF Send, history
<1>1. Sound(buffers') /\ SessionsAreTracked' /\ RaisesOnlyAfterEviction'  BY MemoriesStay
<1>2. TypeOK /\ BatchIsOpen  BY DEF WorkerInv
<1>3. queue' \in Seq(Telemetry) /\ fetched' \in 0 .. Len(queue')
  <2>1. queue \in Seq(Telemetry) /\ fetched \in 0 .. Len(queue)  BY <1>2 DEF TypeOK
  <2>2. queue' \in Seq(Telemetry) /\ Len(queue') = Len(queue) + 1 /\ Len(queue) \in Nat
    BY <2>1, AppendFacts
  <2>3. QED  BY <2>1, <2>2
<1>4. TypeOK'  BY <1>2, <1>3 DEF TypeOK
<1>5. BatchIsOpen'  BY <1>2 DEF BatchIsOpen
<1>6. QED  BY <1>1, <1>4, <1>5 DEF WorkerInv

(* A part of the partition. *)
LEMMA PartFacts ==
    ASSUME NEW S, NEW s \in Seq(S), NEW i \in 0 .. Len(s), NEW j \in i .. Len(s)
    PROVE  SubSeq(s, i + 1, j) \in Seq(S) /\ Len(SubSeq(s, i + 1, j)) = j - i
<1>1. Len(s) \in Nat /\ i \in Nat /\ j \in Nat /\ i <= j /\ j <= Len(s)  OBVIOUS
<1>2. SubSeq(s, i + 1, j) \in Seq(S)  BY <1>1
<1>3. Len(SubSeq(s, i + 1, j)) = j - i  BY <1>1
<1>4. QED  BY <1>2, <1>3

(* poll() opens a batch. *)
LEMMA PollPreserves ==
    ASSUME WorkerInv, Poll
    PROVE  WorkerInv'
<1>1. PICK n \in 0 .. MaxPoll :
           /\ fetched + n <= Len(queue) /\ fetched' = fetched + n
           /\ batch' = SubSeq(queue, fetched + 1, fetched + n)
           /\ open' = open + n
           /\ pc' = IF n = 0 THEN "sweeping" ELSE "handling"
  BY DEF Poll
<1>2. /\ outcomes' = <<>> /\ attempted' = 0
      /\ UNCHANGED <<queue, buffers, session, faults, evicted, clean>>
  BY DEF Poll
<1>3. TypeOK /\ BatchIsOpen  BY DEF WorkerInv
<1>4. /\ queue \in Seq(Telemetry) /\ Len(queue) \in Nat /\ fetched \in 0 .. Len(queue)
      /\ open \in Nat /\ MaxPoll \in Nat
  BY <1>3, WorkerAssumption DEF TypeOK
<1>5. batch' \in Seq(Telemetry) /\ Len(batch') = n
  <2>1. fetched + n \in fetched .. Len(queue) /\ (fetched + n) - fetched = n  BY <1>1, <1>4
  <2>2. QED  BY <1>1, <1>4, <2>1, PartFacts
<1>6. fetched' \in 0 .. Len(queue) /\ open' \in Nat /\ Len(batch') <= MaxPoll /\ n <= open'
  BY <1>1, <1>4, <1>5
<1>7. Sound(buffers') /\ SessionsAreTracked' /\ RaisesOnlyAfterEviction'
  BY <1>1, <1>2, MemoriesStay
<1>8. outcomes' \in Seq(OutcomeType) /\ attempted' \in 0 .. Len(outcomes')  BY <1>2
<1>9. pc' \in {"sweeping", "handling"} /\ (pc' = "handling" => n # 0)  BY <1>1
<1>10. TypeOK'  BY <1>2, <1>3, <1>5, <1>6, <1>8, <1>9 DEF TypeOK
<1>11. BatchIsOpen'
  <2>1. n # 0 => batch' # <<>>  BY <1>5
  <2>2. QED  BY <1>5, <1>6, <1>9, <2>1 DEF BatchIsOpen
<1>12. QED  BY <1>7, <1>10, <1>11 DEF WorkerInv

(* A message that is no valid event is reported or given up. *)
LEMMA HandleMalformedPreserves ==
    ASSUME WorkerInv, HandleMalformed
    PROVE  WorkerInv'
<1>1. /\ pc = "handling" /\ outcomes' = <<>> /\ attempted' = 0
      /\ Succeed \/ GiveUp
      /\ UNCHANGED <<queue, fetched, buffers, session, evicted>>
  BY DEF HandleMalformed, PublishDataQuality
<1>2. /\ TypeOK /\ batch # <<>> /\ Len(batch) <= open  BY <1>1 DEF WorkerInv, BatchIsOpen
<1>3. /\ batch \in Seq(Telemetry) /\ Len(batch) \in Nat \ {0} /\ open \in Nat /\ open - 1 \in Nat
      /\ Len(batch) <= (open - 1) + 1
  BY <1>2 DEF TypeOK
<1>4. outcomes' \in Seq(OutcomeType) /\ attempted' \in 0 .. Len(outcomes')  BY <1>1
<1>5. Sound(buffers') /\ SessionsAreTracked' /\ RaisesOnlyAfterEviction'
  BY <1>1, MemoriesStay DEF Succeed, GiveUp
<1>6. CASE Succeed
  <2>1. pc' = "committing" /\ open' = open - 1 /\ UNCHANGED <<batch, faults, clean>>
    BY <1>6 DEF Succeed
  <2>2. BatchIsOpen'  BY <1>2, <1>3, <2>1 DEF BatchIsOpen
  <2>3. TypeOK'  BY <1>1, <1>2, <1>3, <1>4, <2>1 DEF TypeOK
  <2>4. QED  BY <1>5, <2>2, <2>3 DEF WorkerInv
<1>7. CASE GiveUp
  <2>1. /\ pc' = "polling" /\ faults < MaxFaults /\ faults' = faults + 1 /\ clean' = FALSE
        /\ batch' = <<>> /\ open' = open
    BY <1>7 DEF GiveUp
  <2>2. faults' \in 0 .. MaxFaults  BY <1>2, <2>1, WorkerAssumption DEF TypeOK
  <2>3. batch' \in Seq(Telemetry) /\ Len(batch') <= MaxPoll  BY <2>1, WorkerAssumption
  <2>4. BatchIsOpen'  BY <2>1 DEF BatchIsOpen
  <2>5. TypeOK'  BY <1>1, <1>2, <1>3, <1>4, <2>1, <2>2, <2>3 DEF TypeOK
  <2>6. QED  BY <1>5, <2>4, <2>5 DEF WorkerInv
<1>8. QED  BY <1>1, <1>6, <1>7

(* commit() after a message. *)
LEMMA CommitPreserves ==
    ASSUME WorkerInv, Commit
    PROVE  WorkerInv'
<1> USE DEF Commit, history
<1>1. TypeOK /\ batch # <<>> /\ Len(batch) <= open + 1  BY DEF WorkerInv, BatchIsOpen
<1>2. /\ queue \in Seq(Telemetry) /\ Len(queue) \in Nat /\ fetched \in 0 .. Len(queue)
      /\ batch \in Seq(Telemetry) /\ Len(batch) <= MaxPoll /\ open \in Nat /\ MaxPoll \in Nat
  BY <1>1, WorkerAssumption DEF TypeOK
<1>3. queue' \in Seq(Telemetry) /\ Len(queue') \in Nat
  <2>1. Len(queue) \in fetched .. Len(queue)  BY <1>2
  <2>2. queue' \in Seq(Telemetry)  BY <1>2, <2>1, PartFacts
  <2>3. QED  BY <2>2
<1>4. batch' \in Seq(Telemetry) /\ Len(batch') = Len(batch) - 1 /\ Len(batch) \in Nat
  BY <1>1, <1>2, TailFacts
<1>5. Len(batch') <= MaxPoll /\ Len(batch') <= open /\ fetched' \in 0 .. Len(queue')
  BY <1>1, <1>2, <1>3, <1>4
<1>6. pc' \in {"sweeping", "handling"} /\ (pc' = "handling" => batch' # <<>>)  OBVIOUS
<1>7. Sound(buffers') /\ SessionsAreTracked' /\ RaisesOnlyAfterEviction'  BY <1>6, MemoriesStay
<1>8. outcomes' \in Seq(OutcomeType) /\ attempted' \in 0 .. Len(outcomes')  OBVIOUS
<1>9. UNCHANGED <<buffers, session, faults, open, evicted, clean>>  OBVIOUS
<1>10. TypeOK'  BY <1>1, <1>3, <1>4, <1>5, <1>6, <1>8, <1>9 DEF TypeOK
<1>11. BatchIsOpen'  BY <1>5, <1>6, <1>9 DEF BatchIsOpen
<1>12. QED  BY <1>7, <1>10, <1>11 DEF WorkerInv

(* The sweep at the end of a poll. *)
LEMMA SweepPreserves ==
    ASSUME WorkerInv, Sweep
    PROVE  WorkerInv'
<1> DEFINE d == SweepTimeouts(buffers)
<1>1. /\ pc' = "polling" /\ buffers' = d.buffers /\ outcomes' = d.outcomes
      /\ attempted' = Len(d.outcomes)
      /\ UNCHANGED <<queue, fetched, batch, session, faults, open, evicted, clean>>
  BY DEF Sweep, consumer, history
<1>2. TypeOK /\ Sound(buffers) /\ SessionsAreTracked  BY DEF WorkerInv
<1>3. Alike(buffers', buffers) /\ outcomes' \in Seq(OutcomeType)  BY <1>1, <1>2, SweepFacts
<1> HIDE DEF d
<1>4. Sound(buffers') /\ SessionsAreTracked'  BY <1>1, <1>2, <1>3, AlikeIsSound, AlikeIsTracked
<1>5. attempted' \in 0 .. Len(outcomes')  BY <1>1, <1>3
<1>6. TypeOK'  BY <1>1, <1>2, <1>3, <1>4, <1>5, SoundIsTyped DEF TypeOK
<1>7. BatchIsOpen' /\ RaisesOnlyAfterEviction'  BY <1>1 DEF BatchIsOpen, RaisesOnlyAfterEviction
<1>8. QED  BY <1>4, <1>6, <1>7 DEF WorkerInv

(* The clock. *)
LEMMA TickPreserves ==
    ASSUME WorkerInv, Tick
    PROVE  WorkerInv'
<1>1. /\ pc # "raised" /\ buffers' = Aged(buffers) /\ outcomes' = <<>> /\ attempted' = 0
      /\ UNCHANGED <<queue, fetched, batch, pc, session, faults, open, evicted, clean>>
  BY DEF Tick, consumer, history
<1>2. TypeOK /\ Sound(buffers) /\ SessionsAreTracked /\ BatchIsOpen  BY DEF WorkerInv
<1>3. Alike(buffers', buffers)  BY <1>1, <1>2, AgedFacts
<1>4. Sound(buffers') /\ SessionsAreTracked'  BY <1>1, <1>2, <1>3, AlikeIsSound, AlikeIsTracked
<1>5. outcomes' \in Seq(OutcomeType) /\ attempted' \in 0 .. Len(outcomes')  BY <1>1
<1>6. TypeOK'
  <2>1. \A i \in 1 .. Len(buffers') :
          /\ buffers'[i].asset \in Asset /\ buffers'[i].latest \in Nat
          /\ \A j \in 1 .. Len(buffers'[i].pending) : buffers'[i].pending[j].age \in 0 .. Timeout
    BY <1>4, SoundIsTyped
  <2>2. QED  BY <1>1, <1>2, <1>5, <2>1 DEF TypeOK
<1>7. BatchIsOpen' /\ RaisesOnlyAfterEviction'
  BY <1>1, <1>2 DEF BatchIsOpen, RaisesOnlyAfterEviction
<1>8. QED  BY <1>4, <1>6, <1>7 DEF WorkerInv

(* A process that starts, or that is gone, knows nothing. *)
LEMMA ColdPreserves ==
    ASSUME WorkerInv, Cold, queue' = queue, faults' \in 0 .. MaxFaults,
           pc' \in {"polling", "down"}
    PROVE  WorkerInv'
<1> USE DEF Cold
<1>1. Sound(buffers') /\ 1 .. Len(buffers') = {}  BY NoBuffers
<1>2. /\ queue' \in Seq(Telemetry) /\ batch' \in Seq(Telemetry) /\ Len(batch') <= MaxPoll
      /\ fetched' \in 0 .. Len(queue') /\ outcomes' \in Seq(OutcomeType)
      /\ attempted' \in 0 .. Len(outcomes') /\ open' \in Nat
  <2>1. queue \in Seq(Telemetry) /\ Len(queue) \in Nat  BY DEF WorkerInv, TypeOK
  <2>2. QED  BY <2>1, WorkerAssumption
<1>3. session' \in [Asset -> Nat] /\ evicted' \subseteq Asset /\ clean' \in BOOLEAN
  BY DEF Never
<1>4. TypeOK'  BY <1>1, <1>2, <1>3, SoundIsTyped DEF TypeOK
<1>5. SessionsAreTracked'  BY <1>1 DEF SessionsAreTracked
<1>6. BatchIsOpen' /\ RaisesOnlyAfterEviction'  BY DEF BatchIsOpen, RaisesOnlyAfterEviction
<1>7. QED  BY <1>1, <1>4, <1>5, <1>6 DEF WorkerInv

(* Every step preserves the invariant. *)
LEMMA WorkerStepPreserves ==
    ASSUME WorkerInv, Next
    PROVE  WorkerInv'
<1>1. ASSUME NEW m \in Telemetry, Send(m) PROVE WorkerInv'  BY <1>1, SendPreserves
<1>2. CASE Poll  BY <1>2, PollPreserves
<1>3. CASE HandleEvent  BY <1>3, EventIsTracked, EventIsTyped DEF WorkerInv
<1>4. CASE HandleMalformed  BY <1>4, HandleMalformedPreserves
<1>5. CASE Commit  BY <1>5, CommitPreserves
<1>6. CASE Sweep  BY <1>6, SweepPreserves
<1>7. CASE Tick  BY <1>7, TickPreserves
<1>8. CASE Restart
  <2>1. faults' \in 0 .. MaxFaults  BY <1>8 DEF Restart, WorkerInv, TypeOK
  <2>2. QED  BY <1>8, <2>1, ColdPreserves DEF Restart
<1>9. CASE Crash
  <2>1. faults' \in 0 .. MaxFaults  BY <1>9, WorkerAssumption DEF Crash, WorkerInv, TypeOK
  <2>2. QED  BY <1>9, <2>1, ColdPreserves DEF Crash
<1>10. QED
  BY <1>1, <1>2, <1>3, <1>4, <1>5, <1>6, <1>7, <1>8, <1>9 DEF Next, WorkerStep

(* A step of the environment. *)
LEMMA WorkerStutters ==
    ASSUME WorkerInv, UNCHANGED vars
    PROVE  WorkerInv'
<1> USE DEF vars, consumer, history
<1>1. TypeOK'  BY DEF WorkerInv, TypeOK
<1>2. Sound(buffers') /\ SessionsAreTracked'  BY DEF WorkerInv, SessionsAreTracked, Untracked
<1>3. BatchIsOpen' /\ RaisesOnlyAfterEviction'
  BY DEF WorkerInv, BatchIsOpen, RaisesOnlyAfterEviction
<1>4. QED  BY <1>1, <1>2, <1>3 DEF WorkerInv

(***************************************************************************)
(* WorkerInv holds in every state of the worker, for any assets, any       *)
(* telemetry and any limits: it is the inductive strengthening of          *)
(* MemoriesAgree (worker.py, assembly.py).                                 *)
(***************************************************************************)
THEOREM WorkerInvariant == Spec => []WorkerInv
<1>1. Init => WorkerInv  BY InitTracked
<1>2. WorkerInv /\ [Next]_vars => WorkerInv'  BY WorkerStepPreserves, WorkerStutters
<1>3. QED  BY <1>1, <1>2, PTL DEF Spec

(***************************************************************************)
(* The assembler stays within its limits, and a session is never ahead of  *)
(* it, nor behind while every publish succeeds, unless the asset's buffer  *)
(* was evicted; only then does the session's NonMonotonicTimestampError    *)
(* end the process (worker.py, assembly.py).                               *)
(***************************************************************************)
THEOREM MemoriesStayAgreed == Spec => []MemoriesAgree
<1>1. WorkerInv => MemoriesAgree
  <2> SUFFICES ASSUME WorkerInv PROVE MemoriesAgree  OBVIOUS
  <2>1. TypeOK /\ Sound(buffers) /\ SessionsAreTracked /\ RaisesOnlyAfterEviction
    BY DEF WorkerInv
  <2>2. BoundedState  BY <2>1 DEF BoundedState, Sound, SoundBuffer, SoundPending
  <2>3. SessionFollowsAssembler
    <3>1. \A i \in 1 .. Len(buffers) : buffers[i].asset \in Asset  BY <2>1 DEF TypeOK
    <3>2. QED  BY <2>1, <3>1 DEF SessionFollowsAssembler, SessionsAreTracked
  <2>4. QED  BY <2>1, <2>2, <2>3 DEF MemoriesAgree
<1>2. QED  BY <1>1, WorkerInvariant, PTL

(* What was told among the outcomes of a step is among those it got to, or *)
(* a publish has failed.                                                   *)
LEMMA StepReports ==
    ASSUME WorkerInv, Next, pc' # "down", pc \notin {"down", "raised"},
           NEW w \in Waiting(buffers) \ Waiting(buffers')
    PROVE  \E k \in 1 .. Len(outcomes') :
             /\ <<outcomes'[k].asset, outcomes'[k].at>> = w
             /\ outcomes'[k].status # "pending"
             /\ k <= attempted' \/ faults' > faults
<1>1. Sound(buffers) /\ faults \in Nat  BY DEF WorkerInv, TypeOK
<1>2. CASE HandleEvent
  <2> DEFINE o == outcomes'[Len(outcomes')]
  <2>1. w \in Told(outcomes')  BY <1>2, HandleEventFacts DEF Ingested
  <2>2. PICK k \in 1 .. Len(outcomes') : /\ outcomes'[k].status # "pending"
                                         /\ w = <<outcomes'[k].asset, outcomes'[k].at>>
    BY <2>1 DEF Told
  <2>3. /\ outcomes' \in Seq(OutcomeType)
        /\ Handled(o) \/ Failed(o) \/ Raised(o)
    BY <1>2, HandleEventEnds
  <2> HIDE DEF o
  <2>4. k <= Len(outcomes')  BY <2>3
  <2>5. k <= attempted' \/ faults' > faults
    BY <1>1, <2>3, <2>4 DEF Handled, Failed, Raised, GiveUp
  <2>6. QED  BY <2>2, <2>5
<1>3. CASE Sweep
  <2>1. /\ buffers' = SweepTimeouts(buffers).buffers
        /\ outcomes' = SweepTimeouts(buffers).outcomes /\ attempted' = Len(outcomes')
    BY <1>3 DEF Sweep
  <2>2. w \in Told(outcomes') /\ outcomes' \in Seq(OutcomeType)  BY <1>1, <2>1, SweepFacts
  <2>3. PICK k \in 1 .. Len(outcomes') : /\ outcomes'[k].status # "pending"
                                         /\ w = <<outcomes'[k].asset, outcomes'[k].at>>
    BY <2>2 DEF Told
  <2>4. k <= attempted'  BY <2>1, <2>2
  <2>5. QED  BY <2>3, <2>4
<1>4. CASE Tick  BY <1>1, <1>4, AgedFacts DEF Tick
<1>5. CASE buffers' = buffers  BY <1>5
<1>6. QED
  BY <1>2, <1>3, <1>4, <1>5
  DEF Next, WorkerStep, Send, Poll, HandleMalformed, Commit, Restart, Crash

(***************************************************************************)
(* A pending sample that leaves the assembler of a living process is       *)
(* completed or rejected, and the worker acts on it unless a publish has   *)
(* just failed: no limit and no timeout drops a sample in silence          *)
(* (assembly.py:22-26).                                                    *)
(***************************************************************************)
THEOREM DropsStayReported == Spec => DropsAreReported
<1> DEFINE A == pc' # "down" /\ pc \notin {"down", "raised"} =>
                  \A w \in Waiting(buffers) \ Waiting(buffers') :
                    \E k \in 1 .. Len(outcomes') :
                      /\ <<outcomes'[k].asset, outcomes'[k].at>> = w
                      /\ outcomes'[k].status # "pending"
                      /\ k <= attempted' \/ faults' > faults
<1>1. WorkerInv /\ [Next]_vars => [A]_vars
  <2>1. ASSUME WorkerInv, Next PROVE A  BY <2>1, StepReports
  <2> HIDE DEF A
  <2>2. QED  BY <2>1
<1>2. QED  BY <1>1, WorkerInvariant, PTL DEF Spec, DropsAreReported
=============================================================================
