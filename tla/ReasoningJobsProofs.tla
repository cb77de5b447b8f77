------------------------ MODULE ReasoningJobsProofs ------------------------
(***************************************************************************)
(* Proofs about ReasoningJobs for any assets, observations and workers.    *)
(*                                                                         *)
(* None of the safety properties is inductive alone.  What they rest on is *)
(* that the asset's index entry has one holder at a time: IndInv says who  *)
(* holds what (LockInv), what a request's row may be (RequestInv), that    *)
(* rows beyond the clock do not exist yet (FreshInv), and then carries the *)
(* properties themselves.                                                  *)
(*                                                                         *)
(* The last part is about WorkerHealth, for any worker processes and any   *)
(* intervals with Interval + MaxJob <= Timeout + 1. AliveMeansReady speaks *)
(* of the freshest row, and so of a minimum; what makes it true is how old *)
(* the row of a living process can be.  FreshBeat says it: as long as no   *)
(* heartbeat is due the row is as old as the mark, and a job adds at most  *)
(* its own time to the last age before it started.                         *)
(***************************************************************************)
EXTENDS ReasoningJobs, WorkerHealth, WellFoundedInduction, TLAPS

FreshInv ==
    \A j \in JobId :
        /\ j > clock => jobs[j].status = "ABSENT"
        /\ jobs[j].status # "ABSENT" => jobs[j].asset \in Asset
        /\ jobs[j].status # "PENDING" => ~jobs[j].dirty

Requesting(o) == req[o] \in {"enqueueing", "enqueued"}

RequestInv ==
    /\ \A o \in Obs : Requesting(o) => reqJob[o] \in JobId /\ reqJob[o] <= clock
    /\ \A o \in Obs : req[o] = "enqueueing" => jobs[reqJob[o]].status = "ABSENT"
    /\ \A o \in Obs : req[o] = "enqueued" =>
          \/ jobs[reqJob[o]].status = "ABSENT" /\ Outstanding(AssetOf[o]) = {}
          \/ jobs[reqJob[o]].status = "PENDING" /\ jobs[reqJob[o]].asset = AssetOf[o]
    /\ \A o, p \in Obs :
          (Requesting(o) /\ Requesting(p) /\ o # p /\ reqJob[o] = reqJob[p])
             => jobs[reqJob[o]].status # "ABSENT"

LockInv ==
    /\ \A o, p \in Obs :
          (req[o] = "enqueued" /\ req[p] = "enqueued" /\ o # p) => AssetOf[o] # AssetOf[p]
    /\ \A w \in Worker :
          InTxn(w) => wjob[w] \in JobId /\ jobs[wjob[w]].status = "PENDING"
    /\ \A w \in Worker :
          wpc[w] = "dispatching" => wjob[w] \in JobId /\ jobs[wjob[w]].status \in Terminal
    /\ RunsAreSerialPerAsset

OnePending ==
    \A j, k \in JobId :
        (jobs[j].status = "PENDING" /\ jobs[k].status = "PENDING"
           /\ jobs[j].asset = jobs[k].asset) => j = k

IndInv ==
    TypeOK /\ FreshInv /\ RequestInv /\ LockInv /\ OnePending
      /\ NoLostWakeup /\ QuietAssetIsCovered

----------------------------------------------------------------------------
(***************************************************************************)
(* Type correctness of every step: the rows of the job table, the stamps,  *)
(* and the control state of requests and workers keep their types.         *)
(***************************************************************************)
LEMMA FinishRowTypes ==
    ASSUME TypeOK, NEW j \in JobId, NEW s \in Terminal, FinishRow(j, s)
    PROVE  /\ jobs' \in [JobId -> Row]
           /\ clock' \in 0 .. MaxStamp
<1>1. jobs[j] \in Row
  BY DEF TypeOK
<1>2. [jobs[j] EXCEPT !.status = s] \in Row
  BY <1>1 DEF Row, Status, Terminal
<1>3. [jobs[j] EXCEPT !.status = s, !.dirty = FALSE] \in Row
  BY <1>1 DEF Row, Status, Terminal
<1>4. PendingRow(jobs[j].asset) \in Row
  BY <1>1 DEF Row, Status, PendingRow
<1>5. CASE jobs[j].dirty
  <2> DEFINE done == [jobs[j] EXCEPT !.status = s, !.dirty = FALSE]
             next == PendingRow(jobs[j].asset)
  <2>1. jobs' = [jobs EXCEPT ![j] = done, ![clock + 1] = next] /\ clock' = clock + 1
        /\ clock < MaxStamp
    BY <1>5 DEF FinishRow
  <2>2. done \in Row /\ next \in Row
    BY <1>3, <1>4
  <2> HIDE DEF done, next
  <2>3. jobs \in [JobId -> Row] /\ clock \in 0 .. MaxStamp
    BY DEF TypeOK
  <2>4. jobs' \in [JobId -> Row]
    BY <2>1, <2>2, <2>3
  <2> QED
    BY <2>1, <2>3, <2>4, ConstantsAssumption
<1>6. CASE ~jobs[j].dirty
  BY <1>2, <1>6 DEF FinishRow, TypeOK
<1> QED
  BY <1>5, <1>6

(* Where a worker is in process_next says which job it holds. *)
HoldsJob ==
    \A w \in Worker : wpc[w] \in {"claimed", "reasoning", "dispatching"} => wjob[w] \in JobId

LEMMA TypeStep == TypeOK /\ HoldsJob /\ RequestInv /\ [Next]_vars => TypeOK' /\ HoldsJob'
<1> SUFFICES ASSUME TypeOK, HoldsJob, RequestInv, [Next]_vars
             PROVE  TypeOK' /\ HoldsJob'
  OBVIOUS
<1> USE ConstantsAssumption
<1>1. ASSUME NEW o \in Obs, StartCreate(o) PROVE TypeOK' /\ HoldsJob'
  BY <1>1 DEF StartCreate, TypeOK, HoldsJob, JobId, workerVars, historyVars
<1>2. ASSUME NEW o \in Obs, EnqueueInsert(o) PROVE TypeOK' /\ HoldsJob'
  BY <1>2 DEF EnqueueInsert, TypeOK, HoldsJob, dbVars, workerVars, historyVars
<1>3. ASSUME NEW o \in Obs, MarkDirty(o) PROVE TypeOK' /\ HoldsJob'
  BY <1>3 DEF MarkDirty, Outstanding, TypeOK, HoldsJob, dbVars, workerVars, historyVars
<1>4. ASSUME NEW o \in Obs, CommitCreate(o) PROVE TypeOK' /\ HoldsJob'
  <2>1. reqJob[o] \in JobId /\ jobs[reqJob[o]] \in Row
    BY <1>4 DEF CommitCreate, RequestInv, Requesting, TypeOK
  <2>2. PendingRow(AssetOf[o]) \in Row /\ [jobs[reqJob[o]] EXCEPT !.dirty = TRUE] \in Row
    BY <2>1 DEF PendingRow, Row, Status
  <2>3. jobs' \in [JobId -> Row]
    BY <1>4, <2>1, <2>2 DEF CommitCreate, TypeOK
  <2> QED
    BY <1>4, <2>3 DEF CommitCreate, TypeOK, HoldsJob, workerVars, historyVars, NoJob
<1>5. ASSUME NEW o \in Obs, AbortCreate(o) PROVE TypeOK' /\ HoldsJob'
  BY <1>5 DEF AbortCreate, TypeOK, HoldsJob, dbVars, workerVars, historyVars, NoJob
<1>6. ASSUME NEW w \in Worker, Claim(w) PROVE TypeOK' /\ HoldsJob'
  BY <1>6 DEF Claim, Claimable, ObservationsOf, observations, TypeOK, HoldsJob,
             dbVars, reqVars, historyVars
<1>7. ASSUME NEW w \in Worker, ListObservations(w) PROVE TypeOK' /\ HoldsJob'
  BY <1>7 DEF ListObservations, ObservationsOf, observations, TypeOK, HoldsJob,
             dbVars, reqVars, historyVars
<1>8. ASSUME NEW w \in Worker, Complete(w) PROVE TypeOK' /\ HoldsJob'
  <2>1. jobs' \in [JobId -> Row] /\ clock' \in 0 .. MaxStamp
    BY <1>8, FinishRowTypes DEF Complete, HoldsJob, Terminal
  <2> QED
    BY <1>8, <2>1 DEF Complete, TypeOK, HoldsJob, reqVars
<1>9. ASSUME NEW w \in Worker, ReasoningRaises(w) PROVE TypeOK' /\ HoldsJob'
  <2>1. jobs' \in [JobId -> Row] /\ clock' \in 0 .. MaxStamp
    BY <1>9, FinishRowTypes DEF ReasoningRaises, InTxn, HoldsJob, Terminal
  <2> QED
    BY <1>9, <2>1 DEF ReasoningRaises, Leave, TypeOK, HoldsJob, reqVars, NoJob
<1>10. ASSUME NEW w \in Worker, DispatchReturns(w) PROVE TypeOK' /\ HoldsJob'
  BY <1>10 DEF DispatchReturns, Leave, TypeOK, HoldsJob, dbVars, reqVars, historyVars, NoJob
<1>11. ASSUME NEW w \in Worker, DispatchRaises(w) PROVE TypeOK' /\ HoldsJob'
  <2>1. jobs' \in [JobId -> Row] /\ clock' \in 0 .. MaxStamp
    BY <1>11, FinishRowTypes DEF DispatchRaises, HoldsJob, Terminal
  <2> QED
    BY <1>11, <2>1 DEF DispatchRaises, Leave, TypeOK, HoldsJob, reqVars, historyVars, NoJob
<1>12. ASSUME NEW w \in Worker, WorkerCrash(w) PROVE TypeOK' /\ HoldsJob'
  BY <1>12 DEF WorkerCrash, Leave, TypeOK, HoldsJob, dbVars, reqVars, historyVars, NoJob
<1>13. ASSUME NEW w \in Worker, Restart(w) PROVE TypeOK' /\ HoldsJob'
  BY <1>13 DEF Restart, TypeOK, HoldsJob, dbVars, reqVars, historyVars
<1>14. CASE UNCHANGED vars
  BY <1>14 DEF vars, TypeOK, HoldsJob
<1> QED
  BY <1>1, <1>2, <1>3, <1>4, <1>5, <1>6, <1>7, <1>8, <1>9, <1>10, <1>11, <1>12, <1>13, <1>14
  DEF Next, Request, Work, Fault, Poll

----------------------------------------------------------------------------
(***************************************************************************)
(* What _finish_and_reschedule does to the table: the row becomes terminal *)
(* and clean, a dirty row gets one follow-up in a row that did not exist,  *)
(* and nothing else is touched.                                            *)
(***************************************************************************)
FollowUpInserted(j) ==
    /\ clock' = clock + 1
    /\ clock + 1 \in JobId
    /\ clock + 1 # j
    /\ jobs[clock + 1].status = "ABSENT"
    /\ jobs'[clock + 1] = PendingRow(jobs[j].asset)
    /\ \A k \in JobId \ {j, clock + 1} : jobs'[k] = jobs[k]

NothingInserted(j) ==
    /\ clock' = clock
    /\ \A k \in JobId \ {j} : jobs'[k] = jobs[k]

LEMMA FinishRowEffect ==
    ASSUME TypeOK, FreshInv, NEW j \in JobId, jobs[j].status # "ABSENT",
           NEW s \in Terminal, FinishRow(j, s)
    PROVE  /\ jobs'[j].status = s
           /\ jobs'[j].asset = jobs[j].asset
           /\ ~jobs'[j].dirty
           /\ IF jobs[j].dirty THEN FollowUpInserted(j) ELSE NothingInserted(j)
<1> USE ConstantsAssumption
<1>0. jobs \in [JobId -> Row] /\ jobs[j] \in Row /\ clock \in 0 .. MaxStamp
  BY DEF TypeOK
<1>1. CASE jobs[j].dirty
  <2> DEFINE done == [jobs[j] EXCEPT !.status = s, !.dirty = FALSE]
             next == PendingRow(jobs[j].asset)
  <2>1. jobs' = [jobs EXCEPT ![j] = done, ![clock + 1] = next] /\ clock' = clock + 1
        /\ clock < MaxStamp
    BY <1>1 DEF FinishRow
  <2>2. clock + 1 \in JobId /\ clock + 1 > clock
    BY <1>0, <2>1 DEF JobId
  <2>3. clock + 1 # j /\ jobs[clock + 1].status = "ABSENT"
    BY <2>2 DEF FreshInv
  <2>4. done.status = s /\ done.asset = jobs[j].asset /\ ~done.dirty
    BY <1>0 DEF Row
  <2> HIDE DEF done, next
  <2>5. jobs'[j] = done /\ jobs'[clock + 1] = next
        /\ \A k \in JobId \ {j, clock + 1} : jobs'[k] = jobs[k]
    BY <1>0, <2>1, <2>2, <2>3
  <2> QED
    BY <1>1, <2>1, <2>2, <2>3, <2>4, <2>5 DEF FollowUpInserted, next
<1>2. CASE ~jobs[j].dirty
  <2> DEFINE done == [jobs[j] EXCEPT !.status = s]
  <2>1. jobs' = [jobs EXCEPT ![j] = done] /\ clock' = clock
    BY <1>2 DEF FinishRow
  <2>2. done.status = s /\ done.asset = jobs[j].asset /\ ~done.dirty
    BY <1>0, <1>2 DEF Row
  <2> HIDE DEF done
  <2> QED
    BY <1>0, <1>2, <2>1, <2>2 DEF NothingInserted
<1> QED
  BY <1>1, <1>2

(* The parts of the invariant every step has to keep. *)
Core == FreshInv /\ RequestInv /\ LockInv /\ OnePending /\ NoLostWakeup

(***************************************************************************)
(* The end of an attempt, completed or failed: worker w, alone on its      *)
(* asset, finishes its row, and all the asset's observations were its      *)
(* input.                                                                  *)
(***************************************************************************)
LEMMA FinishKeepsCore ==
    ASSUME TypeOK, Core, NEW w \in Worker, InTxn(w), NEW s \in Terminal,
           FinishRow(wjob[w], s), attended' = attended \cup input[w],
           UNCHANGED reqVars, wpc'[w] \in {"dispatching", "down"},
           wpc'[w] = "dispatching" => wjob'[w] = wjob[w],
           \A v \in Worker \ {w} :
              wpc'[v] = wpc[v] /\ wjob'[v] = wjob[v] /\ input'[v] = input[v]
    PROVE  Core'
<1> USE ConstantsAssumption
<1> DEFINE j == wjob[w]
           a == jobs[j].asset
<1>1. j \in JobId /\ jobs[j].status = "PENDING" /\ a \in Asset
  BY DEF Core, LockInv, FreshInv
<1>2. /\ jobs'[j].status = s /\ jobs'[j].asset = a /\ ~jobs'[j].dirty
      /\ IF jobs[j].dirty THEN FollowUpInserted(j) ELSE NothingInserted(j)
  BY <1>1, FinishRowEffect DEF Core
<1>3. /\ ~LockedByRequest(a)
      /\ \A v \in Worker \ {w} : InTxn(v) => jobs[wjob[v]].asset # a
      /\ input[w] = ObservationsOf(a)
  BY DEF Core, LockInv, RunsAreSerialPerAsset
<1> HIDE DEF j, a
<1>4. clock \in 0 .. MaxStamp /\ req' = req /\ reqJob' = reqJob /\ s # "PENDING" /\ s # "ABSENT"
  BY DEF TypeOK, reqVars, Terminal
<1>5. \A o \in Obs : req[o] = "enqueued" => AssetOf[o] # a
  BY <1>3 DEF LockedByRequest
<1>6. \A k \in JobId : k # j /\ jobs[k].status = "PENDING" => jobs[k].asset # a
  BY <1>1 DEF Core, OnePending, a
<1>7. \A k \in JobId \ {j} : jobs'[k] = jobs[k] \/
         (jobs[j].dirty /\ k = clock + 1 /\ jobs'[k] = PendingRow(a) /\ jobs[k].status = "ABSENT")
  BY <1>2 DEF FollowUpInserted, NothingInserted, a
<1>8. FreshInv'
  BY <1>1, <1>2, <1>4, <1>7 DEF Core, FreshInv, PendingRow, FollowUpInserted, NothingInserted, JobId
<1>9. \A o \in Obs : Requesting(o) => jobs'[reqJob[o]] = jobs[reqJob[o]]
  <2> SUFFICES ASSUME NEW o \in Obs, Requesting(o) PROVE jobs'[reqJob[o]] = jobs[reqJob[o]]
    OBVIOUS
  <2>1. reqJob[o] \in JobId /\ reqJob[o] <= clock /\ reqJob[o] # clock + 1
    BY <1>4 DEF Core, RequestInv, JobId
  <2>2. reqJob[o] # j
    BY <1>1, <1>5 DEF Core, RequestInv, Requesting, a
  <2> QED
    BY <1>7, <2>1, <2>2
<1>10. \A b \in Asset : b # a => Outstanding(b)' = Outstanding(b)
  BY <1>1, <1>2, <1>7 DEF Outstanding, PendingRow, a
<1>11. RequestInv'
  <2>1. \A o \in Obs : req[o] = "enqueued" => Outstanding(AssetOf[o])' = Outstanding(AssetOf[o])
    BY <1>5, <1>10
  <2>2. clock' = clock \/ clock' = clock + 1
    BY <1>2 DEF FollowUpInserted, NothingInserted
  <2>3. \A o \in Obs : Requesting(o) => reqJob'[o] \in JobId /\ reqJob'[o] <= clock'
    BY <1>4, <2>2 DEF Core, RequestInv, JobId
  <2> QED
    BY <1>4, <1>9, <2>1, <2>3 DEF Core, RequestInv, Requesting
<1>12. \A v \in Worker \ {w} : (InTxn(v) => jobs'[wjob[v]] = jobs[wjob[v]])
                              /\ InTxn(v)' = InTxn(v)
  BY <1>3, <1>7 DEF Core, LockInv, InTxn, a, j
<1>13. ~InTxn(w)'
  BY DEF InTxn
<1>14. observations' = observations /\ \A b : ObservationsOf(b)' = ObservationsOf(b)
  BY <1>4 DEF observations, ObservationsOf
<1>15. LockInv'
  <2>1. \A v \in Worker : wpc'[v] = "dispatching" =>
           wjob'[v] \in JobId /\ jobs'[wjob'[v]].status \in Terminal
    BY <1>1, <1>2, <1>7 DEF Core, LockInv, Terminal, PendingRow, j
  <2>2. \A b : LockedByRequest(b)' = LockedByRequest(b)
    BY <1>4 DEF LockedByRequest
  <2>3. RunsAreSerialPerAsset'
    BY <1>12, <1>13, <1>14, <2>2 DEF Core, LockInv, RunsAreSerialPerAsset
  <2> QED
    BY <1>4, <1>12, <1>13, <2>1, <2>3 DEF Core, LockInv
<1>16. OnePending'
  BY <1>1, <1>2, <1>4, <1>6, <1>7 DEF Core, OnePending, PendingRow
<1>17. NoLostWakeup'
  <2> SUFFICES ASSUME NEW o \in observations
               PROVE  o \in attended' \/ Outstanding(AssetOf[o])' # {}
    BY <1>14 DEF NoLostWakeup
  <2>1. o \in Obs /\ AssetOf[o] \in Asset
    BY DEF observations
  <2>2. CASE AssetOf[o] = a
    BY <1>3, <2>2 DEF ObservationsOf
  <2>3. CASE AssetOf[o] # a
    BY <1>10, <2>1, <2>3 DEF Core, NoLostWakeup
  <2> QED
    BY <2>2, <2>3
<1> QED
  BY <1>8, <1>11, <1>15, <1>16, <1>17 DEF Core

----------------------------------------------------------------------------
(* A step that leaves the table, the stored observations and the history   *)
(* alone cannot make a quiet asset's results stale.                        *)
LEMMA QuietUnchanged ==
    ASSUME QuietAssetIsCovered, UNCHANGED <<jobs, covered>>, observations' = observations
    PROVE  QuietAssetIsCovered'
BY DEF QuietAssetIsCovered, Outstanding, ObservationsOf, CanRunReasoning

(* The steps of a request, POST /observations. *)
LEMMA RequestStep ==
    ASSUME IndInv, NEW o \in Obs, Request(o) \/ AbortCreate(o)
    PROVE  Core' /\ QuietAssetIsCovered'
<1> USE ConstantsAssumption DEF IndInv
<1>0. /\ UNCHANGED <<wpc, wjob, input, attended, covered>>
      /\ \A w \in Worker : InTxn(w)' = InTxn(w)
  BY DEF Request, StartCreate, EnqueueInsert, MarkDirty, CommitCreate, AbortCreate,
         workerVars, historyVars, InTxn
<1>1. CASE StartCreate(o)
  <2>1. /\ jobs' = jobs /\ clock' = clock + 1 /\ clock < MaxStamp /\ clock \in Nat
        /\ clock + 1 \in JobId /\ jobs[clock + 1].status = "ABSENT"
        /\ req[o] = "idle"
        /\ req' = [req EXCEPT ![o] = "enqueueing"]
        /\ reqJob' = [reqJob EXCEPT ![o] = clock + 1]
    BY <1>1 DEF StartCreate, TypeOK, FreshInv, JobId
  <2>2. observations' = observations /\ \A a : Outstanding(a)' = Outstanding(a)
    BY <2>1 DEF observations, Outstanding, TypeOK
  <2>3. FreshInv' /\ OnePending' /\ NoLostWakeup'
    BY <1>0, <2>1, <2>2 DEF FreshInv, OnePending, NoLostWakeup, JobId
  <2>4. RequestInv'
    BY <2>1, <2>2 DEF RequestInv, Requesting, TypeOK, JobId
  <2>5. LockInv'
    BY <1>0, <2>1, <2>2 DEF LockInv, RunsAreSerialPerAsset, LockedByRequest, ObservationsOf, TypeOK
  <2> QED
    BY <1>0, <2>1, <2>2, <2>3, <2>4, <2>5, QuietUnchanged DEF Core
<1>2. CASE EnqueueInsert(o)
  <2>1. /\ UNCHANGED <<jobs, clock, reqJob>> /\ req[o] = "enqueueing"
        /\ req' = [req EXCEPT ![o] = "enqueued"]
        /\ ~LockedByRequest(AssetOf[o]) /\ ~LockedByWorker(AssetOf[o])
        /\ Outstanding(AssetOf[o]) = {}
    BY <1>2 DEF EnqueueInsert, dbVars, AssetBusy
  <2>2. observations' = observations /\ \A a : Outstanding(a)' = Outstanding(a)
    BY <2>1 DEF observations, Outstanding, TypeOK
  <2>3. FreshInv' /\ OnePending' /\ NoLostWakeup'
    BY <1>0, <2>1, <2>2 DEF FreshInv, OnePending, NoLostWakeup
  <2>4. RequestInv'
    BY <2>1, <2>2 DEF RequestInv, Requesting, TypeOK
  <2>5. LockInv'
    BY <1>0, <2>1, <2>2 DEF LockInv, RunsAreSerialPerAsset, LockedByRequest, LockedByWorker,
       ObservationsOf, TypeOK
  <2> QED
    BY <1>0, <2>1, <2>2, <2>3, <2>4, <2>5, QuietUnchanged DEF Core
<1>3. CASE MarkDirty(o)
  <2>0. PICK j \in Outstanding(AssetOf[o]) : reqJob' = [reqJob EXCEPT ![o] = j]
    BY <1>3 DEF MarkDirty
  <2>1. /\ UNCHANGED <<jobs, clock>> /\ req[o] = "enqueueing"
        /\ req' = [req EXCEPT ![o] = "enqueued"]
        /\ ~LockedByRequest(AssetOf[o]) /\ ~LockedByWorker(AssetOf[o])
        /\ j \in JobId /\ jobs[j].status = "PENDING" /\ jobs[j].asset = AssetOf[o]
        /\ j <= clock
    BY <1>3 DEF MarkDirty, dbVars, AssetBusy, Outstanding, FreshInv, TypeOK, JobId
  <2>2. observations' = observations /\ \A a : Outstanding(a)' = Outstanding(a)
    BY <2>1 DEF observations, Outstanding, TypeOK
  <2>3. FreshInv' /\ OnePending' /\ NoLostWakeup'
    BY <1>0, <2>1, <2>2 DEF FreshInv, OnePending, NoLostWakeup
  <2>4. RequestInv'
    BY <2>0, <2>1, <2>2 DEF RequestInv, Requesting, TypeOK
  <2>5. LockInv'
    BY <1>0, <2>1, <2>2 DEF LockInv, RunsAreSerialPerAsset, LockedByRequest, LockedByWorker,
       ObservationsOf, TypeOK
  <2> QED
    BY <1>0, <2>1, <2>2, <2>3, <2>4, <2>5, QuietUnchanged DEF Core
<1>5. CASE AbortCreate(o)
  <2>1. /\ UNCHANGED <<jobs, clock>> /\ Requesting(o)
        /\ req' = [req EXCEPT ![o] = "idle"] /\ reqJob' = [reqJob EXCEPT ![o] = NoJob]
    BY <1>5 DEF AbortCreate, dbVars, Requesting
  <2>2. observations' = observations /\ \A a : Outstanding(a)' = Outstanding(a)
    BY <2>1 DEF observations, Outstanding, TypeOK, Requesting
  <2>3. FreshInv' /\ OnePending' /\ NoLostWakeup'
    BY <1>0, <2>1, <2>2 DEF FreshInv, OnePending, NoLostWakeup
  <2>4. RequestInv'
    BY <2>1, <2>2 DEF RequestInv, Requesting, TypeOK
  <2>5. LockInv'
    BY <1>0, <2>1, <2>2 DEF LockInv, RunsAreSerialPerAsset, LockedByRequest, ObservationsOf, TypeOK
  <2> QED
    BY <1>0, <2>1, <2>2, <2>3, <2>4, <2>5, QuietUnchanged DEF Core
<1>4. CASE CommitCreate(o)
  <2> DEFINE j == reqJob[o]
             a == AssetOf[o]
             row == IF jobs[j].status = "ABSENT" THEN PendingRow(a)
                                                  ELSE [jobs[j] EXCEPT !.dirty = TRUE]
  <2>1. /\ req[o] = "enqueued" /\ req' = [req EXCEPT ![o] = "committed"] /\ clock' = clock
        /\ jobs' = [jobs EXCEPT ![j] = row] /\ reqJob' = [reqJob EXCEPT ![o] = NoJob]
        /\ j \in JobId /\ j <= clock /\ a \in Asset /\ jobs[j] \in Row /\ jobs \in [JobId -> Row]
    BY <1>4 DEF CommitCreate, RequestInv, Requesting, TypeOK
  <2>2. row.status = "PENDING" /\ row.asset = a
    BY <2>1 DEF RequestInv, PendingRow, Row
  <2>3. \/ jobs[j].status = "ABSENT" /\ Outstanding(a) = {}
        \/ jobs[j].status = "PENDING" /\ jobs[j].asset = a
    BY <2>1 DEF RequestInv
  <2> HIDE DEF row
  <2>4. jobs'[j] = row /\ \A k \in JobId \ {j} : jobs'[k] = jobs[k]
    BY <2>1
  <2> HIDE DEF j, a
  <2>5. /\ j \in Outstanding(a)'
        /\ \A b : b # a => Outstanding(b)' = Outstanding(b)
    <3>1. j \in Outstanding(a)'
      BY <2>1, <2>2, <2>4 DEF Outstanding
    <3>2. ASSUME NEW b, b # a, NEW k \in JobId
          PROVE  (jobs'[k].asset = b /\ jobs'[k].status = "PENDING")
                    <=> (jobs[k].asset = b /\ jobs[k].status = "PENDING")
      BY <2>2, <2>3, <2>4, <3>2
    <3> QED
      BY <3>1, <3>2 DEF Outstanding
  <2>6. observations' = observations \cup {o}
    BY <2>1 DEF observations, TypeOK
  <2>7. \A p \in Obs \ {o} : req'[p] = req[p] /\ reqJob'[p] = reqJob[p]
    BY <2>1 DEF TypeOK
  <2>8. FreshInv'
    BY <2>1, <2>2, <2>4 DEF FreshInv, TypeOK, JobId
  <2>9. OnePending'
    BY <2>1, <2>2, <2>3, <2>4 DEF OnePending, Outstanding
  <2>10. NoLostWakeup'
    BY <1>0, <2>5, <2>6 DEF NoLostWakeup, a
  <2>11. RequestInv'
    <3>1. \A p \in Obs \ {o} : req[p] = "enqueued" => AssetOf[p] # a
      BY <2>1 DEF LockInv, a
    <3>2. \A p \in Obs \ {o} : req[p] = "enqueued" => Outstanding(AssetOf[p])' = Outstanding(AssetOf[p])
      BY <2>5, <3>1
    <3>3. \A p \in Obs \ {o} : Requesting(p) => jobs'[reqJob[p]] = jobs[reqJob[p]]
      <4> SUFFICES ASSUME NEW p \in Obs \ {o}, Requesting(p), reqJob[p] = j
                   PROVE  FALSE
        BY <2>4 DEF RequestInv
      <4>1. jobs[j].status # "ABSENT"
        BY <2>1 DEF RequestInv, Requesting, j
      <4>2. jobs[j].asset = a /\ jobs[j].status = "PENDING"
        BY <2>3, <4>1
      <4> QED
        BY <3>1, <4>1, <4>2 DEF RequestInv, Requesting, a
    <3> QED
      BY <2>1, <2>7, <3>2, <3>3 DEF RequestInv, Requesting, TypeOK
  <2>12. LockInv'
    <3>1. \A w \in Worker : InTxn(w) => jobs[wjob[w]].asset # a /\ wjob[w] # j
      BY <2>1, <2>3 DEF LockInv, RunsAreSerialPerAsset, LockedByRequest, a, j
    <3>2. \A w \in Worker : InTxn(w) => jobs'[wjob[w]] = jobs[wjob[w]]
      BY <2>4, <3>1 DEF LockInv
    <3>3. \A b : b # a => ObservationsOf(b)' = ObservationsOf(b)
      BY <2>6 DEF ObservationsOf, a
    <3>4. \A b : LockedByRequest(b)' => LockedByRequest(b)
      BY <2>1, <2>7 DEF LockedByRequest, TypeOK
    <3>5. RunsAreSerialPerAsset'
      BY <1>0, <3>1, <3>2, <3>3, <3>4 DEF LockInv, RunsAreSerialPerAsset
    <3>6. \A w \in Worker : wpc[w] = "dispatching" =>
             wjob[w] \in JobId /\ jobs'[wjob[w]].status \in Terminal
      BY <2>3, <2>4 DEF LockInv, Terminal
    <3> QED
      BY <1>0, <2>1, <2>7, <3>2, <3>5, <3>6 DEF LockInv, TypeOK
  <2>13. QuietAssetIsCovered'
    <3> SUFFICES ASSUME NEW b \in Asset, Outstanding(b)' = {},
                        \A k \in JobId : jobs'[k].asset = b => jobs'[k].status # "FAILED",
                        CanRunReasoning(ObservationsOf(b))'
                 PROVE  ObservationsOf(b)' \subseteq covered'
      BY DEF QuietAssetIsCovered
    <3>1. b # a
      BY <2>5
    <3>2. ObservationsOf(b)' = ObservationsOf(b) /\ Outstanding(b) = {}
      BY <2>5, <2>6, <3>1 DEF ObservationsOf, a
    <3>3. \A k \in JobId : jobs[k].asset = b => jobs[k].status # "FAILED"
      BY <2>3, <2>4
    <3> QED
      BY <1>0, <3>2, <3>3 DEF QuietAssetIsCovered, CanRunReasoning
  <2> QED
    BY <2>8, <2>9, <2>10, <2>11, <2>12, <2>13 DEF Core
<1> QED
  BY <1>1, <1>2, <1>3, <1>4, <1>5 DEF Request

----------------------------------------------------------------------------
(* The steps of a worker that touch neither the table nor the requests: it *)
(* can only take up a lock that is free, or give one up.                   *)
LEMMA QuietWorkerStep ==
    ASSUME IndInv, NEW w \in Worker,
           UNCHANGED <<jobs, clock, req, reqJob, attended, covered>>,
           \A v \in Worker \ {w} :
              wpc'[v] = wpc[v] /\ wjob'[v] = wjob[v] /\ input'[v] = input[v],
           wpc'[w] # "dispatching",
           InTxn(w)' => /\ wjob'[w] \in JobId
                        /\ jobs[wjob'[w]].status = "PENDING"
                        /\ input'[w] = ObservationsOf(jobs[wjob'[w]].asset)
                        /\ ~LockedByRequest(jobs[wjob'[w]].asset)
                        /\ \A v \in Worker \ {w} :
                             InTxn(v) => jobs[wjob[v]].asset # jobs[wjob'[w]].asset
    PROVE  Core' /\ QuietAssetIsCovered'
<1> USE DEF IndInv
<1>1. /\ observations' = observations
      /\ \A a : Outstanding(a)' = Outstanding(a)
      /\ \A a : ObservationsOf(a)' = ObservationsOf(a)
      /\ \A a : LockedByRequest(a)' = LockedByRequest(a)
  BY DEF observations, Outstanding, ObservationsOf, LockedByRequest
<1>2. FreshInv' /\ OnePending' /\ NoLostWakeup' /\ RequestInv'
  BY <1>1 DEF FreshInv, OnePending, NoLostWakeup, RequestInv, Requesting
<1>3. \A v \in Worker \ {w} : InTxn(v)' = InTxn(v)
  BY DEF InTxn
<1>4. RunsAreSerialPerAsset'
  BY <1>1, <1>3 DEF LockInv, RunsAreSerialPerAsset
<1>5. LockInv'
  BY <1>3, <1>4 DEF LockInv
<1> QED
  BY <1>1, <1>2, <1>5, QuietUnchanged DEF Core

(***************************************************************************)
(* Finishing a row with status FAILED, or with COMPLETED after a run over  *)
(* all the asset's observations, leaves no quiet asset with stale results. *)
(***************************************************************************)
LEMMA FinishKeepsQuiet ==
    ASSUME TypeOK, FreshInv, QuietAssetIsCovered, NEW j \in JobId,
           jobs[j].status # "ABSENT", NEW s \in Terminal, FinishRow(j, s),
           observations' = observations, covered \subseteq covered',
           jobs[j].status = "PENDING" \/ s = "FAILED",
           \/ s = "FAILED"
           \/ CanRunReasoning(ObservationsOf(jobs[j].asset))
                => ObservationsOf(jobs[j].asset) \subseteq covered'
    PROVE  QuietAssetIsCovered'
<1> DEFINE a == jobs[j].asset
<1>1. /\ jobs'[j].status = s /\ jobs'[j].asset = a
      /\ IF jobs[j].dirty THEN FollowUpInserted(j) ELSE NothingInserted(j)
  BY FinishRowEffect
<1>2. \A k \in JobId \ {j} : jobs'[k] = jobs[k] \/
         (jobs'[k] = PendingRow(a) /\ jobs[k].status = "ABSENT")
  BY <1>1 DEF FollowUpInserted, NothingInserted
<1>3. \A b : ObservationsOf(b)' = ObservationsOf(b)
             /\ CanRunReasoning(ObservationsOf(b))' = CanRunReasoning(ObservationsOf(b))
  BY DEF ObservationsOf, CanRunReasoning
<1> SUFFICES ASSUME NEW b \in Asset, Outstanding(b)' = {},
                    \A k \in JobId : jobs'[k].asset = b => jobs'[k].status # "FAILED",
                    CanRunReasoning(ObservationsOf(b))
             PROVE  ObservationsOf(b) \subseteq covered'
  BY <1>3 DEF QuietAssetIsCovered
<1>4. CASE b = a
  <2>1. s # "FAILED"
    BY <1>1, <1>4
  <2> QED
    BY <1>4, <2>1
<1>5. CASE b # a
  <2>1. Outstanding(b) = {}
    BY <1>1, <1>2, <1>5 DEF Outstanding, PendingRow
  <2>2. \A k \in JobId : jobs[k].asset = b => jobs[k].status # "FAILED"
    BY <1>1, <1>2, <1>5
  <2> QED
    BY <2>1, <2>2 DEF QuietAssetIsCovered
<1> QED
  BY <1>4, <1>5

LEMMA WorkerStep ==
    ASSUME IndInv, NEW w \in Worker, Work(w) \/ WorkerCrash(w)
    PROVE  Core' /\ QuietAssetIsCovered'
<1> USE ConstantsAssumption DEF IndInv
<1>1. CASE Claim(w)
  <2>1. PICK j \in Claimable : /\ wjob' = [wjob EXCEPT ![w] = j]
                               /\ input' = [input EXCEPT ![w] = ObservationsOf(jobs[j].asset)]
    BY <1>1 DEF Claim
  <2>2. /\ wjob'[w] = j /\ input'[w] = ObservationsOf(jobs[j].asset) /\ wpc'[w] = "claimed"
        /\ \A v \in Worker \ {w} : wpc'[v] = wpc[v] /\ wjob'[v] = wjob[v] /\ input'[v] = input[v]
        /\ UNCHANGED <<jobs, clock, req, reqJob, attended, covered>>
    BY <1>1, <2>1 DEF Claim, TypeOK, dbVars, reqVars, historyVars
  <2>3. j \in JobId /\ jobs[j].status = "PENDING" /\ ~LockedByRequest(jobs[j].asset)
        /\ \A v \in Worker : InTxn(v) => jobs[wjob[v]].asset # jobs[j].asset
    BY DEF Claimable, AssetBusy, LockedByWorker
  <2> QED
    BY <2>2, <2>3, QuietWorkerStep
<1>2. CASE Poll(w)
  BY <1>2 DEF Poll, vars, Core, FreshInv, RequestInv, Requesting, LockInv, OnePending, NoLostWakeup,
     QuietAssetIsCovered, RunsAreSerialPerAsset, InTxn, LockedByRequest, ObservationsOf,
     observations, Outstanding, CanRunReasoning
<1>3. CASE ListObservations(w)
  <2>1. /\ InTxn(w) /\ wjob' = wjob /\ wpc'[w] = "reasoning"
        /\ input'[w] = ObservationsOf(jobs[wjob[w]].asset)
        /\ \A v \in Worker \ {w} : wpc'[v] = wpc[v] /\ wjob'[v] = wjob[v] /\ input'[v] = input[v]
        /\ UNCHANGED <<jobs, clock, req, reqJob, attended, covered>>
    BY <1>3 DEF ListObservations, InTxn, TypeOK, dbVars, reqVars, historyVars
  <2> QED
    BY <2>1, QuietWorkerStep DEF LockInv, RunsAreSerialPerAsset
<1>4. CASE Complete(w)
  <2>1. /\ InTxn(w) /\ FinishRow(wjob[w], "COMPLETED") /\ attended' = attended \cup input[w]
        /\ covered' = IF CanRunReasoning(input[w]) THEN covered \cup input[w] ELSE covered
        /\ wpc'[w] = "dispatching" /\ wjob' = wjob /\ input' = input
        /\ \A v \in Worker \ {w} : wpc'[v] = wpc[v]
        /\ UNCHANGED reqVars
    BY <1>4 DEF Complete, InTxn, TypeOK
  <2>2. /\ wjob[w] \in JobId /\ jobs[wjob[w]].status = "PENDING"
        /\ input[w] = ObservationsOf(jobs[wjob[w]].asset)
    BY <2>1 DEF LockInv, RunsAreSerialPerAsset
  <2>3. Core'
    BY <2>1, FinishKeepsCore DEF Core, Terminal
  <2>4. observations' = observations
    BY <2>1 DEF reqVars, observations
  <2> QED
    BY <2>1, <2>2, <2>3, <2>4, FinishKeepsQuiet DEF Terminal
<1>5. CASE ReasoningRaises(w)
  <2>1. /\ InTxn(w) /\ FinishRow(wjob[w], "FAILED") /\ attended' = attended \cup input[w]
        /\ covered' = covered /\ wpc'[w] = "down"
        /\ \A v \in Worker \ {w} : wpc'[v] = wpc[v] /\ wjob'[v] = wjob[v] /\ input'[v] = input[v]
        /\ UNCHANGED reqVars
    BY <1>5 DEF ReasoningRaises, Leave, TypeOK
  <2>2. wjob[w] \in JobId /\ jobs[wjob[w]].status = "PENDING"
    BY <2>1 DEF LockInv
  <2>3. Core'
    BY <2>1, FinishKeepsCore DEF Core, Terminal
  <2>4. observations' = observations
    BY <2>1 DEF reqVars, observations
  <2> QED
    BY <2>1, <2>2, <2>3, <2>4, FinishKeepsQuiet DEF Terminal
<1>6. CASE DispatchRaises(w)
  <2>1. /\ wpc[w] = "dispatching" /\ FinishRow(wjob[w], "FAILED") /\ wpc'[w] = "down"
        /\ \A v \in Worker \ {w} : wpc'[v] = wpc[v] /\ wjob'[v] = wjob[v] /\ input'[v] = input[v]
        /\ UNCHANGED <<req, reqJob, attended, covered>>
    BY <1>6 DEF DispatchRaises, Leave, TypeOK, reqVars, historyVars
  <2> DEFINE j == wjob[w]
  <2>2. j \in JobId /\ jobs[j].status \in Terminal /\ jobs[j].status # "ABSENT" /\ ~jobs[j].dirty
    BY <2>1 DEF LockInv, FreshInv, Terminal
  <2>3. /\ jobs'[j].status = "FAILED" /\ jobs'[j].asset = jobs[j].asset /\ ~jobs'[j].dirty
        /\ NothingInserted(j)
    BY <2>1, <2>2, FinishRowEffect DEF Terminal
  <2>4. observations' = observations
    BY <2>1 DEF observations
  <2>5. QuietAssetIsCovered'
    BY <2>1, <2>2, <2>4, FinishKeepsQuiet DEF Terminal
  <2> HIDE DEF j
  <2>6. \A k \in JobId : /\ (jobs'[k].status = "PENDING") = (jobs[k].status = "PENDING")
                         /\ (jobs'[k].status = "ABSENT") = (jobs[k].status = "ABSENT")
                         /\ jobs'[k].asset = jobs[k].asset
                         /\ jobs'[k].status \in Terminal <=> jobs[k].status \in Terminal
    BY <2>2, <2>3 DEF NothingInserted, Terminal
  <2>7. \A b : Outstanding(b)' = Outstanding(b) /\ ObservationsOf(b)' = ObservationsOf(b)
               /\ LockedByRequest(b)' = LockedByRequest(b)
    BY <2>1, <2>4, <2>6 DEF Outstanding, ObservationsOf, LockedByRequest
  <2>8. FreshInv'
    BY <2>2, <2>3 DEF FreshInv, NothingInserted
  <2>9. RequestInv' /\ OnePending' /\ NoLostWakeup'
    BY <2>1, <2>3, <2>4, <2>6, <2>7 DEF RequestInv, Requesting, OnePending, NoLostWakeup, NothingInserted
  <2>10. ~InTxn(w)' /\ \A v \in Worker \ {w} : InTxn(v)' = InTxn(v)
    BY <2>1 DEF InTxn
  <2>11. RunsAreSerialPerAsset'
    BY <2>1, <2>6, <2>7, <2>10 DEF LockInv, RunsAreSerialPerAsset
  <2>12. LockInv'
    BY <2>1, <2>6, <2>10, <2>11 DEF LockInv
  <2> QED
    BY <2>5, <2>8, <2>9, <2>12 DEF Core
<1>7. CASE DispatchReturns(w) \/ WorkerCrash(w) \/ Restart(w)
  <2>1. /\ wpc'[w] \in {"idle", "down"}
        /\ \A v \in Worker \ {w} : wpc'[v] = wpc[v] /\ wjob'[v] = wjob[v] /\ input'[v] = input[v]
        /\ UNCHANGED <<jobs, clock, req, reqJob, attended, covered>>
    BY <1>7 DEF DispatchReturns, WorkerCrash, Restart, Leave, TypeOK, dbVars, reqVars, historyVars
  <2> QED
    BY <2>1, QuietWorkerStep DEF InTxn
<1> QED
  BY <1>1, <1>2, <1>3, <1>4, <1>5, <1>6, <1>7 DEF Work

----------------------------------------------------------------------------
(* The initial state, an empty table and idle processes, satisfies IndInv. *)
LEMMA IndInvInit == Init => IndInv
<1> SUFFICES ASSUME Init PROVE IndInv
  OBVIOUS
<1> USE ConstantsAssumption DEF Init
<1>1. AbsentRow \in Row
  BY DEF AbsentRow, Row, Status
<1>2. TypeOK
  BY <1>1 DEF TypeOK, NoJob
<1>3. FreshInv /\ OnePending
  BY DEF FreshInv, OnePending, AbsentRow
<1>4. observations = {} /\ \A w \in Worker : ~InTxn(w)
  BY DEF observations, InTxn
<1>5. RequestInv /\ LockInv /\ NoLostWakeup
  BY <1>4 DEF RequestInv, Requesting, LockInv, RunsAreSerialPerAsset, NoLostWakeup
<1>6. QuietAssetIsCovered
  BY <1>4 DEF QuietAssetIsCovered, ObservationsOf
<1> QED
  BY <1>2, <1>3, <1>5, <1>6 DEF IndInv

(* IndInv is inductive. *)
LEMMA IndInvStep == IndInv /\ [Next]_vars => IndInv'
<1> SUFFICES ASSUME IndInv, [Next]_vars PROVE IndInv'
  OBVIOUS
<1>1. HoldsJob
  BY DEF IndInv, LockInv, HoldsJob, InTxn
<1>2. TypeOK'
  BY <1>1, TypeStep DEF IndInv
<1>3. CASE UNCHANGED vars
  BY <1>2, <1>3 DEF IndInv, vars, FreshInv, RequestInv, Requesting, LockInv, OnePending,
     NoLostWakeup, QuietAssetIsCovered, RunsAreSerialPerAsset, InTxn, LockedByRequest,
     ObservationsOf, observations, Outstanding, CanRunReasoning
<1>4. ASSUME NEW o \in Obs, Request(o) \/ AbortCreate(o) PROVE IndInv'
  BY <1>2, <1>4, RequestStep DEF IndInv, Core
<1>5. ASSUME NEW w \in Worker, Work(w) \/ WorkerCrash(w) PROVE IndInv'
  BY <1>2, <1>5, WorkerStep DEF IndInv, Core
<1> QED
  BY <1>3, <1>4, <1>5 DEF Next, Fault

THEOREM IndInvHolds == Safety => []IndInv
  BY IndInvInit, IndInvStep, PTL DEF Safety

(* Type correctness of the queue, its requests and its workers. *)
THEOREM TypeCorrect == Safety => []TypeOK
<1>1. IndInv => TypeOK
  BY DEF IndInv
<1> QED
  BY <1>1, IndInvHolds, PTL

(***************************************************************************)
(* However many requests and workers race, crash and are restarted, the    *)
(* unique index on outstanding jobs is never violated.                     *)
(***************************************************************************)
THEOREM OneOutstandingHolds == Safety => []OneOutstandingPerAsset
<1>1. IndInv => OneOutstandingPerAsset
  BY DEF IndInv, OnePending, RequestInv, OneOutstandingPerAsset
<1> QED
  BY <1>1, IndInvHolds, PTL

(* A stored observation has been attended or is owed an attempt. *)
THEOREM NoLostWakeupHolds == Safety => []NoLostWakeup
<1>1. IndInv => NoLostWakeup
  BY DEF IndInv
<1> QED
  BY <1>1, IndInvHolds, PTL

(* Runs of one asset are serial and see all that is stored for it. *)
THEOREM RunsAreSerialHolds == Safety => []RunsAreSerialPerAsset
<1>1. IndInv => RunsAreSerialPerAsset
  BY DEF IndInv, LockInv
<1> QED
  BY <1>1, IndInvHolds, PTL

(* A quiet asset without failures has up-to-date reasoning results. *)
THEOREM QuietAssetIsCoveredHolds == Safety => []QuietAssetIsCovered
<1>1. IndInv => QuietAssetIsCovered
  BY DEF IndInv
<1> QED
  BY <1>1, IndInvHolds, PTL

(* No terminal row carries an unconsumed request. *)
THEOREM NoUnconsumedRequestHolds == Safety => []NoUnconsumedRequest
<1>1. IndInv => NoUnconsumedRequest
  BY DEF IndInv, FreshInv, NoUnconsumedRequest, Terminal
<1> QED
  BY <1>1, IndInvHolds, PTL

----------------------------------------------------------------------------
(***************************************************************************)
(* A step changes the status of a row only by inserting it or finishing a  *)
(* job; what is common to the steps that finish none.                      *)
(***************************************************************************)
LEMMA NoFinish ==
    ASSUME IndInv, NEW o \in Obs, Request(o) \/ AbortCreate(o)
    PROVE  \A j \in JobId : jobs[j].status = "PENDING" => jobs'[j].status = "PENDING"
<1>1. CASE CommitCreate(o)
  <2>1. jobs \in [JobId -> Row] /\ reqJob[o] \in JobId /\ jobs[reqJob[o]] \in Row
    BY <1>1 DEF IndInv, TypeOK, RequestInv, Requesting, CommitCreate
  <2>2. jobs'[reqJob[o]] = IF jobs[reqJob[o]].status = "ABSENT"
                           THEN PendingRow(AssetOf[o])
                           ELSE [jobs[reqJob[o]] EXCEPT !.dirty = TRUE]
    BY <1>1, <2>1 DEF CommitCreate
  <2>3. jobs[reqJob[o]].status = "PENDING" => jobs'[reqJob[o]].status = "PENDING"
    BY <2>1, <2>2 DEF Row
  <2> QED
    BY <1>1, <2>1, <2>3 DEF CommitCreate
<1>2. CASE ~CommitCreate(o)
  BY <1>2 DEF Request, StartCreate, EnqueueInsert, MarkDirty, AbortCreate, dbVars
<1> QED
  BY <1>1, <1>2

(***************************************************************************)
(* The docstring's "exactly one follow-up job": whichever step ends a      *)
(* dirty job leaves one outstanding job for its asset, in a new row.       *)
(***************************************************************************)
THEOREM FollowUpHolds == Safety => DirtyJobIsFollowedUp
<1>1. IndInv /\ [Next]_vars => [FollowUpStep]_vars
  <2> SUFFICES ASSUME IndInv, Next, NEW j \in JobId, jobs[j].dirty,
                      jobs[j].status = "PENDING", jobs'[j].status \in Terminal
               PROVE  \E k \in JobId :
                        /\ jobs[k].status = "ABSENT"
                        /\ {i \in JobId : jobs'[i].asset = jobs[j].asset
                                            /\ jobs'[i].status = "PENDING"} = {k}
    BY DEF FollowUpStep, vars
  <2>1. PICK w \in Worker : Work(w) \/ WorkerCrash(w)
    BY NoFinish DEF Next, Fault, Terminal
  <2>2. jobs' # jobs
    BY DEF Terminal
  <2>3. Complete(w) \/ ReasoningRaises(w) \/ DispatchRaises(w)
    BY <2>1, <2>2 DEF Work, Claim, Poll, vars, ListObservations, DispatchReturns, WorkerCrash, Restart, dbVars
  <2>4. PICK s \in Terminal : FinishRow(wjob[w], s)
    BY <2>3 DEF Complete, ReasoningRaises, DispatchRaises, Terminal
  <2>5. wjob[w] \in JobId /\ jobs[wjob[w]].status # "ABSENT"
    BY <2>3 DEF IndInv, LockInv, InTxn, Complete, ReasoningRaises, DispatchRaises, Terminal
  <2>6. /\ jobs'[wjob[w]].status = s /\ jobs'[wjob[w]].asset = jobs[wjob[w]].asset
        /\ IF jobs[wjob[w]].dirty THEN FollowUpInserted(wjob[w]) ELSE NothingInserted(wjob[w])
    BY <2>4, <2>5, FinishRowEffect DEF IndInv
  <2>7. j = wjob[w]
    BY <2>6 DEF FollowUpInserted, NothingInserted, PendingRow, Terminal
  <2>8. \A i \in JobId : (jobs'[i].asset = jobs[j].asset /\ jobs'[i].status = "PENDING")
                            <=> i = clock + 1
    BY <2>6, <2>7 DEF FollowUpInserted, PendingRow, Terminal, IndInv, OnePending
  <2> QED
    BY <2>6, <2>7, <2>8 DEF FollowUpInserted
<1> QED
  BY <1>1, IndInvHolds, PTL DEF Safety, DirtyJobIsFollowedUp

(***************************************************************************)
(* The job queue implements the safety part of WakeupQueue: a commit of a  *)
(* request stores one observation, the end of an attempt discharges all    *)
(* that its asset is owed, every other step is invisible.                  *)
(***************************************************************************)
THEOREM Refinement == Safety => ImplementsWakeupSafety
<1>1. Init => Wakeups!WInit
  BY DEF Init, Wakeups!WInit, observations
<1>2. IndInv /\ [Next]_vars => [Wakeups!WNext]_(Wakeups!wvars)
  <2> SUFFICES ASSUME IndInv, [Next]_vars
               PROVE  Wakeups!WNext \/ (observations' = observations /\ attended' = attended)
    BY DEF Wakeups!wvars
  <2>1. ASSUME NEW o \in Obs, CommitCreate(o) PROVE Wakeups!Arrive(o)
    <3>1. req \in [Obs -> {"idle", "enqueueing", "enqueued", "committed"}]
      BY DEF IndInv, TypeOK
    <3>2. observations' = observations \cup {o} /\ o \notin observations
      BY <2>1, <3>1 DEF CommitCreate, observations
    <3> QED
      BY <2>1, <3>2 DEF CommitCreate, historyVars, Wakeups!Arrive
  <2>2. ASSUME NEW o \in Obs, StartCreate(o) \/ EnqueueInsert(o) \/ MarkDirty(o) \/ AbortCreate(o)
        PROVE  observations' = observations /\ attended' = attended
    BY <2>2 DEF StartCreate, EnqueueInsert, MarkDirty, AbortCreate, historyVars, observations,
       IndInv, TypeOK
  <2>3. ASSUME NEW w \in Worker, Complete(w) \/ ReasoningRaises(w)
        PROVE  Wakeups!WNext \/ (observations' = observations /\ attended' = attended)
    <3> DEFINE a == jobs[wjob[w]].asset
    <3>1. InTxn(w) /\ attended' = attended \cup input[w] /\ req' = req
      BY <2>3 DEF Complete, ReasoningRaises, InTxn, reqVars
    <3>2. input[w] = ObservationsOf(a) /\ a \in Asset
      BY <3>1 DEF IndInv, LockInv, RunsAreSerialPerAsset, FreshInv
    <3>3. attended' = attended \cup Wakeups!Owed(a) /\ observations' = observations
      BY <3>1, <3>2 DEF ObservationsOf, Wakeups!Owed, observations
    <3> QED
      BY <3>2, <3>3 DEF Wakeups!WNext, Wakeups!Attend
  <2>4. ASSUME NEW w \in Worker, Claim(w) \/ Poll(w) \/ ListObservations(w) \/ DispatchReturns(w)
                                   \/ DispatchRaises(w) \/ WorkerCrash(w) \/ Restart(w)
        PROVE  observations' = observations /\ attended' = attended
    BY <2>4 DEF Claim, Poll, vars, ListObservations, DispatchReturns, DispatchRaises,
       WorkerCrash, Restart, reqVars, historyVars, observations
  <2>5. CASE UNCHANGED vars
    BY <2>5 DEF vars, observations
  <2> QED
    BY <2>1, <2>2, <2>3, <2>4, <2>5 DEF Next, Request, Work, Fault, Wakeups!WNext
<1> QED
  BY <1>1, <1>2, IndInvHolds, PTL DEF Safety, ImplementsWakeupSafety, Wakeups!WSafety

----------------------------------------------------------------------------
(* The heartbeats and the readiness check.                                 *)

HealthTypeOK ==
    /\ loop \in [Process -> {"polling", "busy", "down"}]
    /\ mark \in [Process -> 0 .. Interval]
    /\ jobTime \in [Process -> 0 .. MaxJob]
    /\ beat \in [Process -> NoBeat .. Old]
    /\ up \subseteq Dependency
    /\ outages \in 0 .. MaxOutages
    /\ ready \in {"unknown", "ready", "not_ready"}
    /\ gauge \in NoBeat .. Old

FreshBeat ==
    \A p \in Process :
        /\ loop[p] # "down" /\ mark[p] < Interval => beat[p] = mark[p]
        /\ loop[p] = "busy" => beat[p] \in 0 .. (Interval - 1) + jobTime[p]

HealthInv == HealthTypeOK /\ FreshBeat

----------------------------------------------------------------------------
(***************************************************************************)
(* Min of a nonempty set of naturals is its least element.                 *)
(***************************************************************************)
LEMMA LeastNatural ==
    ASSUME NEW S, S \subseteq Nat, S # {}
    PROVE  Min(S) \in S /\ \A y \in S : Min(S) <= y
<1> DEFINE R == {ss \in Nat \X Nat : ss[1] < ss[2]}
<1>0. IsWellFoundedOn(R, Nat)
  BY NatLessThanWellFounded, Zenon DEF OpToRel
<1> HIDE DEF R
<1>1. PICK x \in S : \A y \in S : <<y, x>> \notin R
  BY <1>0, WFMin
<1>2. \A y \in S : x <= y
  <2> SUFFICES ASSUME NEW y \in S PROVE x <= y
    OBVIOUS
  <2>1. x \in Nat /\ y \in Nat /\ <<y, x>> \in Nat \X Nat
    OBVIOUS
  <2>2. ~(y < x)
    BY <1>1, <2>1 DEF R
  <2> QED BY <2>1, <2>2
<1> QED
  BY <1>2 DEF Min

(***************************************************************************)
(* get_most_recent returns NoBeat exactly when no worker has a row, and    *)
(* otherwise an age no row is younger than.                                *)
(***************************************************************************)
LEMMA MostRecentIsYoungest ==
    ASSUME HealthTypeOK
    PROVE  /\ MostRecent \in NoBeat .. Old
           /\ \A p \in Process : beat[p] # NoBeat =>
                 MostRecent # NoBeat /\ MostRecent <= beat[p]
<1> DEFINE rows == {beat[p] : p \in Process} \ {NoBeat}
<1>1. rows \subseteq 0 .. Old
  BY DEF HealthTypeOK, NoBeat, Old
<1>2. CASE rows = {}
  BY <1>2, HealthAssumption DEF MostRecent, NoBeat, Old
<1>3. CASE rows # {}
  <2>1. rows \subseteq Nat
    BY <1>1, HealthAssumption DEF Old
  <2>2. Min(rows) \in rows /\ \A y \in rows : Min(rows) <= y
    BY <1>3, <2>1, LeastNatural
  <2>3. MostRecent = Min(rows)
    BY <1>3 DEF MostRecent
  <2> HIDE DEF rows
  <2>4. MostRecent \in 0 .. Old
    BY <1>1, <2>2, <2>3
  <2>5. \A p \in Process : beat[p] # NoBeat => beat[p] \in rows
    BY DEF rows
  <2> QED
    BY <2>2, <2>3, <2>4, <2>5, HealthAssumption DEF NoBeat, Old
<1> QED
  BY <1>2, <1>3

(***************************************************************************)
(* The row of a process that is past its first heartbeat, polling or at    *)
(* work, is never older than the timeout; the health checks then find it.  *)
(***************************************************************************)
LEMMA FreshBeatIsEnough == HealthInv => AliveMeansReady
<1> SUFFICES ASSUME HealthInv, "database" \in up, NEW p \in Process,
                    loop[p] = "busy" \/ (loop[p] = "polling" /\ mark[p] < Interval)
             PROVE  RequiredOk(Checks) /\ HealthStatus(Checks) # "unhealthy"
  BY DEF AliveMeansReady
<1> USE HealthAssumption
<1>1. mark[p] \in 0 .. Interval /\ jobTime[p] \in 0 .. MaxJob
  BY DEF HealthInv, HealthTypeOK
<1>2. beat[p] \in 0 .. Timeout
  BY <1>1 DEF HealthInv, FreshBeat
<1>3. MostRecent \in NoBeat .. Old /\ MostRecent # NoBeat /\ MostRecent <= beat[p]
  BY <1>2, MostRecentIsYoungest DEF HealthInv, NoBeat
<1>4. MostRecent <= Timeout
  BY <1>2, <1>3 DEF NoBeat, Old
<1>5. CheckWorker
  BY <1>3, <1>4 DEF CheckWorker
<1>6. RequiredOk(Checks)
  <2>1. Checks.database /\ Checks.queue /\ Checks.worker
    BY <1>5 DEF Checks, CheckDatabase, CheckQueue
  <2> QED
    BY <2>1, Zenon DEF RequiredOk, Required
<1> QED
  BY <1>6 DEF HealthStatus

----------------------------------------------------------------------------
LEMMA HealthInitInv == HealthInit => HealthInv
  BY HealthAssumption
     DEF HealthInit, HealthInv, HealthTypeOK, FreshBeat, NoBeat, Old, Dependency

(***************************************************************************)
(* What a tick of the clock makes of the ages of one process.              *)
(***************************************************************************)
LEMMA TickInv ==
    ASSUME HealthInv, Tick
    PROVE  HealthInv'
<1> USE HealthAssumption
<1>1. \A p \in Process :
        /\ mark[p] \in 0 .. Interval /\ jobTime[p] \in 0 .. MaxJob
        /\ beat[p] \in NoBeat .. Old
        /\ mark'[p] = Older(mark[p], Interval) /\ beat'[p] = Older(beat[p], Old)
        /\ jobTime'[p] = IF loop[p] = "busy" THEN jobTime[p] + 1 ELSE 0
  BY DEF HealthInv, HealthTypeOK, Tick
<1>2. HealthTypeOK'
  <2>1. \A p \in Process : Older(mark[p], Interval) \in 0 .. Interval
    BY <1>1 DEF Older, NoBeat
  <2>2. \A p \in Process : Older(beat[p], Old) \in NoBeat .. Old
    BY <1>1 DEF Older, NoBeat, Old
  <2>3. \A p \in Process : (IF loop[p] = "busy" THEN jobTime[p] + 1 ELSE 0) \in 0 .. MaxJob
    BY <1>1 DEF Tick
  <2> QED
    BY <2>1, <2>2, <2>3 DEF HealthInv, HealthTypeOK, Tick
<1>3. FreshBeat'
  <2> SUFFICES ASSUME NEW p \in Process
               PROVE  /\ loop[p] # "down" /\ mark'[p] < Interval => beat'[p] = mark'[p]
                      /\ loop[p] = "busy" => beat'[p] \in 0 .. (Interval - 1) + jobTime'[p]
    BY DEF FreshBeat, Tick
  <2>1. ASSUME loop[p] # "down", mark'[p] < Interval
        PROVE  beat'[p] = mark'[p]
    <3>1. mark[p] < Interval /\ mark'[p] = mark[p] + 1
      BY <1>1, <2>1 DEF Older, NoBeat
    <3>2. beat[p] = mark[p]
      BY <2>1, <3>1 DEF HealthInv, FreshBeat
    <3> QED
      BY <1>1, <3>1, <3>2 DEF Older, NoBeat, Old
  <2>2. ASSUME loop[p] = "busy"
        PROVE  beat'[p] \in 0 .. (Interval - 1) + jobTime'[p]
    <3>1. jobTime[p] < MaxJob /\ jobTime'[p] = jobTime[p] + 1
      BY <1>1, <2>2 DEF Tick
    <3>2. beat[p] \in 0 .. (Interval - 1) + jobTime[p]
      BY <2>2 DEF HealthInv, FreshBeat
    <3>3. beat'[p] = beat[p] + 1
      BY <1>1, <3>1, <3>2 DEF Older, NoBeat, Old
    <3> QED
      BY <1>1, <3>1, <3>2, <3>3
  <2> QED
    BY <2>1, <2>2
<1> QED
  BY <1>2, <1>3 DEF HealthInv

(***************************************************************************)
(* Every step keeps the ages of the rows within what FreshBeat allows.     *)
(***************************************************************************)
LEMMA HealthNextInv == HealthInv /\ [HealthNext]_healthVars => HealthInv'
<1> SUFFICES ASSUME HealthInv, [HealthNext]_healthVars PROVE HealthInv'
  OBVIOUS
<1> USE HealthAssumption
<1>1. ASSUME NEW p \in Process, RecordHeartbeat(p) PROVE HealthInv'
  BY <1>1 DEF HealthInv, HealthTypeOK, FreshBeat, RecordHeartbeat, Due, NoBeat, Old
<1>2. ASSUME NEW p \in Process, HeartbeatRaises(p) PROVE HealthInv'
  BY <1>2 DEF HealthInv, HealthTypeOK, FreshBeat, HeartbeatRaises
<1>3. ASSUME NEW p \in Process, StartJob(p) PROVE HealthInv'
  <2>1. mark[p] \in 0 .. Interval /\ mark[p] < Interval /\ beat[p] = mark[p]
    BY <1>3 DEF HealthInv, HealthTypeOK, FreshBeat, StartJob, Due
  <2> QED
    BY <1>3, <2>1 DEF HealthInv, HealthTypeOK, FreshBeat, StartJob
<1>4. ASSUME NEW p \in Process, FinishJob(p) PROVE HealthInv'
  BY <1>4 DEF HealthInv, HealthTypeOK, FreshBeat, FinishJob
<1>5. ASSUME NEW p \in Process, Stop(p) PROVE HealthInv'
  BY <1>5 DEF HealthInv, HealthTypeOK, FreshBeat, Stop
<1>6. ASSUME NEW p \in Process, Start(p) PROVE HealthInv'
  BY <1>6 DEF HealthInv, HealthTypeOK, FreshBeat, Start
<1>7. ASSUME NEW d \in Dependency, Fail(d) \/ Recover(d) PROVE HealthInv'
  BY <1>7 DEF HealthInv, HealthTypeOK, FreshBeat, Fail, Recover
<1>8. CASE Tick
  BY <1>8, TickInv
<1>9. CASE Ready
  BY <1>9 DEF HealthInv, HealthTypeOK, FreshBeat, Ready
<1>10. CASE Health
  <2>1. MostRecent \in NoBeat .. Old
    BY MostRecentIsYoungest DEF HealthInv
  <2> QED
    BY <1>10, <2>1 DEF HealthInv, HealthTypeOK, FreshBeat, Health, UpdatedGauge
<1>11. CASE UNCHANGED healthVars
  BY <1>11 DEF HealthInv, HealthTypeOK, FreshBeat, healthVars
<1> QED
  BY <1>1, <1>2, <1>3, <1>4, <1>5, <1>6, <1>7, <1>8, <1>9, <1>10, <1>11 DEF HealthNext

(***************************************************************************)
(* The ages and states of the workers' rows and of the health checks keep  *)
(* their types, and a living worker's row stays fresh (worker_main.py).    *)
(***************************************************************************)
THEOREM HealthInvariant == HealthSpec => []HealthInv
<1>1. HealthInit => HealthInv
  BY HealthInitInv
<1>2. HealthInv /\ [HealthNext]_healthVars => HealthInv'
  BY HealthNextInv
<1> QED
  BY <1>1, <1>2, PTL DEF HealthSpec

(***************************************************************************)
(* While some worker is past its first heartbeat, polling or at work, and  *)
(* the database answers, /ready is ready and /health is not unhealthy,     *)
(* whatever jobs, dead workers, redis and kafka do (health_service.py).    *)
(***************************************************************************)
THEOREM AliveIsReady == HealthSpec => []AliveMeansReady
  BY HealthInvariant, FreshBeatIsEnough, PTL
=============================================================================
