--------------------------- MODULE ReasoningJobs ---------------------------
(***************************************************************************)
(* The durable reasoning-job queue: POST /observations stores an           *)
(* observation and enqueues a job for its asset in one transaction; any    *)
(* number of reasoning workers claim, run and finish jobs, each in one     *)
(* transaction of its own.  PostgreSQL runs them at READ COMMITTED, so     *)
(* `jobs' is the committed table and a transaction's row locks are what    *)
(* the others can feel of it:                                              *)
(*                                                                         *)
(*   - INSERT .. ON CONFLICT waits for a transaction that holds the        *)
(*     asset's outstanding row, or that has inserted one uncommitted;      *)
(*   - SELECT .. FOR UPDATE SKIP LOCKED passes over locked rows;           *)
(*   - a crash rolls the transaction back and frees its locks.             *)
(*                                                                         *)
(* A worker's claim, run and completion share one transaction, so RUNNING  *)
(* is never committed: to the other sessions a running job is a PENDING    *)
(* row somebody has locked.                                                *)
(***************************************************************************)
EXTENDS Naturals

CONSTANTS
    Asset,          \* the assets
    NoAsset,        \* the asset of a row that does not exist
    Obs,            \* observations; numbers, in the order of their timestamps
    AssetOf,        \* the asset of an observation
    TypeOf,         \* the measurement type of an observation
    Worker,         \* reasoning worker processes
    MaxStamp,       \* bound: creation stamps drawn (see JobId)
    MaxFaults       \* bound: crashes and rollbacks

ASSUME ConstantsAssumption ==
    /\ Obs \subseteq Nat
    /\ AssetOf \in [Obs -> Asset]
    /\ NoAsset \notin Asset
    /\ MaxStamp \in Nat
    /\ MaxFaults \in Nat

VARIABLES
    jobs,       \* committed reasoning_jobs table
    clock,      \* creation stamps drawn so far
    req,        \* req[o]: where the request that posts observation o is
    reqJob,     \* reqJob[o]: the row that request inserts or has locked
    wpc,        \* wpc[w]: where worker w is in process_next
    wjob,       \* wjob[w]: the job it is processing
    input,      \* input[w]: the observations its transaction has seen
    attended,   \* history: observations a finished attempt has seen
    covered,    \* history: observations a committed reasoning run covers
    faults      \* crashes and rollbacks so far

dbVars == <<jobs, clock>>
reqVars == <<req, reqJob>>
workerVars == <<wpc, wjob, input>>
historyVars == <<attended, covered>>
vars == <<jobs, clock, req, reqJob, wpc, wjob, input,
          attended, covered, faults>>

(***************************************************************************)
(* A new row's id is a uuid4 and its created_at the time of the statement. *)
(* Both are fresh, and only the order of created_at is ever used, so one   *)
(* number stands for both: a creation stamp.                               *)
(***************************************************************************)
JobId == 1 .. MaxStamp
NoJob == 0

Terminal == {"COMPLETED", "FAILED"}
Status == {"ABSENT", "PENDING"} \cup Terminal

Row == [asset : Asset \cup {NoAsset}, status : Status, dirty : BOOLEAN]
AbsentRow == [asset |-> NoAsset, status |-> "ABSENT", dirty |-> FALSE]
PendingRow(a) == [asset |-> a, status |-> "PENDING", dirty |-> FALSE]

observations == {o \in Obs : req[o] = "committed"}
ObservationsOf(a) == {o \in observations : AssetOf[o] = a}

(* The partial unique index ranges over these rows. *)
Outstanding(a) == {j \in JobId : jobs[j].asset = a /\ jobs[j].status = "PENDING"}

(* Worker w is inside the transaction that claimed wjob[w]. *)
InTxn(w) == wpc[w] \in {"claimed", "reasoning"}

LockedByRequest(a) == \E o \in Obs : req[o] = "enqueued" /\ AssetOf[o] = a
LockedByWorker(a) == \E w \in Worker : InTxn(w) /\ jobs[wjob[w]].asset = a

(* Mutant: the upsert and the claim do not see a worker's row lock. *)
AssetBusyNoWorkers(a) == LockedByRequest(a)

(* Some transaction holds the index entry of asset a. *)
AssetBusy(a) == LockedByRequest(a) \/ LockedByWorker(a)

TypeOK ==
    /\ jobs \in [JobId -> Row]
    /\ clock \in 0 .. MaxStamp
    /\ req \in [Obs -> {"idle", "enqueueing", "enqueued", "committed"}]
    /\ reqJob \in [Obs -> JobId \cup {NoJob}]
    /\ wpc \in [Worker -> {"idle", "claimed", "reasoning", "dispatching", "down"}]
    /\ wjob \in [Worker -> JobId \cup {NoJob}]
    /\ input \in [Worker -> SUBSET Obs]
    /\ attended \subseteq Obs
    /\ covered \subseteq Obs
    /\ faults \in 0 .. MaxFaults

Init ==
    /\ jobs = [j \in JobId |-> AbsentRow]
    /\ clock = 0
    /\ req = [o \in Obs |-> "idle"]
    /\ reqJob = [o \in Obs |-> NoJob]
    /\ wpc = [w \in Worker |-> "idle"]
    /\ wjob = [w \in Worker |-> NoJob]
    /\ input = [w \in Worker |-> {}]
    /\ attended = {}
    /\ covered = {}
    /\ faults = 0

----------------------------------------------------------------------------
(* POST /observations: ObservationService.create. *)

(***************************************************************************)
(* save(observation) and the ObservationCreated outbox row, uncommitted,   *)
(* then the upsert is sent with a fresh id and created_at.                 *)
(***************************************************************************)
StartCreate(o) ==
    /\ req[o] = "idle"
    /\ clock < MaxStamp
    /\ clock' = clock + 1
    /\ req' = [req EXCEPT ![o] = "enqueueing"]
    /\ reqJob' = [reqJob EXCEPT ![o] = clock + 1]
    /\ UNCHANGED <<jobs, workerVars, historyVars, faults>>

(* enqueue_or_mark_dirty finds no outstanding row: it inserts its own. *)
EnqueueInsert(o) ==
    /\ req[o] = "enqueueing"
    /\ ~AssetBusy(AssetOf[o])
    /\ Outstanding(AssetOf[o]) = {}
    /\ req' = [req EXCEPT ![o] = "enqueued"]
    /\ UNCHANGED <<dbVars, reqJob, workerVars, historyVars, faults>>

(* enqueue_or_mark_dirty hits the outstanding row: it locks and updates it. *)
MarkDirty(o) ==
    /\ req[o] = "enqueueing"
    /\ ~AssetBusy(AssetOf[o])
    /\ \E j \in Outstanding(AssetOf[o]) :
         reqJob' = [reqJob EXCEPT ![o] = j]
    /\ req' = [req EXCEPT ![o] = "enqueued"]
    /\ UNCHANGED <<dbVars, workerVars, historyVars, faults>>

(* uow.commit(): the observation and its job row become visible together. *)
CommitCreate(o) ==
    /\ req[o] = "enqueued"
    /\ req' = [req EXCEPT ![o] = "committed"]
    /\ jobs' = [jobs EXCEPT ![reqJob[o]] =
                  IF @.status = "ABSENT" THEN PendingRow(AssetOf[o])
                                         ELSE [@ EXCEPT !.dirty = TRUE]]
    /\ reqJob' = [reqJob EXCEPT ![o] = NoJob]
    /\ UNCHANGED <<clock, workerVars, historyVars, faults>>

(* The API process dies or the statement fails: the transaction rolls back *)
(* and whoever posted the observation may post it again.                   *)
AbortCreate(o) ==
    /\ req[o] \in {"enqueueing", "enqueued"}
    /\ faults < MaxFaults
    /\ faults' = faults + 1
    /\ req' = [req EXCEPT ![o] = "idle"]
    /\ reqJob' = [reqJob EXCEPT ![o] = NoJob]
    /\ UNCHANGED <<dbVars, workerVars, historyVars>>

----------------------------------------------------------------------------
(* Worker w leaves process_next for pc; the job and its data are dropped. *)
Leave(w, pc) ==
    /\ wpc' = [wpc EXCEPT ![w] = pc]
    /\ wjob' = [wjob EXCEPT ![w] = NoJob]
    /\ input' = [input EXCEPT ![w] = {}]

(* The worker: ReasoningWorker.process_next in run_worker's loop. *)

(* PENDING rows SKIP LOCKED leaves to choose from. *)
Claimable == {j \in JobId : jobs[j].status = "PENDING" /\ ~AssetBusy(jobs[j].asset)}

(* claim_oldest_pending: RUNNING stays inside the transaction. *)
Claim(w) ==
    /\ wpc[w] = "idle"
    /\ \E j \in Claimable :
         /\ \A k \in Claimable : j <= k
         /\ wjob' = [wjob EXCEPT ![w] = j]
         /\ input' = [input EXCEPT ![w] = ObservationsOf(jobs[j].asset)]
    /\ wpc' = [wpc EXCEPT ![w] = "claimed"]
    /\ UNCHANGED <<dbVars, reqVars, historyVars, faults>>

(* claim() returned None: process_next returns False and the loop sleeps. *)
Poll(w) ==
    /\ wpc[w] = "idle"
    /\ Claimable = {}
    /\ UNCHANGED vars

(* Mutant: the history is read through a LIMIT. *)
ListOlderObservations(w) ==
    /\ wpc[w] = "claimed"
    /\ LET S == ObservationsOf(jobs[wjob[w]].asset)
       IN  input' = [input EXCEPT ![w] = {o \in S : \E p \in S : o < p}]
    /\ wpc' = [wpc EXCEPT ![w] = "reasoning"]
    /\ UNCHANGED <<dbVars, reqVars, wjob, historyVars, faults>>

(* run_reasoning_for_asset reads the asset's observations. *)
ListObservations(w) ==
    /\ wpc[w] = "claimed"
    /\ input' = [input EXCEPT ![w] = ObservationsOf(jobs[wjob[w]].asset)]
    /\ wpc' = [wpc EXCEPT ![w] = "reasoning"]
    /\ UNCHANGED <<dbVars, reqVars, wjob, historyVars, faults>>

(* _can_run_reasoning: two observations of the first one's type. *)
CanRunReasoning(S) ==
    \E first \in S :
        /\ \A o \in S : first <= o
        /\ \E o \in S \ {first} : TypeOf[o] = TypeOf[first]

(* Mutant: step 2, which clears the flag, is missing. *)
FinishRowStaysDirty(j, status) ==
    IF jobs[j].dirty
    THEN /\ clock < MaxStamp
         /\ clock' = clock + 1
         /\ jobs' = [jobs EXCEPT ![j] = [@ EXCEPT !.status = status],
                                 ![clock + 1] = PendingRow(jobs[j].asset)]
    ELSE /\ jobs' = [jobs EXCEPT ![j] = [@ EXCEPT !.status = status]]
         /\ UNCHANGED clock

(* Mutant: a failed job schedules no follow-up. *)
FinishRowNoRetry(j, status) ==
    IF jobs[j].dirty /\ status = "COMPLETED"
    THEN /\ clock < MaxStamp
         /\ clock' = clock + 1
         /\ jobs' = [jobs EXCEPT
                       ![j] = [@ EXCEPT !.status = status, !.dirty = FALSE],
                       ![clock + 1] = PendingRow(jobs[j].asset)]
    ELSE /\ jobs' = [jobs EXCEPT ![j] = [@ EXCEPT !.status = status, !.dirty = FALSE]]
         /\ UNCHANGED clock

(***************************************************************************)
(* _finish_and_reschedule(j, status): the row becomes terminal; if it was  *)
(* dirty, the flag is cleared and a follow-up row inserted.                *)
(***************************************************************************)
FinishRow(j, status) ==
    IF jobs[j].dirty
    THEN /\ clock < MaxStamp
         /\ clock' = clock + 1
         /\ jobs' = [jobs EXCEPT
                       ![j] = [@ EXCEPT !.status = status, !.dirty = FALSE],
                       ![clock + 1] = PendingRow(jobs[j].asset)]
    ELSE /\ jobs' = [jobs EXCEPT ![j] = [@ EXCEPT !.status = status]]
         /\ UNCHANGED clock

(* Reasoning returned: complete(job) and commit.  Too few observations is a *)
(* completed job without a run.                                             *)
Complete(w) ==
    /\ wpc[w] = "reasoning"
    /\ FinishRow(wjob[w], "COMPLETED")
    /\ attended' = attended \cup input[w]
    /\ covered' = IF CanRunReasoning(input[w]) THEN covered \cup input[w]
                                               ELSE covered
    /\ wpc' = [wpc EXCEPT ![w] = "dispatching"]
    /\ UNCHANGED <<reqVars, wjob, input, faults>>

(* Reasoning raised: fail(job), commit, and the exception ends the process. *)
ReasoningRaises(w) ==
    /\ InTxn(w)
    /\ FinishRow(wjob[w], "FAILED")
    /\ attended' = attended \cup input[w]
    /\ Leave(w, "down")
    /\ UNCHANGED <<reqVars, covered, faults>>

(* outbox_dispatcher.dispatch() returned: process_next returns True. *)
DispatchReturns(w) ==
    /\ wpc[w] = "dispatching"
    /\ Leave(w, "idle")
    /\ UNCHANGED <<dbVars, reqVars, historyVars, faults>>

(* dispatch() raised after the commit: the same handler calls fail(job) on *)
(* the completed job, commits again, and the process ends.                 *)
DispatchRaises(w) ==
    /\ wpc[w] = "dispatching"
    /\ FinishRow(wjob[w], "FAILED")
    /\ Leave(w, "down")
    /\ UNCHANGED <<reqVars, historyVars, faults>>

(* The process is killed, or its session breaks so that fail(job) raises as *)
(* well: the open transaction rolls back and the row is PENDING again.      *)
WorkerCrash(w) ==
    /\ wpc[w] # "down"
    /\ faults < MaxFaults
    /\ faults' = faults + 1
    /\ Leave(w, "down")
    /\ UNCHANGED <<dbVars, reqVars, historyVars>>

(* restart: unless-stopped. *)
Restart(w) ==
    /\ wpc[w] = "down"
    /\ wpc' = [wpc EXCEPT ![w] = "idle"]
    /\ UNCHANGED <<dbVars, reqVars, wjob, input, historyVars, faults>>

----------------------------------------------------------------------------
Request(o) == StartCreate(o) \/ EnqueueInsert(o) \/ MarkDirty(o) \/ CommitCreate(o)

Work(w) ==
    \/ Claim(w) \/ Poll(w) \/ ListObservations(w) \/ Complete(w) \/ ReasoningRaises(w)
    \/ DispatchReturns(w) \/ DispatchRaises(w) \/ Restart(w)

Fault == (\E o \in Obs : AbortCreate(o)) \/ (\E w \in Worker : WorkerCrash(w))

Next == (\E o \in Obs : Request(o)) \/ (\E w \in Worker : Work(w)) \/ Fault

(***************************************************************************)
(* A request once begun runs to its end and so does a worker; the worker   *)
(* polls for ever.  Nobody has to post an observation, nothing has to fail.*)
(***************************************************************************)
Fairness ==
    /\ \A o \in Obs : WF_vars(EnqueueInsert(o) \/ MarkDirty(o) \/ CommitCreate(o))
    /\ \A w \in Worker : WF_vars(Work(w))

Safety == Init /\ [][Next]_vars
Spec == Safety /\ Fairness

----------------------------------------------------------------------------
(* The properties. *)

(***************************************************************************)
(* No two rows of an asset are outstanding, the uncommitted ones included: *)
(* the index ux_reasoning_jobs_outstanding never turns the plain INSERT of *)
(* _finish_and_reschedule into an IntegrityError, whatever requests,       *)
(* crashes and failed dispatches come between.                             *)
(***************************************************************************)
OneOutstandingPerAsset ==
    /\ \A j, k \in JobId :
         (jobs[j].status = "PENDING" /\ jobs[k].status = "PENDING"
            /\ jobs[j].asset = jobs[k].asset) => j = k
    /\ \A o \in Obs :
         (req[o] = "enqueued" /\ jobs[reqJob[o]].status = "ABSENT")
            => Outstanding(AssetOf[o]) = {}

(***************************************************************************)
(* No lost wake-up: an observation that is stored has been seen by an      *)
(* attempt that finished, or a PENDING row of its asset will make one.     *)
(* Enqueueing races with the claim, the completion, the failure and the    *)
(* crash of a worker on the same asset.                                    *)
(***************************************************************************)
NoLostWakeup ==
    \A o \in observations : o \in attended \/ Outstanding(AssetOf[o]) # {}

(***************************************************************************)
(* The reasoning results of a quiet asset are up to date: with nothing     *)
(* outstanding, no failed job and enough observations to reason about, a   *)
(* committed run covers every observation the asset has stored, also those *)
(* whose own jobs were coalesced or completed without a run.               *)
(***************************************************************************)
QuietAssetIsCovered ==
    \A a \in Asset :
        (/\ Outstanding(a) = {}
         /\ \A j \in JobId : jobs[j].asset = a => jobs[j].status # "FAILED"
         /\ CanRunReasoning(ObservationsOf(a)))
            => ObservationsOf(a) \subseteq covered

(***************************************************************************)
(* Two transactions never work on one asset at once: a run computes the    *)
(* events it emits from the asset's previous run, and what its transaction *)
(* saw when it claimed the job is still all there is when it commits.      *)
(***************************************************************************)
RunsAreSerialPerAsset ==
    \A w \in Worker : InTxn(w) =>
        /\ ~LockedByRequest(jobs[wjob[w]].asset)
        /\ \A v \in Worker \ {w} :
             InTxn(v) => jobs[wjob[v]].asset # jobs[wjob[w]].asset
        /\ input[w] = ObservationsOf(jobs[wjob[w]].asset)

(***************************************************************************)
(* "job history never shows an unconsumed request on a row nothing will    *)
(* act on again": no terminal row is dirty, so that the second fail(job)   *)
(* of a failed dispatch schedules no second follow-up.                     *)
(***************************************************************************)
NoUnconsumedRequest ==
    \A j \in JobId : jobs[j].status \in Terminal => ~jobs[j].dirty

(***************************************************************************)
(* Exactly one follow-up job: the step that ends a dirty job, completed or *)
(* failed, leaves exactly one outstanding job for its asset, a new row.    *)
(***************************************************************************)
FollowUpStep ==
    \A j \in JobId :
        (jobs[j].dirty /\ jobs[j].status = "PENDING" /\ jobs'[j].status \in Terminal)
          => \E k \in JobId :
               /\ jobs[k].status = "ABSENT"
               /\ {i \in JobId : jobs'[i].asset = jobs[j].asset
                                   /\ jobs'[i].status = "PENDING"} = {k}

DirtyJobIsFollowedUp == [][FollowUpStep]_vars

(***************************************************************************)
(* Every stored observation is looked at by an attempt that finishes, as   *)
(* long as crashes and rollbacks are finitely many: requests that keep     *)
(* coalescing into a locked row do not starve the claim, and a job whose   *)
(* worker dies is claimed again.                                           *)
(***************************************************************************)
EveryObservationAttended ==
    \A o \in Obs : (o \in observations) ~> (o \in attended)

(* The queue does what WakeupQueue promises. *)
Wakeups == INSTANCE WakeupQueue WITH arrived <- observations
ImplementsWakeupQueue == Wakeups!WSpec
ImplementsWakeupSafety == Wakeups!WSafety
============================================================================
