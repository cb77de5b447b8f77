---------------------------- MODULE WorkerHealth ----------------------------
(***************************************************************************)
(* The heartbeat of the reasoning worker processes and the health checks   *)
(* of the API that read it.                                                *)
(*                                                                         *)
(* A worker's loop records a heartbeat when one is due and then processes  *)
(* at most one job, in the same thread: while a job runs no heartbeat is   *)
(* recorded.  A heartbeat that cannot be written raises out of the loop    *)
(* and ends the process.  /ready and /health look at the most recent       *)
(* heartbeat of any worker.                                                *)
(*                                                                         *)
(* Time is counted in the worker's poll interval; the ages of the rows and *)
(* of the processes' monotonic marks advance together and stop at Old.     *)
(***************************************************************************)
EXTENDS Integers, FiniteSets, FiniteSetsExt

CONSTANTS Process,     \* reasoning worker processes, one row each
          Interval,    \* worker_heartbeat_interval_seconds
          Timeout,     \* worker_heartbeat_timeout_seconds
          MaxJob,      \* bound: how long a job takes
          MaxOutages   \* bound: failures of processes and dependencies

VARIABLES loop,        \* loop[p]: "polling", "busy" with a job, or "down"
          mark,        \* mark[p]: time since the loop's last heartbeat
          jobTime,     \* jobTime[p]: how long its job has taken
          beat,        \* beat[p]: age of its row, NoBeat when there is none
          up,          \* the dependencies that can be reached
          outages,     \* failures so far
          ready,       \* the answer of the last /ready
          gauge        \* worker_heartbeat_age_seconds

healthVars == <<loop, mark, jobTime, beat, up, outages, ready, gauge>>

Dependency == {"database", "redis", "kafka"}
NoBeat == -1
Old == Timeout + 1

ASSUME HealthAssumption ==
    /\ Interval \in Nat \ {0} /\ Timeout \in Nat /\ MaxJob \in Nat /\ MaxOutages \in Nat
    /\ Interval + MaxJob <= Timeout + 1

HealthInit ==
    /\ loop = [p \in Process |-> "polling"]
    /\ mark = [p \in Process |-> Interval]
    /\ jobTime = [p \in Process |-> 0]
    /\ beat = [p \in Process |-> NoBeat]
    /\ up = Dependency
    /\ outages = 0
    /\ ready = "unknown"
    /\ gauge = NoBeat

-----------------------------------------------------------------------------
(* run_worker *)

Due(p) == loop[p] = "polling" /\ mark[p] >= Interval

(* record_heartbeat: now() is read, the row is upserted and committed.     *)
RecordHeartbeat(p) ==
    /\ Due(p)
    /\ "database" \in up
    /\ beat' = [beat EXCEPT ![p] = 0]
    /\ mark' = [mark EXCEPT ![p] = 0]
    /\ UNCHANGED <<loop, jobTime, up, outages, ready, gauge>>

(* ... or raises, and nothing in the loop catches it.                      *)
HeartbeatRaises(p) ==
    /\ Due(p)
    /\ "database" \notin up
    /\ loop' = [loop EXCEPT ![p] = "down"]
    /\ UNCHANGED <<mark, jobTime, beat, up, outages, ready, gauge>>

(* Mutant: the loop asks for a job before it looks at its mark.            *)
StartJobFirst(p) ==
    /\ loop[p] = "polling"
    /\ "database" \in up
    /\ loop' = [loop EXCEPT ![p] = "busy"]
    /\ jobTime' = [jobTime EXCEPT ![p] = 0]
    /\ UNCHANGED <<mark, beat, up, outages, ready, gauge>>

(* process_next finds a job; the loop is away until it returns.            *)
StartJob(p) ==
    /\ loop[p] = "polling" /\ ~Due(p)
    /\ "database" \in up
    /\ loop' = [loop EXCEPT ![p] = "busy"]
    /\ jobTime' = [jobTime EXCEPT ![p] = 0]
    /\ UNCHANGED <<mark, beat, up, outages, ready, gauge>>

FinishJob(p) ==
    /\ loop[p] = "busy"
    /\ loop' = [loop EXCEPT ![p] = "polling"]
    /\ jobTime' = [jobTime EXCEPT ![p] = 0]
    /\ UNCHANGED <<mark, beat, up, outages, ready, gauge>>

(* The process is killed or asked to shut down, or process_next raises      *)
(* (worker_main.py:112), which ends it; its row stays.                      *)
Stop(p) ==
    /\ loop[p] # "down"
    /\ outages < MaxOutages
    /\ outages' = outages + 1
    /\ loop' = [loop EXCEPT ![p] = "down"]
    /\ jobTime' = [jobTime EXCEPT ![p] = 0]
    /\ UNCHANGED <<mark, beat, up, ready, gauge>>

(* A restarted container keeps hostname and pid, hence its row, and starts *)
(* with last_heartbeat_at = 0: its first heartbeat is due at once.         *)
Start(p) ==
    /\ loop[p] = "down"
    /\ loop' = [loop EXCEPT ![p] = "polling"]
    /\ mark' = [mark EXCEPT ![p] = Interval]
    /\ UNCHANGED <<jobTime, beat, up, outages, ready, gauge>>

Older(age, limit) == IF age \in {NoBeat, limit} THEN age ELSE age + 1

(* A poll interval passes.  A loop that is not away with a job comes round *)
(* within it, and a job takes at most MaxJob.                              *)
Tick ==
    /\ \A p \in Process : ~Due(p) /\ (loop[p] = "busy" => jobTime[p] < MaxJob)
    /\ beat' = [p \in Process |-> Older(beat[p], Old)]
    /\ mark' = [p \in Process |-> Older(mark[p], Interval)]
    /\ jobTime' = [p \in Process |->
                     IF loop[p] = "busy" THEN jobTime[p] + 1 ELSE 0]
    /\ UNCHANGED <<loop, up, outages, ready, gauge>>

Fail(d) ==
    /\ d \in up
    /\ outages < MaxOutages
    /\ outages' = outages + 1
    /\ up' = up \ {d}
    /\ UNCHANGED <<loop, mark, jobTime, beat, ready, gauge>>

Recover(d) ==
    /\ d \notin up
    /\ up' = up \cup {d}
    /\ UNCHANGED <<loop, mark, jobTime, beat, outages, ready, gauge>>

-----------------------------------------------------------------------------
(* HealthService *)

(* get_most_recent: the freshest row of any worker.                        *)
MostRecent ==
    LET rows == {beat[p] : p \in Process} \ {NoBeat}
    IN  IF rows = {} THEN NoBeat ELSE Min(rows)

(* Mutant: a row is enough, whatever its age.                              *)
CheckWorkerExists == "database" \in up /\ MostRecent # NoBeat

(* _check_worker *)
CheckWorker ==
    /\ "database" \in up
    /\ MostRecent # NoBeat
    /\ MostRecent <= Timeout

(* _check_database and _check_reasoning_job_queue: one query each.         *)
CheckDatabase == "database" \in up
CheckQueue == "database" \in up

(* check_redis_connectivity and check_kafka_connectivity, with a timeout.  *)
Reachable(d) == d \in up

(* _build_checks: the required ones are healthy or unhealthy, the others   *)
(* healthy or degraded.                                                    *)
Checks ==
    [database |-> CheckDatabase, queue |-> CheckQueue, worker |-> CheckWorker,
     redis |-> Reachable("redis"), kafka |-> Reachable("kafka")]
Required == {"database", "queue", "worker"}

RequiredOk(checks) == \A c \in Required : checks[c]

(* GET /ready *)
Ready ==
    /\ ready' = IF RequiredOk(Checks) THEN "ready" ELSE "not_ready"
    /\ UNCHANGED <<loop, mark, jobTime, beat, up, outages, gauge>>

(* _update_operational_gauges: the age is read back from the check's text; *)
(* without a row, or without a database, the gauge keeps its value.        *)
UpdatedGauge ==
    IF "database" \in up /\ MostRecent # NoBeat THEN MostRecent ELSE gauge

(* GET /health: always 200; the status is in the body and not kept.        *)
HealthStatus(checks) ==
    IF ~RequiredOk(checks) THEN "unhealthy"
    ELSE IF \E c \in DOMAIN checks \ Required : ~checks[c] THEN "degraded"
    ELSE "healthy"

Health ==
    /\ gauge' = UpdatedGauge
    /\ UNCHANGED <<loop, mark, jobTime, beat, up, outages, ready>>

HealthNext ==
    \/ \E p \in Process : \/ RecordHeartbeat(p) \/ HeartbeatRaises(p)
                          \/ StartJob(p) \/ FinishJob(p)
                          \/ Stop(p) \/ Start(p)
    \/ \E d \in Dependency : Fail(d) \/ Recover(d)
    \/ Tick \/ Ready \/ Health

(* Time passes, the loops turn, jobs end, and an orchestrator goes on      *)
(* probing /ready.  Nothing restarts a worker or repairs a dependency.     *)
HealthFairness ==
    /\ WF_healthVars(Tick)
    /\ WF_healthVars(Ready)
    /\ \A p \in Process : /\ WF_healthVars(RecordHeartbeat(p) \/ HeartbeatRaises(p))
                          /\ WF_healthVars(FinishJob(p))

HealthSpec == HealthInit /\ [][HealthNext]_healthVars /\ HealthFairness

-----------------------------------------------------------------------------
(* Properties *)

(* No false alarm: while some worker is past its first heartbeat, polling  *)
(* or at work, and the database answers, readiness holds and health is at  *)
(* worst degraded; neither that worker's jobs, nor dead workers and their  *)
(* rows, nor redis or kafka take the API out of service                    *)
(* (health_service.py:91-147, worker_main.py:104-111).                     *)
AliveMeansReady ==
    (\E p \in Process : \/ loop[p] = "busy"
                        \/ loop[p] = "polling" /\ mark[p] < Interval)
      /\ "database" \in up
    => RequiredOk(Checks) /\ HealthStatus(Checks) # "unhealthy"

(* No silence: when the last worker is gone and none is started, readiness *)
(* fails for good, though the dead workers' rows are never deleted.        *)
DeadIsNoticed ==
    (\A p \in Process : loop[p] = "down")
      ~> \/ ready = "not_ready" /\ MostRecent \notin 0 .. Timeout
         \/ \E p \in Process : loop[p] # "down"

=============================================================================
