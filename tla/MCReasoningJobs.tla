-------------------------- MODULE MCReasoningJobs --------------------------
(***************************************************************************)
(* Instances of ReasoningJobs for TLC.  Observations are numbered in the   *)
(* order of their timestamps, but may be posted in any order.              *)
(*                                                                         *)
(* The heartbeats of the worker processes and the health checks share no   *)
(* row with the queue; they are checked next to it, one at rest while the  *)
(* other runs.                                                             *)
(***************************************************************************)
EXTENDS ReasoningJobs, WorkerHealth, TLC

CONSTANTS a1, a2

(* Observation 2 belongs to one asset, all others to the other. *)
TwoAssets == [o \in Obs |-> IF o = 2 THEN a2 ELSE a1]

(* The observations of a1 share a type: one is too few to reason about, two *)
(* are enough.                                                              *)
SharedTypes == [o \in Obs |-> IF o = 2 THEN "temperature" ELSE "pressure"]

WorkersInit == Init /\ HealthInit

WorkersNext ==
    \/ HealthInit /\ Next /\ UNCHANGED healthVars
    \/ Init /\ HealthNext /\ UNCHANGED vars

(* HealthFairness, while the queue is at rest. *)
HealthFairnessAtRest ==
    /\ WF_healthVars(Init /\ Tick)
    /\ WF_healthVars(Init /\ Ready)
    /\ \A p \in Process :
         /\ WF_healthVars(Init /\ (RecordHeartbeat(p) \/ HeartbeatRaises(p)))
         /\ WF_healthVars(Init /\ FinishJob(p))

WorkersSpec ==
    /\ WorkersInit
    /\ [][WorkersNext]_<<vars, healthVars>>
    /\ Fairness
    /\ HealthFairnessAtRest
============================================================================
