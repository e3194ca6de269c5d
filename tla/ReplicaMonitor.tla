--------------------------- MODULE ReplicaMonitor ---------------------------
(***************************************************************************)
(* The replacement of failed replicas: the replica monitor's loop          *)
(* (pkg/coordinator/replica_monitor.go), the Reschedule handler it calls   *)
(* (grpc_handlers.go) and the operations on a workload's replica records   *)
(* (state_manager.go), for one workload.                                   *)
(*                                                                         *)
(* Replica records are made and failed by the callers of AddReplica and    *)
(* UpdateReplica.  The monitor takes two steps a tick: it lists the failed *)
(* replicas, then calls Reschedule, which reads the workload again.  The   *)
(* handler queues commands for the agents and leaves the records alone.    *)
(***************************************************************************)
EXTENDS Integers, FiniteSets, FiniteSetsExt

CONSTANTS
  MonitorNodes,    \* node IDs
  ReplicaIds,      \* replica IDs
  DesiredReplicas, \* replicas the workload asks for
  MinReady,    \* Rollout.MinAvailable
  MaxRuns          \* bound: run commands waiting at a node

VARIABLES
  replica,        \* [ReplicaIds -> node, status, ready]: workload.Replicas
  readyReplicas,  \* workload.ReadyReplicas
  failureTracked, \* keys of failureTimestamps
  monitor,        \* where the loop is, and the failed replicas it listed
  stops,          \* replicas whose nodes have been sent a stop
  runs,           \* [MonitorNodes -> Nat]: run commands sent to a node
  suitable,       \* nodes the scheduler would place a replica on
  answered        \* failed replicas since whose failure replicas were started
monitorVars ==
  <<replica, readyReplicas, failureTracked, monitor, stops, runs, suitable, answered>>

Unlisted == [node |-> "none", status |-> "absent", ready |-> FALSE]
Waiting == [at |-> "ticker", failed |-> {}]

MonitorInit ==
  /\ replica = [r \in ReplicaIds |-> Unlisted]
  /\ readyReplicas = 0 /\ failureTracked = {} /\ monitor = Waiting
  /\ stops = {} /\ runs = [n \in MonitorNodes |-> 0] /\ suitable = MonitorNodes
  /\ answered = {}

With(status) == {r \in ReplicaIds : replica[r].status = status}
Ready(records) == Quantify(ReplicaIds, LAMBDA r : records[r].ready)

---------------------------------------------------------------------------
(* The records.                                                            *)

AddReplica(r, n) ==
  /\ replica[r].status = "absent"
  /\ replica' = [replica EXCEPT ![r] = [node |-> n, status |-> "pending", ready |-> FALSE]]
  /\ UNCHANGED <<readyReplicas, failureTracked, monitor, stops, runs, suitable, answered>>

(* Also recounts the ready replicas.                                       *)
UpdateReplica(r, status, isReady) ==
  /\ replica[r].status \notin {"absent", status}
  /\ replica' = [replica EXCEPT ![r].status = status, ![r].ready = isReady]
  /\ readyReplicas' = Ready(replica')
  /\ answered' = answered \ {r}
  /\ stops' = IF status = "running" THEN stops \ {r} ELSE stops
  /\ UNCHANGED <<failureTracked, monitor, runs, suitable>>

UpdateWorkloadReplicaHealth(r, isReady) ==
  /\ replica[r].status = "running" /\ replica[r].ready # isReady
  /\ replica' = [replica EXCEPT ![r].ready = isReady]
  /\ readyReplicas' = Ready(replica')
  /\ UNCHANGED <<failureTracked, monitor, stops, runs, suitable, answered>>

(* Leaves ReadyReplicas as it was.                                         *)
RemoveWorkloadReplica(r) ==
  /\ replica[r].status \in {"failed", "stopped"}
  /\ replica' = [replica EXCEPT ![r] = Unlisted]
  /\ answered' = answered \ {r}
  /\ stops' = stops \ {r}
  /\ UNCHANGED <<readyReplicas, failureTracked, monitor, runs, suitable>>

---------------------------------------------------------------------------
(* The monitor.                                                            *)

reconcileNew ==
  /\ monitor.at = "ticker" /\ With("failed") \ failureTracked # {}
  /\ monitor' = [at |-> "reschedule", failed |-> With("failed")]
  /\ failureTracked' = failureTracked \cup With("failed")
  /\ UNCHANGED <<replica, readyReplicas, stops, runs, suitable, answered>>

(* A tick: every failed replica is tracked, new or not, and acted on.      *)
reconcileWorkload ==
  /\ monitor.at = "ticker" /\ With("failed") # {}
  /\ monitor' = [at |-> "reschedule", failed |-> With("failed")]
  /\ failureTracked' = failureTracked \cup With("failed")
  /\ UNCHANGED <<replica, readyReplicas, stops, runs, suitable, answered>>

Blocked == MinReady > 0 /\ readyReplicas < MinReady
FailedNodes == {replica[r].node : r \in With("failed")}
Candidates == suitable \ FailedNodes

(* The handler refuses, in the scheduler as well, when too few replicas    *)
(* are ready: the timestamps stay.                                         *)
RescheduleRefused ==
  /\ monitor.at = "reschedule" /\ Blocked
  /\ monitor' = Waiting
  /\ UNCHANGED <<replica, readyReplicas, failureTracked, stops, runs, suitable, answered>>

(* Otherwise every running replica is stopped and the scheduler's          *)
(* decisions, at most one per wanted replica and possibly none, are run.   *)
(* Either way the monitor counts the failures as handled.                  *)
HandleReschedule ==
  /\ monitor.at = "reschedule" /\ ~Blocked
  /\ stops' = stops \cup With("running")
  /\ \E placed \in [Candidates -> 0..DesiredReplicas] :
       LET size == MapThenSumSet(LAMBDA n : placed[n], Candidates)
       IN  /\ size <= DesiredReplicas /\ (Candidates # {} => size > 0)
           /\ runs' = [n \in MonitorNodes |->
                         IF n \in Candidates THEN Min({MaxRuns, runs[n] + placed[n]}) ELSE runs[n]]
  /\ answered' = IF Candidates = {} THEN answered ELSE answered \cup With("failed")
  /\ failureTracked' = failureTracked \ monitor.failed
  /\ monitor' = Waiting
  /\ UNCHANGED <<replica, readyReplicas, suitable>>

---------------------------------------------------------------------------
(* Agents carry commands out, and nodes come and go.                       *)

RunCommand(n) ==
  /\ runs[n] > 0
  /\ runs' = [runs EXCEPT ![n] = @ - 1]
  /\ UNCHANGED <<replica, readyReplicas, failureTracked, monitor, stops, suitable, answered>>

NodeChanges(n) ==
  /\ suitable' \in {suitable \cup {n}, suitable \ {n}}
  /\ UNCHANGED <<replica, readyReplicas, failureTracked, monitor, stops, runs, answered>>

MonitorTick == reconcileWorkload \/ RescheduleRefused \/ HandleReschedule
MonitorNext ==
  \/ \E r \in ReplicaIds, n \in MonitorNodes : AddReplica(r, n)
  \/ \E r \in ReplicaIds, status \in {"running", "failed", "stopped"} :
       \E isReady \in BOOLEAN : (isReady => status = "running") /\ UpdateReplica(r, status, isReady)
  \/ \E r \in ReplicaIds, isReady \in BOOLEAN : UpdateWorkloadReplicaHealth(r, isReady)
  \/ \E r \in ReplicaIds : RemoveWorkloadReplica(r)
  \/ MonitorTick
  \/ \E n \in MonitorNodes : RunCommand(n) \/ NodeChanges(n)

(* The ticker never stops while the coordinator runs.                      *)
MonitorFairness == WF_monitorVars(MonitorTick)
MonitorSpec == MonitorInit /\ [][MonitorNext]_monitorVars /\ MonitorFairness

---------------------------------------------------------------------------
(* A replica does not stay failed for ever without replicas being started  *)
(* elsewhere, once enough replicas are ready and a suitable node exists:   *)
(* the monitor's next tick acts, also after refusals and failed attempts.  *)
FailureAnswered ==
  \A r \in ReplicaIds :
    ~<>[](replica[r].status = "failed" /\ ~Blocked /\ Candidates # {} /\ r \notin answered)
=============================================================================
