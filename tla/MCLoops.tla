------------------------------ MODULE MCLoops ------------------------------
(***************************************************************************)
(* Small instances of what must go on: calls that wait for the membership  *)
(* manager's locks, the replica monitor, the repair engine and the storage *)
(* manager's loops.  They share no variable.  A behaviour has one of them  *)
(* in focus, runs it and leaves the others as they started, where their    *)
(* fairness asks nothing of them, so that a run covers each of them        *)
(* without their product.                                                  *)
(***************************************************************************)
EXTENDS MembershipLocks, ReplicaMonitor, ChunkReplicas, StorageManager

CONSTANTS n1, n2, r2

AllCalls == DOMAIN Program

VARIABLE focus  \* what the behaviour runs

MCInit ==
  /\ focus \in {"locks", "monitor", "repair", "stop", "read", "health", "rebalance"}
  /\ LocksInit /\ MonitorInit /\ ReplicaInit /\ ManagerInit

(* The repair engine runs while a replica of the first node goes bad (the  *)
(* nodes are alike); it is stopped while a chunk is written; and a read    *)
(* repairs what it finds.                                                  *)
Repairing ==
  /\ ReplicaNext
  /\ \/ /\ focus = "repair" /\ engine' = "running" /\ reads' = 0
        /\ \A i \in DOMAIN todo'[Reporter] : todo'[Reporter][i].node = n1
     \/ focus = "stop" /\ faults' = 0
     \/ focus = "read" /\ engine' = "running" /\ loop' = "wait"

(* The second replica stays on the second node, which stays suitable; a    *)
(* replica is not stopped but by failing.                                  *)
Monitoring ==
  /\ focus = "monitor" /\ MonitorNext
  /\ n2 \in suitable' /\ replica'[r2].node # n1
  /\ \A r \in ReplicaIds : replica'[r].status # "stopped"

(* Health checks without rebalancing; or rebalancing while nodes are       *)
(* registered, but not checked.                                            *)
Managing ==
  /\ ManagerNext
  /\ \/ focus = "health" /\ rebalance' = rebalance
     \/ focus = "rebalance" /\ check' = check /\ update' = update

MCNext ==
  /\ \/ focus = "locks" /\ LocksNext /\ UNCHANGED <<monitorVars, replicaVars, managerVars>>
     \/ Monitoring /\ UNCHANGED <<lockVars, replicaVars, managerVars>>
     \/ Repairing /\ UNCHANGED <<lockVars, monitorVars, managerVars>>
     \/ Managing /\ UNCHANGED <<lockVars, monitorVars, replicaVars>>
  /\ focus' = focus

MCSpec ==
  /\ MCInit /\ [][MCNext]_<<focus, lockVars, monitorVars, replicaVars, managerVars>>
  /\ LocksFairness /\ MonitorFairness /\ ReplicaFairness /\ ManagerFairness
=============================================================================
