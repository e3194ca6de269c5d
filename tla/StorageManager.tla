--------------------------- MODULE StorageManager ---------------------------
(***************************************************************************)
(* The storage manager's view of one storage node and its rebalancing      *)
(* (pkg/storage/manager.go with the node map of placement.go).  sm.mu      *)
(* covers registration and the rebalancing flag only: the monitoring loop  *)
(* and UpdateNodeStats load a *StorageNode, change it and store it back    *)
(* while the node may be unregistered or registered again.                 *)
(***************************************************************************)
EXTENDS Naturals, FiniteSets

CONSTANTS
  Updates,       \* concurrent UpdateNodeStats calls
  Rebalancers,   \* goroutines of TriggerRebalancing, and the rebalancing loop
  RebalanceLoop, \* the one of them that is the loop
  NodeRecords    \* bound: *StorageNode records, reused when nothing refers to them

ASSUME ManagerAssumption == RebalanceLoop \in Rebalancers /\ IsFiniteSet(NodeRecords) /\ NodeRecords # {}

NotPlaced == "none"

VARIABLES
  known,        \* is the node in sm.nodes?
  stats,        \* sm.nodeStats: "none", "fresh", or "stale" (older than two minutes)
  placed,       \* the placement strategy's record of the node, or NotPlaced
  degraded,     \* [NodeRecords -> BOOLEAN]: State = NodeStateDegraded, else healthy
  registrar,    \* the RegisterNode or UnregisterNode call that holds sm.mu
  update,       \* [Updates -> [pc, rec]]
  check,        \* performHealthChecks of the monitoring loop: [pc, rec, stale]
  rebalancingActive,
  rebalance     \* [Rebalancers -> "idle", "called", "running" or "done"]

managerVars == <<known, stats, placed, degraded, registrar, update, check, rebalancingActive, rebalance>>

IdleUpdate == [pc |-> "idle", rec |-> NotPlaced]
IdleCheck == [pc |-> "idle", rec |-> NotPlaced, stale |-> FALSE]
sm_muFree == registrar = "idle"

ManagerInit ==
  /\ known = FALSE /\ stats = "none" /\ placed = NotPlaced
  /\ degraded = [r \in NodeRecords |-> FALSE]
  /\ registrar = "idle"
  /\ update = [u \in Updates |-> IdleUpdate] /\ check = IdleCheck
  /\ rebalancingActive = FALSE /\ rebalance = [g \in Rebalancers |-> "idle"]

UnusedRecords == NodeRecords \ ({placed, check.rec} \cup {update[u].rec : u \in Updates})

-----------------------------------------------------------------------------
(* RegisterNode and UnregisterNode: sm.nodes and sm.nodeStats first, then  *)
(* the placement strategy, all under sm.mu.  Registration leaves the stats.*)
BeginRegister ==
  /\ sm_muFree
  /\ known' = TRUE /\ registrar' = "register"
  /\ UNCHANGED <<stats, placed, degraded, update, check, rebalancingActive, rebalance>>

RegisterNode ==
  /\ registrar = "register"
  /\ \E r \in UnusedRecords : placed' = r /\ degraded' = [degraded EXCEPT ![r] = FALSE]
  /\ registrar' = "idle"
  /\ UNCHANGED <<known, stats, update, check, rebalancingActive, rebalance>>

BeginUnregister ==
  /\ sm_muFree /\ known
  /\ known' = FALSE /\ stats' = "none" /\ registrar' = "unregister"
  /\ UNCHANGED <<placed, degraded, update, check, rebalancingActive, rebalance>>

UnregisterNode ==
  /\ registrar = "unregister"
  /\ placed' = NotPlaced /\ registrar' = "idle"
  /\ UNCHANGED <<known, stats, degraded, update, check, rebalancingActive, rebalance>>

(* Two minutes pass since the last stats.                                  *)
StatsAge ==
  /\ stats = "fresh" /\ stats' = "stale"
  /\ UNCHANGED <<known, placed, degraded, registrar, update, check, rebalancingActive, rebalance>>

(* UpdateNodeStats stores the stats, and UpdateNodeCapacity changes the    *)
(* record it loaded and stores it back.                                    *)
UpdateNodeStats(u) ==
  /\ update[u].pc = "idle"
  /\ stats' = "fresh" /\ update' = [update EXCEPT ![u].pc = "load"]
  /\ UNCHANGED <<known, placed, degraded, registrar, check, rebalancingActive, rebalance>>

LoadNode(u) ==
  /\ update[u].pc = "load"
  /\ update' = [update EXCEPT ![u] = IF placed = NotPlaced THEN IdleUpdate ELSE [pc |-> "store", rec |-> placed]]
  /\ UNCHANGED <<known, stats, placed, degraded, registrar, check, rebalancingActive, rebalance>>

UpdateNodeCapacity(u) ==
  /\ update[u].pc = "store"
  /\ placed' = update[u].rec /\ update' = [update EXCEPT ![u] = IdleUpdate]
  /\ UNCHANGED <<known, stats, degraded, registrar, check, rebalancingActive, rebalance>>

-----------------------------------------------------------------------------
(* A tick of the monitoring loop: a known node with stats is stale or not. *)
performHealthChecks ==
  /\ check.pc = "idle" /\ known /\ stats # "none"
  /\ check' = [check EXCEPT !.pc = "load", !.stale = (stats = "stale")]
  /\ UNCHANGED <<known, stats, placed, degraded, registrar, update, rebalancingActive, rebalance>>

CheckNode ==
  /\ check.pc = "load"
  /\ check' = IF placed = NotPlaced \/ degraded[placed] = check.stale THEN IdleCheck
              ELSE [check EXCEPT !.pc = "store", !.rec = placed]
  /\ UNCHANGED <<known, stats, placed, degraded, registrar, update, rebalancingActive, rebalance>>

(* Mutant of MarkNode: a degraded node is not restored.                    *)
MarkDegradedOnly ==
  /\ check.pc = "store"
  /\ degraded' = [degraded EXCEPT ![check.rec] = @ \/ check.stale]
  /\ placed' = check.rec /\ check' = IdleCheck
  /\ UNCHANGED <<known, stats, registrar, update, rebalancingActive, rebalance>>

MarkNode ==
  /\ check.pc = "store"
  /\ degraded' = [degraded EXCEPT ![check.rec] = check.stale]
  /\ placed' = check.rec /\ check' = IdleCheck
  /\ UNCHANGED <<known, stats, registrar, update, rebalancingActive, rebalance>>

-----------------------------------------------------------------------------
(* TriggerRebalancing under sm.mu, and the tick of the loop, which reads   *)
(* the flag without it.                                                    *)
TriggerRebalancing(g) ==
  /\ rebalance[g] = "idle" /\ ~rebalancingActive
  /\ g # RebalanceLoop => sm_muFree
  /\ rebalance' = [rebalance EXCEPT ![g] = "called"]
  /\ UNCHANGED <<known, stats, placed, degraded, registrar, update, check, rebalancingActive>>

(* Mutant of executeRebalancing: the flag is not tested again.             *)
executeUntested(g) ==
  /\ rebalance[g] = "called" /\ sm_muFree
  /\ rebalance' = [rebalance EXCEPT ![g] = "running"] /\ rebalancingActive' = TRUE
  /\ UNCHANGED <<known, stats, placed, degraded, registrar, update, check>>

executeRebalancing(g) ==
  /\ rebalance[g] = "called" /\ sm_muFree
  /\ rebalance' = [rebalance EXCEPT ![g] = IF rebalancingActive THEN "idle" ELSE "running"]
  /\ rebalancingActive' = TRUE
  /\ UNCHANGED <<known, stats, placed, degraded, registrar, update, check>>

(* Rebalancer.Execute ends, and so does a pass without operations.         *)
RebalanceExecute(g) ==
  /\ rebalance[g] = "running"
  /\ rebalance' = [rebalance EXCEPT ![g] = "done"]
  /\ UNCHANGED <<known, stats, placed, degraded, registrar, update, check, rebalancingActive>>

RebalanceDone(g) ==
  /\ rebalance[g] = "done" /\ sm_muFree
  /\ rebalance' = [rebalance EXCEPT ![g] = "idle"] /\ rebalancingActive' = FALSE
  /\ UNCHANGED <<known, stats, placed, degraded, registrar, update, check>>

MonitorStep == performHealthChecks \/ CheckNode \/ MarkNode

UpdateStep(u) == UpdateNodeStats(u) \/ LoadNode(u) \/ UpdateNodeCapacity(u)

RebalanceStep(g) == executeRebalancing(g) \/ RebalanceExecute(g) \/ RebalanceDone(g)

ManagerNext ==
  \/ BeginRegister \/ RegisterNode \/ BeginUnregister \/ UnregisterNode \/ StatsAge
  \/ \E u \in Updates : UpdateStep(u)
  \/ MonitorStep
  \/ \E g \in Rebalancers : TriggerRebalancing(g) \/ RebalanceStep(g)

(* The ticker of the monitoring loop keeps firing, and a call that has     *)
(* started runs on.                                                        *)
ManagerFairness ==
  /\ WF_managerVars(MonitorStep)
  /\ WF_managerVars(RegisterNode \/ UnregisterNode)
  /\ \A u \in Updates : WF_managerVars(LoadNode(u) \/ UpdateNodeCapacity(u))

ManagerSpec == ManagerInit /\ [][ManagerNext]_managerVars /\ ManagerFairness

-----------------------------------------------------------------------------
Settled(s) == known /\ stats = s /\ registrar = "idle"

(* The state that SelectNodes looks at follows the stats of a registered   *)
(* node: once they stay stale the node stays degraded, and once they stay  *)
(* fresh it stays healthy, however the earlier UpdateNodeStats calls and   *)
(* registrations interleaved with the monitoring loop.                     *)
HealthFollowsStats ==
  /\ <>[]Settled("stale") => <>[](placed # NotPlaced /\ degraded[placed])
  /\ <>[]Settled("fresh") => <>[](placed # NotPlaced /\ ~degraded[placed])

(* At most one rebalancing pass runs, although the loop and                *)
(* TriggerRebalancing test the flag before executeRebalancing does.        *)
OneRebalancing ==
  \A g, h \in Rebalancers :
    rebalance[g] \in {"running", "done"} /\ rebalance[h] \in {"running", "done"} => g = h
=============================================================================
