---------------------------- MODULE MCDecisions ----------------------------
(***************************************************************************)
(* Small instances of the components that decide what goes where, by       *)
(* computation alone: the rollout planner, the scorer and the scheduler,   *)
(* the placement of stored data and the comparison of Merkle trees.  They  *)
(* share no variable.  A behaviour has one of them in focus, runs it and   *)
(* leaves the others as they started, so that a run covers each of them    *)
(* without their product.                                                  *)
(***************************************************************************)
EXTENDS Rollout, Scheduler, Placement, MerkleTree, TLC

CONSTANTS n1, n2, n3, n4, w1, w2, w3

AllStrategies == {"RollingUpdate", "Recreate", "BlueGreen", "Canary"}

-----------------------------------------------------------------------------
(* Nodes and workloads to score: with a GPU, in another region, with no    *)
(* capacity; with preferred and required affinities.                       *)
Scored ==
  [state |-> "ready", reliability |-> 1000, conditions |-> {},
   cap |-> [cpu |-> 4, mem |-> 4, bandwidth |-> 2, gpu |-> 0],
   use |-> [cpu |-> 1, mem |-> 2, bandwidth |-> 0],
   region |-> "r1", zone |-> "a", labels |-> {"ssd"}, publicIP |-> TRUE, features |-> {"ipv6"}]
NodesToScore ==
  {Scored, [Scored EXCEPT !.cap.gpu = 1, !.region = "r2", !.labels = {}],
   [Scored EXCEPT !.cap.cpu = 0]}

Prefer == [type |-> "node", labels |-> {"ssd"}, required |-> FALSE, weight |-> 50]
Require == [Prefer EXCEPT !.required = TRUE]
Asked ==
  [req |-> [cpu |-> 1, mem |-> 1, bandwidth |-> 2, gpu |-> 0], regions |-> <<>>, zones |-> {},
   features |-> {"ipv6"}, needsPublicIP |-> TRUE, affinity |-> {}, antiAffinity |-> {}]
WorkloadsToScore ==
  {Asked,
   [Asked EXCEPT !.regions = <<"r2", "r1">>, !.zones = {"a"}, !.affinity = {Prefer}],
   [Asked EXCEPT !.req.cpu = 3, !.req.mem = 2,
                 !.antiAffinity = {Prefer, [Prefer EXCEPT !.labels = {}]}],
   [Asked EXCEPT !.zones = {"b"}, !.affinity = {Require},
                 !.antiAffinity = {[Require EXCEPT !.labels = {"hdd"}]}]}

(* The defaults, none at all, and ones of which one is negative.           *)
WeightsToUse ==
  {DefaultWeights, [k \in DOMAIN DefaultWeights |-> 0],
   [locality |-> -20, reliability |-> 40, cost |-> 0, utilization |-> 20, network |-> 40]}

-----------------------------------------------------------------------------
(* Three nodes in two zones, one of them tainted, for three workloads.     *)
AnyNode ==
  [reliability |-> 1000, conditions |-> {"Ready"},
   cap |-> [cpu |-> 4, mem |-> 4, storage |-> 4, bandwidth |-> 0, gpu |-> 0],
   region |-> "r", zone |-> "a", labels |-> {"ssd"}, publicIP |-> TRUE, features |-> {},
   taints |-> {}]
ThreeNodes ==
  (n1 :> AnyNode)
    @@ (n2 :> [AnyNode EXCEPT !.cap.cpu = 2, !.labels = {}])
    @@ (n3 :> [AnyNode EXCEPT !.zone = "b", !.cap.mem = 2,
                 !.taints = {[key |-> "gpu", value |-> "yes", effect |-> "NoSchedule"]}])

AnyWorkload ==
  [req |-> [cpu |-> 1, mem |-> 1, storage |-> 0, bandwidth |-> 0, gpu |-> 0],
   regions |-> <<>>, zones |-> {}, features |-> {}, needsPublicIP |-> FALSE,
   affinity |-> {}, antiAffinity |-> {}, selector |-> {},
   tolerations |-> {[key |-> "gpu", value |-> "yes", operator |-> "Equal", effect |-> ""]},
   replicas |-> 2, minAvailable |-> 1, priority |-> 50]
ThreeWorkloads ==
  (w1 :> AnyWorkload)
    @@ (w2 :> [AnyWorkload EXCEPT !.req.cpu = 2, !.affinity = {Require}, !.tolerations = {},
                 !.replicas = 3, !.minAvailable = 0])
    @@ (w3 :> [AnyWorkload EXCEPT !.antiAffinity = {Require}, !.replicas = 1, !.req.mem = 2,
                 !.priority = 200])
PackingsToUse == [packing : {"binpack", "spread", "random"}, spread : {"zone"}]

-----------------------------------------------------------------------------
(* Four storage nodes in three zones, of three classes.                    *)
ThreeZones == [n \in StorageNodes |-> CASE n \in {n1, n2} -> "a" [] n = n3 -> "b" [] n = n4 -> "c"]
ThreeClasses ==
  [n \in StorageNodes |-> CASE n \in {n1, n3} -> "high" [] n = n2 -> "medium" [] n = n4 -> "low"]

-----------------------------------------------------------------------------
VARIABLE focus  \* what the behaviour runs

merkleVars == <<mine, theirs>>

(* Out of focus, a component that may start in many states starts in one.  *)
MCInit ==
  /\ focus \in {"rollout", "scorer", "scheduler", "placement", "merkle"}
  /\ RolloutInit
  /\ focus # "rollout" =>
       /\ current = 0 /\ desired = 0
       /\ strategy = [Strategy |-> "Recreate", MinAvailable |-> 0, MaxUnavailable |-> 0,
                      MaxSurge |-> 0, Pause |-> FALSE]
  /\ SchedInit
  /\ focus # "scorer" => sample = Scored /\ scorerWeights = DefaultWeights
  /\ focus # "scheduler" => packStrategy.packing = "binpack"
  /\ IF focus = "placement" THEN PlacementInit
     ELSE /\ used = [n \in StorageNodes |-> 0] /\ healthy = {} /\ selected = <<>>
          /\ request = CHOOSE r \in Requests : TRUE
  /\ IF focus = "merkle" THEN MerkleInit ELSE mine = <<>> /\ theirs = <<>>

Rollouts == focus = "rollout" /\ RolloutNext /\ UNCHANGED <<schedVars, placementVars, merkleVars>>
Scoring ==
  /\ focus = "scorer" /\ ScorerNext
  /\ UNCHANGED <<rolloutVars, reported, placed, packStrategy, blind, placementVars, merkleVars>>
Scheduling ==
  /\ focus = "scheduler" /\ SchedNext /\ scorerWeights' = scorerWeights
  /\ UNCHANGED <<rolloutVars, placementVars, merkleVars>>
Placing == focus = "placement" /\ PlacementNext /\ UNCHANGED <<rolloutVars, schedVars, merkleVars>>

MCNext == (Rollouts \/ Scoring \/ Scheduling \/ Placing) /\ focus' = focus
MCSpec == MCInit /\ [][MCNext]_<<focus, rolloutVars, schedVars, placementVars, merkleVars>>

-----------------------------------------------------------------------------
(* The scheduler's properties take long to evaluate; they are asked only   *)
(* where the scheduler is in focus.                                        *)

(* PackingIsOptimal, SpreadCovers, PreemptionSuffices: first fit and best  *)
(* fit place as many replicas as the nodes can hold, spreading reaches as  *)
(* many failure domains as it can, and a preemption plan frees what is     *)
(* needed and no more (scheduler.go, binpack.go).                          *)
PlansAreBest == focus = "scheduler" => PackingIsOptimal /\ SpreadCovers /\ PreemptionSuffices

(* NoOvercommit: a node's replicas ask for no more than the node has,      *)
(* unless it was given one while its heartbeat did not account for those   *)
(* it had (scheduler.go).                                                  *)
Fits == focus = "scheduler" => NoOvercommit

(* PlacementSpreads, RebalanceEvensOut: SelectNodes spreads the replicas   *)
(* over as many zones as it can, and RebalanceRecommendations moves data   *)
(* from more to less loaded nodes only, never in a circle (placement.go).  *)
StorageSpreads == PlacementSpreads /\ RebalanceEvensOut
=============================================================================
