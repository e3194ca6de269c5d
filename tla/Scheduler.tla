----------------------------- MODULE Scheduler -----------------------------
(***************************************************************************)
(* The coordinator's scheduler (pkg/scheduler: scheduler.go, binpack.go):  *)
(* which nodes may run a workload, the strategies that place its replicas, *)
(* rescheduling after failures and the choice of workloads to preempt.     *)
(*                                                                         *)
(* Scheduler.mu makes a call atomic, but nothing is reserved: a call sees  *)
(* the usage that the nodes last reported, and replicas placed since, or   *)
(* placed and still idle, are not in it.  sort.Slice is not stable and a   *)
(* map is ranged over in any order, so the order of equal scores and of    *)
(* the groups is open.  A placement is the number of replicas per node.    *)
(***************************************************************************)
EXTENDS Scorer, SequencesExt

CONSTANTS
  SchedNodes,     \* node IDs
  NodeInfo,       \* [SchedNodes -> what does not change of a node's record]
  WorkloadNames,  \* workload IDs
  WorkloadSpecOf, \* [WorkloadNames -> WorkloadSpec]
  PackStrategies,     \* the PackingStrategy values configured
  MaxPlaced       \* bound: replicas placed in a behaviour

VARIABLES
  reported, \* [SchedNodes -> state, use]: Manager.nodes as heartbeats left it
  placed,   \* [WorkloadNames -> [SchedNodes -> Nat]]: replicas sent to the nodes
  packStrategy, \* PackingStrategy and SpreadPolicy of the configuration
  blind     \* nodes that were given a replica while they under-reported
schedVars == <<reported, placed, packStrategy, blind, scorerVars>>

Dims == {"cpu", "mem", "storage"}
Node(n) ==
  [k \in DOMAIN NodeInfo[n] \cup {"state", "use"} |->
     IF k \in {"state", "use"} THEN reported[n][k] ELSE NodeInfo[n][k]]
Free(n) == [d \in Dims |-> NodeInfo[n].cap[d] - reported[n].use[d]]
fits(req, room) == \A d \in Dims : req[d] <= room[d]
Deduct(room, req) == [d \in Dims |-> room[d] - req[d]]

Load(n) ==
  [d \in Dims |-> MapThenSumSet(LAMBDA w : placed[w][n] * WorkloadSpecOf[w].req[d], WorkloadNames)]
UnderReported(n) == \E d \in Dims : reported[n].use[d] < Load(n)[d]

SchedInit ==
  /\ reported = [n \in SchedNodes |->
                   [state |-> "ready", use |-> [d \in Dims \cup {"bandwidth"} |-> 0]]]
  /\ placed = [w \in WorkloadNames |-> [n \in SchedNodes |-> 0]]
  /\ packStrategy \in PackStrategies
  /\ blind = {}
  /\ ScorerInit

---------------------------------------------------------------------------
(* Which nodes may run the workload.                                       *)

hasEnoughResources(n, wl) == fits(wl.req, Free(n))

matchesAffinity(n, rule) == rule.type = "node" /\ rule.labels \subseteq NodeInfo[n].labels

matchesPlacementPolicy(n, wl) ==
  /\ wl.regions = <<>> \/ NodeInfo[n].region \in ToSet(wl.regions)
  /\ wl.zones = {} \/ NodeInfo[n].zone \in wl.zones
  /\ wl.selector \subseteq NodeInfo[n].labels
  /\ \A rule \in wl.affinity : rule.required => matchesAffinity(n, rule)
  /\ \A rule \in wl.antiAffinity : rule.required => ~matchesAffinity(n, rule)

matchesToleration(taint, tol) ==
  /\ tol.key = taint.key
  /\ \/ tol.operator = "Exists"
     \/ /\ tol.operator = "Equal" /\ tol.value = taint.value
        /\ tol.effect \in {"", taint.effect}

toleratesTaints(n, wl) ==
  \A taint \in NodeInfo[n].taints :
    taint.effect = "NoSchedule" => \E tol \in wl.tolerations : matchesToleration(taint, tol)

filterNodes(nodes, wl) ==
  {n \in nodes : /\ reported[n].state = "ready"
                 /\ hasEnoughResources(n, wl)
                 /\ matchesPlacementPolicy(n, wl)
                 /\ toleratesTaints(n, wl)}

filterFailedNodes(failed) ==
  {n \in SchedNodes \ failed : reported[n].state \notin {"failed", "offline"}}

---------------------------------------------------------------------------
(* The strategies.                                                         *)

scoreNodes(wl) == [n \in SchedNodes |-> ScoreNode(scorerWeights, Node(n), wl)]

(* Every order that sorts the nodes by score.                              *)
Ranked(nodes, wl) ==
  LET score == scoreNodes(wl)
  IN  {order \in SetToSeqs(nodes) :
         \A i \in 1..(Len(order) - 1) : score[order[i]] >= score[order[i + 1]]}

Nowhere == [n \in SchedNodes |-> 0]
createBins == [n \in SchedNodes |-> Free(n)]
PlaceUndeducted(packing, n, req) == [packing EXCEPT !.count[n] = @ + 1]
Place(packing, n, req) ==
  [room |-> [packing.room EXCEPT ![n] = Deduct(@, req)], count |-> [packing.count EXCEPT ![n] = @ + 1]]

(* Every replica goes to the first bin of the order that still has room.   *)
Pack(order, wl) ==
  LET step(packing, i) ==
        LET open == {j \in DOMAIN order : fits(wl.req, packing.room[order[j]])}
        IN  IF open = {} THEN packing ELSE Place(packing, order[Min(open)], wl.req)
  IN  FoldLeft(step, [room |-> createBins, count |-> Nowhere], [i \in 1..wl.replicas |-> i]).count

calculateWaste(room, req) == LET left == Deduct(room, req) IN left["cpu"] + left["mem"] + left["storage"]

(* Every replica goes to the first of the bins it would leave fullest.     *)
PackBestFit(order, wl) ==
  LET step(packing, i) ==
        LET waste(j) == calculateWaste(packing.room[order[j]], wl.req)
            open == {j \in DOMAIN order : fits(wl.req, packing.room[order[j]])}
            best == {j \in open : \A k \in open : waste(j) <= waste(k)}
        IN  IF open = {} THEN packing ELSE Place(packing, order[Min(best)], wl.req)
  IN  FoldLeft(step, [room |-> createBins, count |-> Nowhere], [i \in 1..wl.replicas |-> i]).count

Topology(n, key) ==
  CASE key = "zone" -> NodeInfo[n].zone [] key = "region" -> NodeInfo[n].region
    [] key = "node" -> n [] OTHER -> "default"
Groups(nodes, key) == {Topology(n, key) : n \in nodes}

FirstOf(order, k) == {order[i] : i \in 1..Min({k, Len(order)})}
OnEach(nodes) == [n \in SchedNodes |-> Points(n \in nodes, 1)]

SpreadByScore(order, wl, key) == {OnEach(FirstOf(order, wl.replicas))}

(* One replica on a best node of each group, in any order of the groups,   *)
(* then one on each remaining node in the order of the scores.             *)
SpreadOver(order, wl, key) ==
  LET nodes == ToSet(order)
      score == scoreNodes(wl)
      bests == {n \in nodes : \A m \in nodes : Topology(m, key) = Topology(n, key) => score[n] >= score[m]}
      groups == Groups(nodes, key)
      firsts == {used \in kSubset(Min({wl.replicas, Cardinality(groups)}), bests) :
                   Cardinality(Groups(used, key)) = Cardinality(used)}
  IN  {LET rest == SelectSeq(order, LAMBDA n : n \notin used)
       IN  OnEach(used \cup FirstOf(rest, wl.replicas - Cardinality(used))) : used \in firsts}

spreadSchedule(order, wl) == SpreadOver(order, wl, packStrategy.spread)
binPackSchedule(order, wl) == {Pack(order, wl)}
defaultSchedule(order, wl) == {OnEach(FirstOf(order, wl.replicas))}

(* PackWithSpread is handed nodes that nobody filtered: it leaves out the  *)
(* ones without room itself.                                               *)
PackWithSpread(wl, key) ==
  LET roomy == {n \in SchedNodes : hasEnoughResources(n, wl)}
  IN  UNION {SpreadOver(order, wl, key) : order \in Ranked(roomy, wl)}

Placements(nodes, wl) ==
  UNION {CASE packStrategy.packing = "binpack" -> binPackSchedule(order, wl)
           [] packStrategy.packing = "spread" -> spreadSchedule(order, wl)
           [] OTHER -> defaultSchedule(order, wl) : order \in Ranked(nodes, wl)}

---------------------------------------------------------------------------
(* The calls.                                                              *)

Size(plan) == MapThenSumSet(LAMBDA n : plan[n], SchedNodes)

Send(w, plan) ==
  /\ MapThenSumSet(LAMBDA v : Size(placed[v]), WorkloadNames) + Size(plan) <= MaxPlaced
  /\ placed' = [placed EXCEPT ![w] = [n \in SchedNodes |-> @[n] + plan[n]]]
  /\ blind' = blind \cup {n \in SchedNodes : plan[n] > 0 /\ UnderReported(n)}
  /\ UNCHANGED <<reported, packStrategy, scorerVars>>

(* Schedule, and the handlers that send its decisions to the nodes: also   *)
(* when only some of the replicas were placed.                             *)
Schedule(w) ==
  LET wl == WorkloadSpecOf[w]
      candidates == filterNodes(SchedNodes, wl)
  IN  /\ candidates # {}
      /\ \E plan \in Placements(candidates, wl) : Send(w, plan)

(* Reschedule places every replica anew, off the failed nodes, provided    *)
(* that enough of the old ones are ready.                                  *)
RescheduleWorkload(w) ==
  LET wl == WorkloadSpecOf[w]
  IN  \E failed \in SUBSET {n \in SchedNodes : placed[w][n] > 0} \ {{}}, ready \in {0, wl.replicas} :
        LET candidates == filterNodes(filterFailedNodes(failed), wl)
        IN  /\ wl.minAvailable > 0 => ready >= wl.minAvailable
            /\ candidates # {}
            /\ \E plan \in Placements(candidates, wl) : Send(w, plan)

(* A heartbeat reports a node's state and what its replicas use now: all   *)
(* that they asked for, or nothing while they idle or are being started.   *)
Report(n) ==
  /\ \E state \in {"ready", "failed"}, busy \in BOOLEAN :
       reported' = [reported EXCEPT ![n] =
         [state |-> state,
          use |-> [d \in Dims \cup {"bandwidth"} |-> IF busy /\ d \in Dims THEN Load(n)[d] ELSE 0]]]
  /\ UNCHANGED <<placed, packStrategy, blind, scorerVars>>

UpdateSchedulerConfig ==
  /\ packStrategy' \in PackStrategies
  /\ UpdateWeights
  /\ UNCHANGED <<reported, placed, blind>>

SchedNext ==
  \/ \E w \in WorkloadNames : Schedule(w) \/ RescheduleWorkload(w)
  \/ \E n \in SchedNodes : Report(n)
  \/ UpdateSchedulerConfig

SchedSpec == SchedInit /\ [][SchedNext]_schedVars

---------------------------------------------------------------------------
(* Preemption.                                                             *)

(* What runs on nodes that are in service: Priority 50 is assumed of all.  *)
PreemptionCandidates ==
  {c \in WorkloadNames \X SchedNodes \X (1..MaxPlaced) :
     /\ c[3] <= placed[c[1]][c[2]]
     /\ reported[c[2]].state \notin {"draining", "offline", "failed"}}

Freed(victims) ==
  [d \in Dims |-> MapThenSumSet(LAMBDA c : WorkloadSpecOf[c[1]].req[d], victims)]
Needed(wl) == [d \in Dims |-> wl.req[d] * wl.replicas]

(* The workloads to preempt: the candidates, whose priorities are equal,   *)
(* in any order, until they free enough; none if all of them do not.       *)
PreemptWorkloads(wl) ==
  LET enough(victims) == fits(Needed(wl), Freed(victims))
      plan(order) == LET few == {k \in 0..Len(order) : enough(FirstOf(order, k))}
                     IN  IF few = {} THEN {} ELSE FirstOf(order, Min(few))
  IN  IF wl.priority <= 100 THEN {{}} ELSE {plan(order) : order \in SetToSeqs(PreemptionCandidates)}

---------------------------------------------------------------------------
(* Properties.                                                             *)

Room(n, wl) ==
  IF n \notin filterNodes(SchedNodes, wl) THEN 0
  ELSE Max({k \in 0..wl.replicas : fits([d \in Dims |-> k * wl.req[d]], Free(n))})

(* First fit and best fit place as many replicas as the suitable nodes can *)
(* hold, and on no node more than it can hold: identical replicas leave    *)
(* nothing to gain from any other packing.                                 *)
PackingIsOptimal ==
  \A w \in WorkloadNames :
    LET wl == WorkloadSpecOf[w]
        room == [n \in SchedNodes |-> Room(n, wl)]
        most == Min({wl.replicas, Size(room)})
    IN  \A order \in Ranked(filterNodes(SchedNodes, wl), wl) :
          \A plan \in {Pack(order, wl), PackBestFit(order, wl)} :
            /\ Size(plan) = most
            /\ \A n \in SchedNodes : plan[n] <= room[n]

(* Spreading reaches as many failure domains as the replicas and the nodes *)
(* allow before any domain gets a second replica, and no node gets two.    *)
SpreadCovers ==
  \A w \in WorkloadNames :
    LET wl == WorkloadSpecOf[w]
        nodes == filterNodes(SchedNodes, wl)
        covered(plan) == Groups({n \in SchedNodes : plan[n] > 0}, "zone")
        covers(plan, from) ==
          /\ \A n \in SchedNodes : plan[n] \in 0..1
          /\ Cardinality(covered(plan)) = Min({wl.replicas, Cardinality(Groups(from, "zone"))})
    IN  /\ \A order \in Ranked(nodes, wl) : \A plan \in SpreadOver(order, wl, "zone") : covers(plan, nodes)
        /\ \A plan \in PackWithSpread(wl, "zone") :
             covers(plan, {n \in SchedNodes : hasEnoughResources(n, wl)})

(* A node's replicas never ask for more than the node has, whatever the    *)
(* strategies, configurations and failures, unless the node was given one  *)
(* while its last heartbeat did not account for those it already had:      *)
(* Schedule reserves nothing.                                              *)
NoOvercommit == \A n \in SchedNodes \ blind : fits(Load(n), NodeInfo[n].cap)

(* A preemption plan frees what the workload needs, and would not without  *)
(* the last workload on it.                                                *)
PreemptionSuffices ==
  \A w \in WorkloadNames :
    LET wl == WorkloadSpecOf[w]
    IN  \A victims \in PreemptWorkloads(wl) \ {{}} :
          /\ fits(Needed(wl), Freed(victims))
          /\ \E c \in victims : ~fits(Needed(wl), Freed(victims \ {c}))
=============================================================================
