------------------------------- MODULE Scorer -------------------------------
(***************************************************************************)
(* How the scheduler scores a node for a workload                          *)
(* (pkg/scheduler/scorer.go).                                              *)
(*                                                                         *)
(* The code computes with floats in 0..1.  Here a component is a number of *)
(* thousandths, a weight a number of hundredths, and a score their product *)
(* summed: a number of 100000ths.  The capacities and the weights of an    *)
(* instance divide these units, so that no division rounds.                *)
(*                                                                         *)
(* One node is observed: heartbeats change one thing about it at a time,   *)
(* and the scheduler's configuration may be replaced.                      *)
(***************************************************************************)
EXTENDS Integers, Sequences, FiniteSetsExt

CONSTANTS
  ScoredNodes,     \* the node records a behaviour may start from
  ScoredWorkloads, \* the workloads nodes are scored for
  WeightConfigs    \* the weights a configuration may set

Conditions == {"MemoryPressure", "DiskPressure", "NetworkUnavailable", "Ready"}
DefaultWeights ==
  [locality |-> 25, reliability |-> 30, cost |-> 15, utilization |-> 20, network |-> 10]

VARIABLES
  sample,       \* the node as the last heartbeat described it
  scorerWeights \* the weights of the scorer
scorerVars == <<sample, scorerWeights>>

Clamp(x, top) == Max({0, Min({x, top})})
Points(chosen, points) == IF chosen THEN points ELSE 0

TotalWeight(w) == w.locality + w.reliability + w.cost + w.utilization + w.network
Normalised(w) ==
  IF TotalWeight(w) > 0 THEN [k \in DOMAIN w |-> (w[k] * 100) \div TotalWeight(w)] ELSE w
NewScorer(w) == IF TotalWeight(w) > 0 THEN Normalised(w) ELSE DefaultWeights
ClampedWeights(w) == [k \in DOMAIN w |-> Max({0, w[k]})]

(* The first listed region earns most; zones add or take a fifth.          *)
calculateLocalityScore(node, wl) ==
  LET ranks == {i \in DOMAIN wl.regions : wl.regions[i] = node.region}
      base == IF wl.regions = <<>> THEN 700
              ELSE IF ranks = {} THEN 500 ELSE 1000 - 100 * (Min(ranks) - 1)
      zone == IF wl.zones = {} THEN 0 ELSE IF node.zone \in wl.zones THEN 200 ELSE -200
  IN  Clamp(base + zone, 1000)

calculateReliabilityScore(node) ==
  LET base == node.reliability
              - Points("MemoryPressure" \in node.conditions, 200)
              - Points("DiskPressure" \in node.conditions, 200)
              - Points("NetworkUnavailable" \in node.conditions, 400)
              + Points("Ready" \in node.conditions, 100)
  IN  CASE node.state = "ready" -> Clamp(base, 1000)
        [] node.state = "enrolling" -> Clamp(base \div 2, 1000)
        [] OTHER -> 0

NoCapacity(node) == node.cap.cpu = 0 \/ node.cap.mem = 0
Share(x, whole) == (1000 * x) \div whole

(* The cost follows the share of the node that the workload asks for.      *)
calculateCostScore(node, wl) ==
  LET ratio == (Share(wl.req.cpu, node.cap.cpu) + Share(wl.req.mem, node.cap.mem)) \div 2
      fit == CASE ratio < 100 -> 700 [] ratio < 300 -> 1000 [] ratio < 500 -> 800
               [] ratio < 700 -> 600 [] OTHER -> 300
  IN  IF NoCapacity(node) THEN 0
      ELSE Clamp(fit - Points(node.cap.gpu > 0 /\ wl.req.gpu = 0, 300), 1000)

Distance(x, y) == IF x > y THEN x - y ELSE y - x

(* Best when the node would be 65% used, better if the placement evens out *)
(* processor and memory, worse above 90%.                                  *)
calculateUtilizationScore(node, wl) ==
  LET now(d) == Share(node.use[d], node.cap[d])
      future(d) == Share(node.use[d] + wl.req[d], node.cap[d])
      away == (Distance(future("cpu"), 650) + Distance(future("mem"), 650)) \div 2
      evens == Distance(future("cpu"), future("mem")) < Distance(now("cpu"), now("mem"))
      full == future("cpu") > 900 \/ future("mem") > 900
  IN  IF NoCapacity(node) \/ future("cpu") > 1000 \/ future("mem") > 1000 THEN 0
      ELSE Clamp(1000 - away + Points(evens, 100) - Points(full, 300), 1000)

calculateNetworkPenalty(node, wl) ==
  LET free == node.cap.bandwidth - node.use.bandwidth
      short == node.cap.bandwidth > 0 /\ wl.req.bandwidth > 0 /\ free < wl.req.bandwidth
      deficit == IF short THEN (1000 - Share(free, wl.req.bandwidth)) \div 2 ELSE 0
      away == wl.regions # <<>> /\ \A i \in DOMAIN wl.regions : wl.regions[i] # node.region
  IN  Clamp(deficit
            + Points(wl.needsPublicIP /\ ~node.publicIP, 100)
            + Points("NetworkUnavailable" \in node.conditions, 1000)
            + 300 * Cardinality(wl.features \ node.features)
            + Points(away, 200), 1000)

nodeMatchesAffinity(node, rule) == rule.type = "node" /\ rule.labels \subseteq node.labels

applyAffinityAdjustments(score, node, wl) ==
  LET bonus(rule) == IF rule.required THEN 10000 ELSE rule.weight * 200
      matching(rules) == {rule \in rules : nodeMatchesAffinity(node, rule)}
  IN  IF \E rule \in matching(wl.antiAffinity) : rule.required THEN 0
      ELSE score + MapThenSumSet(bonus, matching(wl.affinity))
                 - MapThenSumSet(LAMBDA rule : rule.weight * 300, matching(wl.antiAffinity))

ScoreAdding(w, node, wl) ==
  Clamp(applyAffinityAdjustments(
          w.locality * calculateLocalityScore(node, wl)
          + w.reliability * calculateReliabilityScore(node)
          + w.cost * calculateCostScore(node, wl)
          + w.utilization * calculateUtilizationScore(node, wl)
          + w.network * calculateNetworkPenalty(node, wl), node, wl), 100000)

ScoreNode(w, node, wl) ==
  Clamp(applyAffinityAdjustments(
          w.locality * calculateLocalityScore(node, wl)
          + w.reliability * calculateReliabilityScore(node)
          + w.cost * calculateCostScore(node, wl)
          + w.utilization * calculateUtilizationScore(node, wl)
          - w.network * calculateNetworkPenalty(node, wl), node, wl), 100000)

ScorerInit ==
  /\ sample \in ScoredNodes
  /\ \E w \in WeightConfigs : scorerWeights = NewScorer(w)

(* A heartbeat that describes the node anew, in one respect at a time.     *)
Observe ==
  /\ \/ \E s \in {"ready", "enrolling", "draining"} : sample' = [sample EXCEPT !.state = s]
     \/ \E r \in {200, 600, 1000} : sample' = [sample EXCEPT !.reliability = r]
     \/ \E c \in Conditions :
          \/ sample' = [sample EXCEPT !.conditions = @ \cup {c}]
          \/ sample' = [sample EXCEPT !.conditions = @ \ {c}]
     \/ \E b \in 0..sample.cap.bandwidth : sample' = [sample EXCEPT !.use.bandwidth = b]
     \/ \E p \in BOOLEAN : sample' = [sample EXCEPT !.publicIP = p]
     \/ \E f \in SUBSET {"ipv6"} : sample' = [sample EXCEPT !.features = f]
  /\ UNCHANGED scorerWeights

UpdateWeights ==
  /\ \E w \in WeightConfigs : scorerWeights' = Normalised(ClampedWeights(w))
  /\ UNCHANGED sample

ScorerNext == Observe \/ UpdateWeights
ScorerSpec == ScorerInit /\ [][ScorerNext]_scorerVars

(* The second node is no better than the first in any respect that the     *)
(* PRD's formula scores, all else being equal.                             *)
Worse(new, old) ==
  /\ new.state = old.state \/ old.state = "ready" \/ new.state = "draining"
  /\ new.reliability <= old.reliability
  /\ old.conditions \ {"Ready"} \subseteq new.conditions
  /\ "Ready" \in new.conditions => "Ready" \in old.conditions
  /\ new.use.bandwidth >= old.use.bandwidth
  /\ new.publicIP => old.publicIP
  /\ new.features \subseteq old.features

(* A heartbeat that reports a node worse in some respect never raises its  *)
(* score for any workload, through every clamp and adjustment of ScoreNode *)
(* and whatever weights were configured.                                   *)
WorseScoresNoHigher ==
  [][sample' # sample /\ scorerWeights' = scorerWeights /\ Worse(sample', sample) =>
       \A wl \in ScoredWorkloads :
         ScoreNode(scorerWeights', sample', wl) <= ScoreNode(scorerWeights, sample, wl)]_scorerVars
=============================================================================
