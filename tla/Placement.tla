----------------------------- MODULE Placement -----------------------------
(***************************************************************************)
(* Where the object store puts replicas and volumes                        *)
(* (pkg/storage/placement.go): filtering, scoring and the two-pass choice  *)
(* that prefers nodes of different zones, the choice of the node to read   *)
(* from, and the moves that even out the load.                             *)
(*                                                                         *)
(* A behaviour starts in any cluster with any request, and makes one       *)
(* choice.  sync.Map.Range and sort.Slice leave the order of equal scores  *)
(* open, so every order that sorts the scores is possible.                 *)
(***************************************************************************)
EXTENDS Integers, FiniteSets, FiniteSetsExt, SequencesExt

CONSTANTS
  StorageNodes,   \* node IDs
  Zone,           \* [StorageNodes -> zones]
  NodeIOPS,       \* [StorageNodes -> {"high", "medium", "low"}]
  Capacity,       \* bytes of every node
  MaxReplicaCount, \* bound: replicas a request asks for
  MaxDown          \* bound: nodes that are not healthy

ASSUME PlacementAssumption ==
  /\ IsFiniteSet(StorageNodes)
  /\ Capacity \in Nat \ {0} /\ MaxReplicaCount \in Nat \ {0} /\ MaxDown \in Nat

Unset == "unset"  \* the empty IOPS class or zone of a request

Requests ==
  [storage : {"hot", "cold", "ephemeral"}, iops : {"high", Unset},
   count : 1..MaxReplicaCount, size : {0, 1}, zone : {Unset, Zone[CHOOSE n \in StorageNodes : TRUE]},
   exclude : {{}, {CHOOSE n \in StorageNodes : TRUE}}]

VARIABLES
  used,     \* [StorageNodes -> 0..Capacity]: Used; Available is the rest
  healthy,  \* the nodes in state NodeStateHealthy
  request,  \* the request
  selected  \* the answer to it, <<>> before it is made

placementVars == <<used, healthy, request, selected>>

Failed == <<"error">>
Available(n) == Capacity - used[n]

isNodeCompatible(n, class) == class = "hot" => NodeIOPS[n] \in {"high", "medium"}

getEligibleNodes(r) ==
  {n \in healthy \ r.exclude :
     /\ Available(n) >= r.size
     /\ r.storage # "ephemeral" /\ r.iops # Unset => NodeIOPS[n] = r.iops
     /\ isNodeCompatible(n, r.storage)}

(* calculateNodeScore times Capacity: 40 points for the available share, 30*)
(* for the share that is not loaded, 20 for the IOPS class, 10 for the     *)
(* preferred zone.                                                         *)
calculateNodeScore(n, r) ==
  70 * Available(n)
  + Capacity * ((IF NodeIOPS[n] = r.iops THEN 20 ELSE 0) + (IF Zone[n] = r.zone THEN 10 ELSE 0))

Rankings(nodes, r) ==
  {order \in SetToSeqs(nodes) :
     \A i, j \in DOMAIN order : i < j => calculateNodeScore(order[i], r) >= calculateNodeScore(order[j], r)}

(* The first pass takes a node whose zone is new, or any node once as many *)
(* zones are used as replicas are asked for.                               *)
ZonePass(order, count) ==
  FoldLeft(LAMBDA chosen, n :
             LET zones == {Zone[m] : m \in ToSet(chosen)}
             IN IF Len(chosen) < count /\ (Zone[n] \notin zones \/ Cardinality(zones) >= count)
                THEN Append(chosen, n) ELSE chosen,
           <<>>, order)

FillPass(order, chosen, count) ==
  FoldLeft(LAMBDA acc, n : IF Len(acc) < count /\ n \notin ToSet(acc) THEN Append(acc, n) ELSE acc,
           chosen, order)

(* Mutant of selectBestNodes: the pass over zones is left out.             *)
selectIgnoringZones(order, r) == FillPass(order, <<>>, r.count)

selectBestNodes(order, r) ==
  LET chosen == FillPass(order, ZonePass(order, r.count), r.count)
  IN IF Len(chosen) < r.count THEN Failed ELSE chosen

SelectNodes ==
  /\ selected = <<>>
  /\ LET eligible == getEligibleNodes(request)
     IN IF eligible = {} \/ Cardinality(eligible) < request.count
        THEN selected' = Failed
        ELSE \E order \in Rankings(eligible, request) : selected' = selectBestNodes(order, request)
  /\ UNCHANGED <<used, healthy, request>>

-----------------------------------------------------------------------------
(* SelectPrimaryNode over the known nodes of a list.  With no healthy node *)
(* in it, a random one is returned.                                        *)
SelectPrimaryNode(nodes, zone) ==
  LET up == {i \in DOMAIN nodes : nodes[i] \in healthy}
      near == {i \in up : Zone[nodes[i]] = zone}
      least == {i \in up : \A j \in up : used[nodes[i]] <= used[nodes[j]]}
  IN IF near # {} THEN {nodes[Min(near)]}
     ELSE IF up # {} THEN {nodes[Min(least)]}
     ELSE ToSet(nodes)

(* A deviation of 15% from the average load, (load - avg) / avg > 0.15, in *)
(* integers.  With an average of zero the quotient is no number.           *)
TotalLoad == MapThenSumSet(LAMBDA n : used[n], healthy)
Deviates(n, sign) ==
  TotalLoad > 0 /\ sign * (100 * used[n] * Cardinality(healthy) - 100 * TotalLoad) > 15 * TotalLoad

(* For each overloaded node, the first underloaded node in the order of the*)
(* range; here every node that may come first.                             *)
RebalanceRecommendations ==
  {<<n, m>> \in healthy \X healthy :
     Cardinality(healthy) >= 2 /\ n # m /\ Deviates(n, 1) /\ Deviates(m, -1)}

(* GetClusterCapacity, the part that counts by zone: the map is made anew  *)
(* whenever the zone of the node at hand is not in it.                     *)
ZoneCapacity(order) ==
  FoldLeft(LAMBDA map, n :
             IF Zone[n] \in DOMAIN map THEN [map EXCEPT ![Zone[n]] = @ + Capacity]
             ELSE [z \in {Zone[n]} |-> Capacity],
           [z \in {} |-> 0], order)

-----------------------------------------------------------------------------
PlacementInit ==
  /\ used \in [StorageNodes -> 0..Capacity]
  /\ healthy \in {up \in SUBSET StorageNodes : Cardinality(StorageNodes \ up) <= MaxDown}
  /\ request \in Requests
  /\ selected = <<>>

PlacementNext == SelectNodes

PlacementSpec == PlacementInit /\ [][PlacementNext]_placementVars

-----------------------------------------------------------------------------
Chosen == selected \notin {<<>>, Failed}

(* SelectNodes returns as many different eligible nodes as were asked for, *)
(* one of them with the highest score, and spreads them over as many zones *)
(* as the eligible nodes and the count allow.                              *)
PlacementSpreads ==
  Chosen =>
    LET nodes == ToSet(selected)
        eligible == getEligibleNodes(request)
        zones(s) == {Zone[n] : n \in s}
    IN /\ Cardinality(nodes) = request.count
       /\ nodes \subseteq eligible
       /\ Cardinality(zones(nodes)) = Min({request.count, Cardinality(zones(eligible))})
       /\ \E n \in nodes : \A m \in eligible : calculateNodeScore(n, request) >= calculateNodeScore(m, request)

(* A move of RebalanceRecommendations goes from a more loaded node to a    *)
(* less loaded one, no node is both a source and a target, and while one   *)
(* node is idle and another is full there is a move to make.               *)
RebalanceEvensOut ==
  LET moves == RebalanceRecommendations
  IN /\ \A mv \in moves : used[mv[1]] > used[mv[2]]
     /\ {mv[1] : mv \in moves} \cap {mv[2] : mv \in moves} = {}
     /\ (\E n, m \in healthy : used[n] = 0 /\ used[m] = Capacity) => moves # {}
=============================================================================
