--------------------------- MODULE OverlayProofs ----------------------------
(***************************************************************************)
(* Proofs about the overlay: services keep distinct virtual IPs, a restart *)
(* finds in RAFT what the registry had in memory, and the load balancer    *)
(* counts the connections that are open.                                   *)
(***************************************************************************)
EXTENDS ServiceRegistry, LoadBalancer, TLAPS

-----------------------------------------------------------------------------
(* The load balancer.                                                      *)

Shape(q) ==
  q = [step |-> q.step, client |-> q.client, list |-> q.list, counter |-> q.counter, missing |-> q.missing,
       endpoint |-> q.endpoint, object |-> q.object, then |-> q.then]

StatsType ==
  /\ activeConns \in [Endpoints -> Seq(Nat)]
  /\ statsOf \in [Endpoints -> Nat]
  /\ \A e \in Endpoints : statsOf[e] =< Len(activeConns[e])
  /\ open = [e \in Endpoints |-> open[e]]
  /\ lbCall = [r \in LBRequests |-> lbCall[r]]
  /\ \A r \in LBRequests : Shape(lbCall[r])

(* The object a request has loaded is one of its endpoint's, and the       *)
(* current one unless two were created.                                    *)
ObjectOf(q, e) == q.step = "stats" /\ q.object # 0 /\ q.endpoint = e
Loaded ==
  \A r \in LBRequests, e \in Endpoints :
    ObjectOf(lbCall[r], e) =>
      /\ lbCall[r].object \in 1 .. Len(activeConns[e])
      /\ e \notin split => statsOf[e] = lbCall[r].object

(* A request has a connection open on e.                                   *)
Connected(q, e) == q.endpoint = e /\ (q.step = "connected" \/ (q.step = "stats" /\ q.then = "decrement"))
OpenCounted ==
  \A e \in Endpoints : open[e] = Cardinality({r \in LBRequests : Connected(lbCall[r], e)})

BalancerInv == StatsType /\ Loaded /\ OpenCounted /\ ConnectionsCounted

(* What the proofs need of Cardinality, shown at the end of the module     *)
(* from the library's theorems on finite sets.                             *)
RequestsCount ==
  \A S \in SUBSET LBRequests :
    /\ Cardinality(S) \in Nat /\ (S = {} <=> Cardinality(S) = 0)
    /\ \A r \in LBRequests \ S : Cardinality(S \cup {r}) = Cardinality(S) + 1

(* The invariant holds before any request.                                 *)
LEMMA BalancerInit ==
  ASSUME RequestsCount, LBInit
  PROVE  BalancerInv
<1> USE DEF LBInit
<1>1. StatsType
  <2>1. \A e \in Endpoints : activeConns[e] = <<>> /\ Len(activeConns[e]) = 0 /\ statsOf[e] = 0
    BY Zenon
  <2>2. activeConns \in [Endpoints -> Seq(Nat)] /\ statsOf \in [Endpoints -> Nat]
    OBVIOUS
  <2>3. \A r \in LBRequests : Shape(lbCall[r])
    BY Zenon DEF Shape, LBIdle
  <2> QED
    BY <2>1, <2>2, <2>3 DEF StatsType
<1>2. Loaded
  BY Zenon DEF Loaded, ObjectOf, LBIdle
<1>3. OpenCounted
  <2>1. ASSUME NEW e \in Endpoints PROVE {r \in LBRequests : Connected(lbCall[r], e)} = {}
    BY Zenon DEF Connected, LBIdle
  <2>2. Cardinality({}) = 0
    <3>1. {} \in SUBSET LBRequests
      BY Zenon
    <3> QED
      BY Zenon, <3>1 DEF RequestsCount
  <2> QED
    BY Zenon, <2>1, <2>2 DEF OpenCounted
<1>4. ConnectionsCounted
  BY Zenon DEF ConnectionsCounted, Connections
<1> QED
  BY Zenon, <1>1, <1>2, <1>3, <1>4 DEF BalancerInv

(* What CreateStats keeps of the statistics' types, and what it creates.   *)
LEMMA Created ==
  ASSUME StatsType, NEW missing, CreateStats(missing)
  PROVE  /\ activeConns' \in [Endpoints -> Seq(Nat)]
         /\ statsOf' \in [Endpoints -> Nat]
         /\ \A e \in Endpoints :
              \/ /\ e \notin missing
                 /\ activeConns'[e] = activeConns[e] /\ statsOf'[e] = statsOf[e]
                 /\ e \in split' <=> e \in split
              \/ /\ e \in missing
                 /\ Len(activeConns'[e]) = Len(activeConns[e]) + 1
                 /\ statsOf'[e] = Len(activeConns[e]) + 1
                 /\ activeConns'[e][statsOf'[e]] = 0
                 /\ e \in split' <=> (e \in split \/ statsOf[e] # 0)
         /\ \A e \in Endpoints : statsOf'[e] =< Len(activeConns'[e])
<1> USE DEF StatsType, CreateStats
<1>1. \A e \in Endpoints : Append(activeConns[e], 0) \in Seq(Nat)
  OBVIOUS
<1>2. activeConns' \in [Endpoints -> Seq(Nat)]
  BY Zenon, <1>1
<1>3. statsOf' \in [Endpoints -> Nat]
  OBVIOUS
<1>4. ASSUME NEW e \in Endpoints, e \in missing
      PROVE  /\ Len(activeConns'[e]) = Len(activeConns[e]) + 1
             /\ statsOf'[e] = Len(activeConns[e]) + 1
             /\ activeConns'[e][statsOf'[e]] = 0
  BY <1>4
<1>5. \A e \in Endpoints : e \in split' <=> (e \in split \/ (e \in missing /\ statsOf[e] # 0))
  BY Zenon
<1>6. ASSUME NEW e \in Endpoints, e \notin missing
      PROVE  activeConns'[e] = activeConns[e] /\ statsOf'[e] = statsOf[e]
  BY Zenon, <1>6
<1>7. ASSUME NEW e \in Endpoints PROVE statsOf'[e] =< Len(activeConns'[e])
  BY <1>4, <1>6
<1> QED
  BY Zenon, <1>2, <1>3, <1>4, <1>5, <1>6, <1>7

(* A connection is counted in one object, of the request's endpoint.       *)
Recounted(q, e, i, n) ==
  IF q.endpoint # e \/ q.object # i THEN n
  ELSE IF q.then = "increment" THEN n + 1
  ELSE IF n =< 0 THEN n ELSE n - 1

(* A count changes the counter of one object.                              *)
LEMMA Counted ==
  ASSUME StatsType, Loaded, NEW r \in LBRequests,
         IncrementActiveConnections(r) \/ DecrementActiveConnections(r)
  PROVE  /\ activeConns' \in [Endpoints -> Seq(Nat)]
         /\ \A f \in Endpoints :
              /\ Len(activeConns'[f]) = Len(activeConns[f])
              /\ \A i \in 1 .. Len(activeConns[f]) :
                   activeConns'[f][i] = Recounted(lbCall[r], f, i, activeConns[f][i])
<1> DEFINE e == lbCall[r].endpoint
           o == lbCall[r].object
           n == Recounted(lbCall[r], e, o, activeConns[e][o])
<1>1. e \in Endpoints => o \in 1 .. Len(activeConns[e]) /\ n \in Nat
  <2>1. e \in Endpoints => o \in 1 .. Len(activeConns[e])
    BY Zenon DEF IncrementActiveConnections, DecrementActiveConnections, Loaded, ObjectOf
  <2>2. e \in Endpoints => activeConns[e][o] \in Nat
    BY SMTT(30), <2>1 DEF StatsType
  <2> QED
    BY SMTT(30), <2>1, <2>2 DEF Recounted
<1>2. activeConns' = [activeConns EXCEPT ![e][o] = n]
  BY Zenon DEF IncrementActiveConnections, DecrementActiveConnections, Recounted
<1> HIDE DEF n
<1>3. ASSUME NEW f \in Endpoints, f # e PROVE activeConns'[f] = activeConns[f]
  BY Zenon, <1>2, <1>3 DEF StatsType
<1>4. ASSUME e \in Endpoints
      PROVE  /\ activeConns'[e] \in Seq(Nat) /\ Len(activeConns'[e]) = Len(activeConns[e])
             /\ \A i \in 1 .. Len(activeConns[e]) :
                  activeConns'[e][i] = IF i = o THEN n ELSE activeConns[e][i]
  <2>1. activeConns'[e] = [activeConns[e] EXCEPT ![o] = n]
    BY Zenon, <1>2, <1>4 DEF StatsType
  <2>2. activeConns[e] \in Seq(Nat)
    BY Zenon, <1>4 DEF StatsType
  <2> HIDE DEF e, o
  <2> QED
    BY <1>1, <1>4, <2>1, <2>2
<1>5. activeConns' \in [Endpoints -> Seq(Nat)]
  <2>1. activeConns' = [f \in Endpoints |-> activeConns'[f]]
    BY Zenon, <1>2 DEF StatsType
  <2>2. \A f \in Endpoints : activeConns[f] \in Seq(Nat)
    BY Zenon DEF StatsType
  <2> HIDE DEF e
  <2> QED
    BY Zenon, <1>3, <1>4, <2>1, <2>2
<1>6. ASSUME NEW f \in Endpoints, NEW i \in 1 .. Len(activeConns[f])
      PROVE  activeConns'[f][i] = Recounted(lbCall[r], f, i, activeConns[f][i])
  <2>1. CASE f = e /\ i = o
    BY Zenon, <1>4, <2>1 DEF n
  <2>2. CASE f = e /\ i # o
    BY Zenon, <1>4, <2>2 DEF Recounted
  <2>3. CASE f # e
    BY Zenon, <1>3, <2>3 DEF Recounted
  <2> QED
    BY Zenon, <2>1, <2>2, <2>3
<1>7. ASSUME NEW f \in Endpoints PROVE Len(activeConns'[f]) = Len(activeConns[f])
  BY Zenon, <1>3, <1>4
<1> QED
  BY Zenon, <1>5, <1>6, <1>7

(* What an increment does to the counters.                                 *)
LEMMA Incremented ==
  ASSUME StatsType, Loaded, NEW r \in LBRequests, IncrementActiveConnections(r)
  PROVE  /\ activeConns' \in [Endpoints -> Seq(Nat)]
         /\ \A e \in Endpoints :
              /\ Len(activeConns'[e]) = Len(activeConns[e])
              /\ \A i \in 1 .. Len(activeConns[e]) :
                   activeConns'[e][i] = IF e = lbCall[r].endpoint /\ i = lbCall[r].object
                                        THEN activeConns[e][i] + 1 ELSE activeConns[e][i]
<1>1. lbCall[r].then = "increment"
  BY Zenon DEF IncrementActiveConnections
<1> QED
  BY <1>1, Counted DEF Recounted

(* What a decrement does to the counters.                                  *)
LEMMA Decremented ==
  ASSUME StatsType, Loaded, NEW r \in LBRequests, DecrementActiveConnections(r)
  PROVE  /\ activeConns' \in [Endpoints -> Seq(Nat)]
         /\ \A e \in Endpoints :
              /\ Len(activeConns'[e]) = Len(activeConns[e])
              /\ \A i \in 1 .. Len(activeConns[e]) :
                   activeConns'[e][i] = IF e = lbCall[r].endpoint /\ i = lbCall[r].object
                                        THEN IF activeConns[e][i] =< 0 THEN activeConns[e][i] ELSE activeConns[e][i] - 1
                                        ELSE activeConns[e][i]
<1>1. lbCall[r].then # "increment"
  BY Zenon DEF DecrementActiveConnections
<1> QED
  BY <1>1, Counted DEF Recounted

(* A request whose object is loaded keeps it when statistics are created.  *)
LEMMA LoadedKept ==
  ASSUME StatsType, Loaded, NEW missing, CreateStats(missing),
         NEW p \in LBRequests, NEW e \in Endpoints, ObjectOf(lbCall[p], e)
  PROVE  /\ lbCall[p].object \in 1 .. Len(activeConns'[e])
         /\ e \notin split' => statsOf'[e] = lbCall[p].object
<1>1. /\ lbCall[p].object \in 1 .. Len(activeConns[e]) /\ lbCall[p].object # 0
      /\ e \notin split => statsOf[e] = lbCall[p].object
      /\ Len(activeConns[e]) \in Nat
  BY DEF Loaded, StatsType, ObjectOf
<1>2. \/ /\ activeConns'[e] = activeConns[e] /\ statsOf'[e] = statsOf[e]
         /\ e \in split' <=> e \in split
      \/ /\ Len(activeConns'[e]) = Len(activeConns[e]) + 1
         /\ e \in split' <=> (e \in split \/ statsOf[e] # 0)
  BY Zenon, Created
<1> QED
  BY <1>1, <1>2

(* Every step keeps the statistics well formed.                            *)
LEMMA StatsTypeStep == StatsType /\ Loaded /\ [LBNext]_lbVars => StatsType'
<1> SUFFICES ASSUME StatsType, Loaded, [LBNext]_lbVars PROVE StatsType'
  BY Zenon
<1> USE DEF StatsType
<1>1. ASSUME NEW r \in LBRequests, NEW k \in Clients, SelectEndpoint(r, k) PROVE StatsType'
  BY Zenon, <1>1 DEF SelectEndpoint, Shape
<1>2. ASSUME NEW r \in LBRequests, StoreSelection(r) PROVE StatsType'
  BY ZenonT(60), <1>2, Created DEF StoreSelection, Shape
<1>3. ASSUME NEW r \in LBRequests, getEndpointStats(r) PROVE StatsType'
  BY Zenon, <1>3, Created DEF getEndpointStats, Shape
<1>4. ASSUME NEW r \in LBRequests, updateRequestStats(r) PROVE StatsType'
  BY Zenon, <1>4 DEF updateRequestStats, Shape
<1>5. ASSUME NEW r \in LBRequests, NEW then, LoadStats(r, then) PROVE StatsType'
  BY Zenon, <1>5 DEF LoadStats, Shape
<1>6. ASSUME NEW r \in LBRequests, IncrementActiveConnections(r) PROVE StatsType'
  BY ZenonT(60), <1>6, Incremented DEF IncrementActiveConnections, Shape
<1>7. ASSUME NEW r \in LBRequests, DecrementActiveConnections(r) PROVE StatsType'
  BY Zenon, <1>7, Decremented DEF DecrementActiveConnections, Shape, LBIdle
<1>8. ASSUME NEW r \in LBRequests, RecordFailure(r) PROVE StatsType'
  <2>1. \A e \in Endpoints : statsOf'[e] \in Nat /\ statsOf'[e] =< Len(activeConns[e])
    BY <1>8 DEF RecordFailure, Loaded, ObjectOf
  <2>2. statsOf' \in [Endpoints -> Nat]
    BY Zenon, <1>8, <2>1 DEF RecordFailure
  <2>3. \A p \in LBRequests : Shape(lbCall'[p])
    BY Zenon, <1>8 DEF RecordFailure, Shape, LBIdle
  <2> QED
    BY Zenon, <1>8, <2>1, <2>2, <2>3 DEF RecordFailure
<1>9. ASSUME NEW k \in Clients, SessionExpires(k) PROVE StatsType'
  BY Zenon, <1>9 DEF SessionExpires
<1>10. ASSUME NEW e \in Endpoints, EndpointRecovers(e) PROVE StatsType'
  BY Zenon, <1>10 DEF EndpointRecovers
<1>11. CASE UNCHANGED lbVars
  BY Zenon, <1>11 DEF lbVars
<1> QED
  BY Zenon, <1>1, <1>2, <1>3, <1>4, <1>5, <1>6, <1>7, <1>8, <1>9, <1>10, <1>11 DEF LBNext

(* Every step keeps a loaded object the one of its endpoint.               *)
LEMMA LoadedStep == StatsType /\ Loaded /\ [LBNext]_lbVars => Loaded'
<1> SUFFICES ASSUME StatsType, Loaded, [LBNext]_lbVars PROVE Loaded'
  BY Zenon
<1> USE DEF StatsType, Loaded, ObjectOf
<1>1. ASSUME NEW r \in LBRequests, NEW k \in Clients, SelectEndpoint(r, k) PROVE Loaded'
  <2>1. lbCall'[r].step # "stats"
    BY <1>1 DEF SelectEndpoint, Shape
  <2> QED
    BY Zenon, <1>1, <2>1 DEF SelectEndpoint
<1>2. ASSUME NEW r \in LBRequests, StoreSelection(r) PROVE Loaded'
  <2>1. lbCall'[r].step # "stats" /\ \A p \in LBRequests \ {r} : lbCall'[p] = lbCall[p]
    BY <1>2 DEF StoreSelection, Shape
  <2> HIDE DEF StatsType, Loaded
  <2>2. ASSUME NEW p \in LBRequests, NEW e \in Endpoints, ObjectOf(lbCall'[p], e)
        PROVE  /\ lbCall'[p].object \in 1 .. Len(activeConns'[e])
               /\ e \notin split' => statsOf'[e] = lbCall'[p].object
    <3>1. lbCall'[p] = lbCall[p] /\ ObjectOf(lbCall[p], e)
      BY Zenon, <2>1, <2>2
    <3>2. CreateStats(lbCall[r].missing)
      BY Zenon, <1>2 DEF StoreSelection
    <3> HIDE DEF ObjectOf
    <3> QED
      BY Zenon, <3>1, <3>2, LoadedKept
  <2> QED
    BY Zenon, <2>2 DEF Loaded
<1>3. ASSUME NEW r \in LBRequests, getEndpointStats(r) PROVE Loaded'
  <2>1. /\ lbCall'[r].object = statsOf'[lbCall[r].endpoint] /\ lbCall'[r].endpoint = lbCall[r].endpoint
        /\ \A p \in LBRequests \ {r} : lbCall'[p] = lbCall[p]
    BY <1>3 DEF getEndpointStats, Shape
  <2>2. ASSUME NEW e \in Endpoints PROVE statsOf'[e] \in Nat /\ statsOf'[e] =< Len(activeConns'[e])
    BY Zenon, <1>3, Created DEF getEndpointStats
  <2>3. ASSUME NEW p \in LBRequests \ {r}, NEW e \in Endpoints, ObjectOf(lbCall'[p], e)
        PROVE  /\ lbCall'[p].object \in 1 .. Len(activeConns'[e])
               /\ e \notin split' => statsOf'[e] = lbCall'[p].object
    <3>1. lbCall'[p] = lbCall[p] /\ ObjectOf(lbCall[p], e)
      BY Zenon, <2>1, <2>3
    <3>2. PICK missing : CreateStats(missing)
      BY Zenon, <1>3 DEF getEndpointStats
    <3> HIDE DEF ObjectOf, StatsType, Loaded
    <3> QED
      BY Zenon, <3>1, <3>2, LoadedKept
  <2>4. ASSUME NEW e \in Endpoints, ObjectOf(lbCall'[r], e)
        PROVE  /\ lbCall'[r].object \in 1 .. Len(activeConns'[e])
               /\ e \notin split' => statsOf'[e] = lbCall'[r].object
    BY <2>1, <2>2, <2>4
  <2> QED
    BY Zenon, <2>3, <2>4
<1>4. ASSUME NEW r \in LBRequests, updateRequestStats(r) PROVE Loaded'
  BY <1>4 DEF updateRequestStats, Shape
<1>5. ASSUME NEW r \in LBRequests, NEW then, LoadStats(r, then) PROVE Loaded'
  <2>1. /\ lbCall'[r].object = statsOf[lbCall[r].endpoint] /\ lbCall'[r].endpoint = lbCall[r].endpoint
        /\ \A p \in LBRequests \ {r} : lbCall'[p] = lbCall[p]
    BY <1>5 DEF LoadStats, Shape
  <2> QED
    BY <1>5, <2>1 DEF LoadStats
<1>6. ASSUME NEW r \in LBRequests, IncrementActiveConnections(r) PROVE Loaded'
  <2>1. lbCall'[r].step # "stats" /\ \A p \in LBRequests \ {r} : lbCall'[p] = lbCall[p]
    BY <1>6 DEF IncrementActiveConnections, Shape
  <2> QED
    BY ZenonT(60), <1>6, <2>1, Incremented DEF IncrementActiveConnections
<1>7. ASSUME NEW r \in LBRequests, DecrementActiveConnections(r) PROVE Loaded'
  <2>1. lbCall'[r].step # "stats" /\ \A p \in LBRequests \ {r} : lbCall'[p] = lbCall[p]
    BY Zenon, <1>7 DEF DecrementActiveConnections, LBIdle
  <2> QED
    BY ZenonT(60), <1>7, <2>1, Decremented DEF DecrementActiveConnections
<1>8. ASSUME NEW r \in LBRequests, RecordFailure(r) PROVE Loaded'
  <2>1. lbCall'[r].step # "stats" /\ \A p \in LBRequests \ {r} : lbCall'[p] = lbCall[p]
    BY Zenon, <1>8 DEF RecordFailure, LBIdle
  <2>2. \A e \in Endpoints : e \notin split => statsOf'[e] = statsOf[e]
    BY Zenon, <1>8 DEF RecordFailure
  <2> QED
    BY Zenon, <1>8, <2>1, <2>2 DEF RecordFailure
<1>9. ASSUME NEW k \in Clients, SessionExpires(k) PROVE Loaded'
  BY Zenon, <1>9 DEF SessionExpires
<1>10. ASSUME NEW e \in Endpoints, EndpointRecovers(e) PROVE Loaded'
  BY Zenon, <1>10 DEF EndpointRecovers
<1>11. CASE UNCHANGED lbVars
  BY Zenon, <1>11 DEF lbVars
<1> QED
  BY Zenon, <1>1, <1>2, <1>3, <1>4, <1>5, <1>6, <1>7, <1>8, <1>9, <1>10, <1>11 DEF LBNext

(* A step that opens and closes no connection leaves the count.            *)
LEMMA SameConnections ==
  ASSUME OpenCounted, open' = open,
         \A p \in LBRequests, e \in Endpoints : Connected(lbCall[p], e)' <=> Connected(lbCall[p], e)
  PROVE  OpenCounted'
<1>1. ASSUME NEW e \in Endpoints
      PROVE  {p \in LBRequests : Connected(lbCall[p], e)}' = {p \in LBRequests : Connected(lbCall[p], e)}
  BY Zenon
<1> QED
  BY Zenon, <1>1 DEF OpenCounted

(* Every step keeps the requests with a connection counted.                *)
LEMMA OpenStep ==
  ASSUME RequestsCount, StatsType, OpenCounted, [LBNext]_lbVars
  PROVE  OpenCounted'
<1> USE DEF StatsType
<1>1. ASSUME NEW r \in LBRequests, NEW k \in Clients, SelectEndpoint(r, k) PROVE OpenCounted'
  BY <1>1, SameConnections DEF SelectEndpoint, Connected, Shape
<1>2. ASSUME NEW r \in LBRequests, StoreSelection(r) PROVE OpenCounted'
  BY <1>2, SameConnections DEF StoreSelection, Connected, Shape
<1>3. ASSUME NEW r \in LBRequests, getEndpointStats(r) PROVE OpenCounted'
  BY <1>3, SameConnections DEF getEndpointStats, Connected, Shape
<1>4. ASSUME NEW r \in LBRequests, updateRequestStats(r) PROVE OpenCounted'
  BY <1>4, SameConnections DEF updateRequestStats, Connected, Shape
<1>5. ASSUME NEW r \in LBRequests, NEW then, LoadStats(r, then) PROVE OpenCounted'
  BY <1>5, SameConnections DEF LoadStats, Connected, Shape
<1>6. ASSUME NEW r \in LBRequests, IncrementActiveConnections(r) PROVE OpenCounted'
  <2> SUFFICES ASSUME NEW e \in Endpoints
               PROVE  open'[e] = Cardinality({p \in LBRequests : Connected(lbCall'[p], e)})
    BY Zenon DEF OpenCounted
  <2> DEFINE C == {p \in LBRequests : Connected(lbCall[p], e)}
             D == {p \in LBRequests : Connected(lbCall'[p], e)}
  <2>1. open[e] = Cardinality(C) /\ C \in SUBSET LBRequests /\ D \in SUBSET LBRequests
    BY Zenon DEF OpenCounted
  <2>2. CASE e = lbCall[r].endpoint
    <3>1. r \notin C /\ D = C \cup {r}
      BY Zenon, <1>6, <2>2 DEF IncrementActiveConnections, Connected, Shape
    <3>2. Cardinality(D) = Cardinality(C) + 1
      <4> HIDE DEF C, D
      <4> QED
        BY Zenon, <2>1, <3>1 DEF RequestsCount
    <3>3. open'[e] = open[e] + 1
      BY Zenon, <1>6, <2>2 DEF IncrementActiveConnections
    <3> QED
      BY Zenon, <2>1, <3>2, <3>3
  <2>3. CASE e # lbCall[r].endpoint
    <3>1. D = C
      BY <1>6, <2>3 DEF IncrementActiveConnections, Connected, Shape
    <3>2. open'[e] = open[e]
      BY Zenon, <1>6, <2>3 DEF IncrementActiveConnections
    <3> QED
      BY Zenon, <2>1, <3>1, <3>2
  <2> QED
    BY Zenon, <2>2, <2>3
<1>7. ASSUME NEW r \in LBRequests, DecrementActiveConnections(r) PROVE OpenCounted'
  <2> SUFFICES ASSUME NEW e \in Endpoints
               PROVE  open'[e] = Cardinality({p \in LBRequests : Connected(lbCall'[p], e)})
    BY Zenon DEF OpenCounted
  <2> DEFINE C == {p \in LBRequests : Connected(lbCall[p], e)}
             D == {p \in LBRequests : Connected(lbCall'[p], e)}
  <2>1. open[e] = Cardinality(C) /\ C \in SUBSET LBRequests /\ D \in SUBSET LBRequests
    BY Zenon DEF OpenCounted
  <2>2. CASE e = lbCall[r].endpoint
    <3>1. r \in C /\ r \notin D /\ C = D \cup {r}
      BY Zenon, <1>7, <2>2 DEF DecrementActiveConnections, Connected, LBIdle
    <3>2. Cardinality(D) = Cardinality(C) - 1
      <4> HIDE DEF C, D
      <4>1. Cardinality(D) \in Nat /\ Cardinality(C) = Cardinality(D) + 1
        BY Zenon, <2>1, <3>1 DEF RequestsCount
      <4> QED
        BY <4>1
    <3>3. open'[e] = open[e] - 1
      BY Zenon, <1>7, <2>2 DEF DecrementActiveConnections
    <3> QED
      BY Zenon, <2>1, <3>2, <3>3
  <2>3. CASE e # lbCall[r].endpoint
    <3>1. D = C
      BY Zenon, <1>7, <2>3 DEF DecrementActiveConnections, Connected, LBIdle
    <3>2. open'[e] = open[e]
      BY Zenon, <1>7, <2>3 DEF DecrementActiveConnections
    <3> QED
      BY Zenon, <2>1, <3>1, <3>2
  <2> QED
    BY Zenon, <2>2, <2>3
<1>8. ASSUME NEW r \in LBRequests, RecordFailure(r) PROVE OpenCounted'
  BY Zenon, <1>8, SameConnections DEF RecordFailure, Connected, LBIdle
<1>9. ASSUME NEW k \in Clients, SessionExpires(k) PROVE OpenCounted'
  BY Zenon, <1>9, SameConnections DEF SessionExpires
<1>10. ASSUME NEW e \in Endpoints, EndpointRecovers(e) PROVE OpenCounted'
  BY Zenon, <1>10, SameConnections DEF EndpointRecovers
<1>11. CASE UNCHANGED lbVars
  BY Zenon, <1>11, SameConnections DEF lbVars
<1> QED
  BY Zenon, <1>1, <1>2, <1>3, <1>4, <1>5, <1>6, <1>7, <1>8, <1>9, <1>10, <1>11 DEF LBNext

(* Every step keeps the counter equal to the open connections.             *)
LEMMA CountedStep ==
  ASSUME RequestsCount, StatsType, Loaded, OpenCounted, ConnectionsCounted, [LBNext]_lbVars
  PROVE  ConnectionsCounted'
<1> SUFFICES ASSUME NEW e \in Endpoints
             PROVE  IF e \in split' THEN Connections(e)' >= 0 ELSE Connections(e)' = open'[e]
  BY Zenon DEF ConnectionsCounted
<1>1. IF e \in split THEN Connections(e) >= 0 ELSE Connections(e) = open[e]
  BY Zenon DEF ConnectionsCounted
<1>2. ASSUME UNCHANGED <<statsOf, activeConns, open, split>>
      PROVE  IF e \in split' THEN Connections(e)' >= 0 ELSE Connections(e)' = open'[e]
  BY Zenon, <1>1, <1>2 DEF Connections
<1>3. ASSUME NEW missing, CreateStats(missing), open' = open
      PROVE  IF e \in split' THEN Connections(e)' >= 0 ELSE Connections(e)' = open'[e]
  <2>1. CASE activeConns'[e] = activeConns[e] /\ statsOf'[e] = statsOf[e] /\ (e \in split' <=> e \in split)
    BY Zenon, <1>1, <1>3, <2>1 DEF Connections
  <2>2. CASE statsOf'[e] # 0 /\ activeConns'[e][statsOf'[e]] = 0 /\ (e \in split' <=> (e \in split \/ statsOf[e] # 0))
    BY <1>1, <1>3, <2>2 DEF Connections
  <2>3. Len(activeConns[e]) + 1 # 0
    BY DEF StatsType
  <2> QED
    BY Zenon, <1>3, <2>1, <2>2, <2>3, Created
<1>4. ASSUME NEW r \in LBRequests, IncrementActiveConnections(r)
      PROVE  IF e \in split' THEN Connections(e)' >= 0 ELSE Connections(e)' = open'[e]
  <2>1. /\ split' = split /\ statsOf' = statsOf
        /\ open'[e] = IF e = lbCall[r].endpoint THEN open[e] + 1 ELSE open[e]
    BY Zenon, <1>4 DEF IncrementActiveConnections, StatsType
  <2>2. e = lbCall[r].endpoint => ObjectOf(lbCall[r], e)
    BY Zenon, <1>4 DEF IncrementActiveConnections, ObjectOf
  <2>3. ASSUME statsOf[e] # 0
        PROVE  activeConns'[e][statsOf[e]] =
                 IF e = lbCall[r].endpoint /\ statsOf[e] = lbCall[r].object
                 THEN activeConns[e][statsOf[e]] + 1 ELSE activeConns[e][statsOf[e]]
    <3>1. statsOf[e] \in 1 .. Len(activeConns[e])
      BY <2>3 DEF StatsType
    <3> QED
      BY Zenon, <1>4, <3>1, Incremented
  <2>4. /\ activeConns[e] \in Seq(Nat) /\ statsOf[e] \in 0 .. Len(activeConns[e])
        /\ e = lbCall[r].endpoint /\ e \notin split => statsOf[e] # 0 /\ statsOf[e] = lbCall[r].object
    BY <1>4, <2>2 DEF Loaded, StatsType, ObjectOf
  <2> QED
    BY <1>1, <2>1, <2>3, <2>4 DEF Connections
<1>5. ASSUME NEW r \in LBRequests, DecrementActiveConnections(r)
      PROVE  IF e \in split' THEN Connections(e)' >= 0 ELSE Connections(e)' = open'[e]
  <2>1. /\ split' = split /\ statsOf' = statsOf
        /\ open'[e] = IF e = lbCall[r].endpoint THEN open[e] - 1 ELSE open[e]
    BY Zenon, <1>5 DEF DecrementActiveConnections, StatsType
  <2>2. e = lbCall[r].endpoint => ObjectOf(lbCall[r], e)
    BY Zenon, <1>5 DEF DecrementActiveConnections, ObjectOf
  <2>3. e = lbCall[r].endpoint => open[e] \in Nat \ {0}
    <3> DEFINE C == {p \in LBRequests : Connected(lbCall[p], e)}
    <3>1. open[e] = Cardinality(C) /\ C \in SUBSET LBRequests
      BY Zenon DEF OpenCounted
    <3>2. e = lbCall[r].endpoint => r \in C
      BY Zenon, <1>5 DEF DecrementActiveConnections, Connected
    <3> HIDE DEF C
    <3> QED
      BY Zenon, <3>1, <3>2 DEF RequestsCount
  <2>4. ASSUME statsOf[e] # 0
        PROVE  activeConns'[e][statsOf[e]] =
                 IF e = lbCall[r].endpoint /\ statsOf[e] = lbCall[r].object
                 THEN IF activeConns[e][statsOf[e]] =< 0 THEN activeConns[e][statsOf[e]]
                 ELSE activeConns[e][statsOf[e]] - 1 ELSE activeConns[e][statsOf[e]]
    <3>1. statsOf[e] \in 1 .. Len(activeConns[e])
      BY <2>4 DEF StatsType
    <3> QED
      BY Zenon, <1>5, <3>1, Decremented
  <2>5. /\ activeConns[e] \in Seq(Nat) /\ statsOf[e] \in 0 .. Len(activeConns[e])
        /\ e = lbCall[r].endpoint /\ e \notin split => statsOf[e] # 0 /\ statsOf[e] = lbCall[r].object
    BY <1>5, <2>2 DEF Loaded, StatsType, ObjectOf
  <2> QED
    BY <1>1, <2>1, <2>3, <2>4, <2>5 DEF Connections
<1>6. ASSUME NEW r \in LBRequests, RecordFailure(r)
      PROVE  IF e \in split' THEN Connections(e)' >= 0 ELSE Connections(e)' = open'[e]
  <2>1. UNCHANGED <<activeConns, open, split>>
    BY Zenon, <1>6 DEF RecordFailure
  <2>2. CASE e # lbCall[r].endpoint
    BY Zenon, <1>1, <1>6, <2>1, <2>2 DEF RecordFailure, Connections, StatsType
  <2>3. CASE e = lbCall[r].endpoint
    <3>1. ObjectOf(lbCall[r], e) /\ statsOf'[e] = lbCall[r].object
      BY Zenon, <1>6, <2>3 DEF RecordFailure, ObjectOf, StatsType
    <3> QED
      BY <1>1, <2>1, <3>1 DEF Connections, Loaded, StatsType
  <2> QED
    BY Zenon, <2>2, <2>3
<1> QED
  BY Zenon, <1>2, <1>3, <1>4, <1>5, <1>6
     DEF LBNext, SelectEndpoint, StoreSelection, getEndpointStats, updateRequestStats, LoadStats,
         SessionExpires, EndpointRecovers, lbVars

-----------------------------------------------------------------------------
INSTANCE FiniteSetTheorems

(* Sets of requests are finite, and counted one at a time.                 *)
LEMMA CountedRequests == RequestsCount
<1> SUFFICES ASSUME NEW S \in SUBSET LBRequests
             PROVE  /\ Cardinality(S) \in Nat /\ (S = {} <=> Cardinality(S) = 0)
                    /\ \A r \in LBRequests \ S : Cardinality(S \cup {r}) = Cardinality(S) + 1
  BY Zenon DEF RequestsCount
<1>1. IsFiniteSet(S)
  BY Zenon, LBAssumption, FS_Subset
<1> QED
  BY Zenon, <1>1, FS_CardinalityType, FS_EmptySet, FS_AddElement

(* The active connections that the balancer counts for an endpoint are     *)
(* those open on it, for any number of requests that load, create and      *)
(* count in the statistics at once, unless two of them created its         *)
(* statistics; the count never falls below zero (getEndpointStats,         *)
(* IncrementActiveConnections, DecrementActiveConnections, RecordFailure). *)
THEOREM ConnectionsStayCounted == LBSpec => []ConnectionsCounted
<1>1. BalancerInv /\ [LBNext]_lbVars => BalancerInv'
  BY Zenon, CountedRequests, StatsTypeStep, LoadedStep, OpenStep, CountedStep DEF BalancerInv
<1>2. BalancerInv => ConnectionsCounted
  BY Zenon DEF BalancerInv
<1>3. LBInit => BalancerInv
  BY Zenon, CountedRequests, BalancerInit
<1> QED
  BY <1>1, <1>2, <1>3, PTL DEF LBSpec

-----------------------------------------------------------------------------
(* The service registry.                                                   *)

Maps ==
  /\ services = [s \in ServiceNames |-> services[s]]
  /\ endpoints = [s \in ServiceNames |-> endpoints[s]]
  /\ stored = [s \in ServiceNames |-> stored[s]]
  /\ regCall = [c \in RegistryCalls |-> regCall[c]]

(* A service, a record and a call that is about to write one have an       *)
(* address; a call is about one of the services.                           *)
Addressed ==
  /\ \A s \in ServiceNames : services[s] # NoService => services[s].vip # -1
  /\ \A s \in ServiceNames :
       /\ stored[s] # NoRecord => stored[s].vip # -1
       /\ stored[s] = [vip |-> stored[s].vip, endpoints |-> stored[s].endpoints, deleted |-> stored[s].deleted]
  /\ \A c \in RegistryCalls :
       /\ regCall[c].step # "idle" => regCall[c].name \in ServiceNames
       /\ regCall[c].step = "persist" => regCall[c].service.vip # -1
       /\ regCall[c].step \in {"idle", "persist", "mark"}

(* That Allocate hands out no address in use rests on the pool knowing     *)
(* every address in use that is not unpooled.                              *)
Pooled ==
  \A s \in ServiceNames :
    services[s] # NoService => services[s].vip \in ipPool.allocated \cup unpooled

RegistryInv == Maps /\ Addressed /\ Pooled /\ VirtualIPsDistinct /\ RestartFindsMemory

-----------------------------------------------------------------------------
(* A non-empty set of natural numbers has a least element.                 *)
LEMMA LeastElement ==
  ASSUME NEW T \in SUBSET Nat, T # {}
  PROVE  \E j \in T : \A k \in T : j =< k
<1> DEFINE Less == {ss \in Nat \X Nat : ss[1] < ss[2]}
<1>1. IsWellFoundedOn(Less, Nat)
  BY Zenon, NatLessThanWellFounded DEF OpToRel
<1>2. \E j \in T : \A k \in T : ~(<<k, j>> \in Less)
  <2> HIDE DEF Less
  <2> QED
    BY <1>1, WFMin, Zenon
<1>3. PICK j \in T : \A k \in T : ~(<<k, j>> \in Less)
  BY Zenon, <1>2
<1>4. ASSUME NEW k \in T PROVE j =< k
  <2>1. k \in Nat /\ j \in Nat
    BY Zenon
  <2>2. <<k, j>> \notin Less
    BY Zenon, <1>3
  <2>3. ~(k < j)
    BY Zenon, <2>1, <2>2
  <2> QED
    BY <2>1, <2>3
<1> QED
  BY Zenon, <1>4

(* Allocate returns an address that was free and is allocated now.         *)
LEMMA AllocateFree ==
  ASSUME NEW pool, Allocate(pool).ip # -1
  PROVE  /\ Allocate(pool).ip \notin pool.allocated
         /\ Allocate(pool).pool.allocated = pool.allocated \cup {Allocate(pool).ip}
<1> DEFINE free == {i \in 0 .. maxHosts - 1 : Wrapped(pool.nextOffset + i) \notin pool.allocated}
           least == CHOOSE j \in free : \A k \in free : j =< k
           offset == Wrapped(pool.nextOffset + least)
<1>1. free # {}
  BY Zenon DEF Allocate
<1>2. free \in SUBSET Nat
  OBVIOUS
<1>3. \E j \in free : \A k \in free : j =< k
  BY Zenon, <1>1, <1>2, LeastElement
<1>4. least \in free
  BY Zenon, <1>3
<1>5. offset \notin pool.allocated
  BY Zenon, <1>4
<1>6. /\ Allocate(pool).ip = offset
      /\ Allocate(pool).pool.allocated = pool.allocated \cup {offset}
  BY Zenon, <1>1 DEF Allocate
<1> QED
  BY Zenon, <1>5, <1>6

(* The invariant holds in an empty registry.                               *)
LEMMA RegistryInitInv == RegistryInit => RegistryInv
<1> SUFFICES ASSUME RegistryInit PROVE RegistryInv
  BY Zenon
<1> USE DEF RegistryInit
<1>1. Maps
  BY Zenon DEF Maps
<1>2. Addressed
  BY Zenon DEF Addressed, NoRecord, NoCall
<1>3. Pooled /\ VirtualIPsDistinct /\ RestartFindsMemory
  BY Zenon DEF Pooled, VirtualIPsDistinct, RestartFindsMemory, Live
<1> QED
  BY Zenon, <1>1, <1>2, <1>3 DEF RegistryInv

(* Every step keeps the maps functions of the services and the calls.      *)
LEMMA MapsStep == Maps /\ [RegistryNext]_registryVars => Maps'
<1> SUFFICES ASSUME Maps, [RegistryNext]_registryVars PROVE Maps'
  BY Zenon
<1> USE DEF Maps
<1>1. ASSUME NEW c \in RegistryCalls, NEW s \in ServiceNames, RegisterService(c, s) PROVE Maps'
  BY Zenon, <1>1 DEF RegisterService, Goes
<1>2. ASSUME NEW c \in RegistryCalls, NEW s \in ServiceNames, DeregisterService(c, s) PROVE Maps'
  BY Zenon, <1>2 DEF DeregisterService, Goes
<1>3. ASSUME NEW c \in RegistryCalls, NEW s \in ServiceNames, NEW changed, EndpointCall(c, s, changed)
      PROVE  Maps'
  BY Zenon, <1>3 DEF EndpointCall, GetService, Goes
<1>4. ASSUME NEW c \in RegistryCalls, persistService(c) \/ markServiceDeleted(c) \/ StoreFails(c) PROVE Maps'
  BY Zenon, <1>4 DEF persistService, markServiceDeleted, StoreFails
<1>5. ASSUME NEW s \in ServiceNames, NEW id \in EndpointIds, PurgeService(s) \/ RecordFailureInMemory(s, id)
      PROVE  Maps'
  BY Zenon, <1>5 DEF PurgeService, RecordFailureInMemory
<1>6. ASSUME NEW s \in ServiceNames, PurgeService(s) PROVE Maps'
  BY Zenon, <1>6 DEF PurgeService
<1>7. CASE loadFromRAFT
  BY Zenon, <1>7 DEF loadFromRAFT
<1>8. CASE UNCHANGED registryVars
  BY Zenon, <1>8 DEF registryVars
<1> QED
  BY Zenon, <1>1, <1>2, <1>3, <1>4, <1>5, <1>6, <1>7, <1>8
     DEF RegistryNext, RegisterEndpoint, DeregisterEndpoint, UpdateEndpointHealth

(* Every step keeps an address with every service and record.              *)
LEMMA AddressedStep == Maps /\ Addressed /\ [RegistryNext]_registryVars => Addressed'
<1> SUFFICES ASSUME Maps, Addressed, [RegistryNext]_registryVars PROVE Addressed'
  BY Zenon
<1> USE DEF Maps, Addressed
<1>1. ASSUME NEW c \in RegistryCalls, NEW s \in ServiceNames, RegisterService(c, s) PROVE Addressed'
  <2>1. ASSUME NEW vip, vip # -1,
               services' = [services EXCEPT ![s] = [vip |-> vip, version |-> regCount.registrations + 1]],
               Goes(c, "persist", s, services'[s]), UNCHANGED stored
        PROVE  Addressed'
    BY Zenon, <2>1 DEF Goes
  <2>2. CASE UNCHANGED <<services, stored, regCall>>
    BY Zenon, <2>2
  <2> QED
    BY Zenon, <1>1, <2>1, <2>2 DEF RegisterService
<1>2. ASSUME NEW c \in RegistryCalls, NEW s \in ServiceNames, DeregisterService(c, s) PROVE Addressed'
  BY Zenon, <1>2 DEF DeregisterService, Goes
<1>3. ASSUME NEW c \in RegistryCalls, NEW s \in ServiceNames, NEW changed, EndpointCall(c, s, changed)
      PROVE  Addressed'
  BY <1>3 DEF EndpointCall, GetService, Goes
<1>4. ASSUME NEW c \in RegistryCalls, persistService(c) PROVE Addressed'
  BY Zenon, <1>4 DEF persistService, NoCall
<1>5. ASSUME NEW c \in RegistryCalls, markServiceDeleted(c) PROVE Addressed'
  <2> DEFINE n == regCall[c].name
  <2>1. n \in ServiceNames
    BY Zenon, <1>5 DEF markServiceDeleted
  <2>2. \A t \in ServiceNames :
          \/ stored'[t] = stored[t]
          \/ stored[t] # NoRecord /\ stored'[t] = [stored[t] EXCEPT !.deleted = TRUE]
    BY Zenon, <1>5, <2>1 DEF markServiceDeleted
  <2>3. ASSUME NEW t \in ServiceNames
        PROVE  /\ stored'[t] # NoRecord => stored'[t].vip # -1
               /\ stored'[t] = [vip |-> stored'[t].vip, endpoints |-> stored'[t].endpoints,
                                deleted |-> stored'[t].deleted]
    <3>1. CASE stored'[t] = stored[t]
      BY Zenon, <3>1
    <3>2. CASE stored[t] # NoRecord /\ stored'[t] = [stored[t] EXCEPT !.deleted = TRUE]
      <4>1. stored'[t] = [vip |-> stored[t].vip, endpoints |-> stored[t].endpoints, deleted |-> TRUE]
        BY Zenon, <3>2
      <4> QED
        BY Zenon, <3>2, <4>1
    <3> QED
      BY Zenon, <2>2, <3>1, <3>2
  <2>4. /\ services' = services
        /\ regCall' = [regCall EXCEPT ![c] = NoCall]
    BY Zenon, <1>5 DEF markServiceDeleted
  <2> QED
    BY Zenon, <2>3, <2>4 DEF NoCall
<1>6. ASSUME NEW c \in RegistryCalls, StoreFails(c) PROVE Addressed'
  BY Zenon, <1>6 DEF StoreFails, NoCall
<1>7. ASSUME NEW s \in ServiceNames, PurgeService(s) PROVE Addressed'
  BY Zenon, <1>7 DEF PurgeService, NoRecord
<1>8. ASSUME NEW s \in ServiceNames, NEW id \in EndpointIds, RecordFailureInMemory(s, id) PROVE Addressed'
  BY Zenon, <1>8 DEF RecordFailureInMemory
<1>9. CASE loadFromRAFT
  BY Zenon, <1>9 DEF loadFromRAFT, Live, NoCall
<1>10. CASE UNCHANGED registryVars
  BY Zenon, <1>10 DEF registryVars
<1> QED
  BY Zenon, <1>1, <1>2, <1>3, <1>4, <1>5, <1>6, <1>7, <1>8, <1>9, <1>10
     DEF RegistryNext, RegisterEndpoint, DeregisterEndpoint, UpdateEndpointHealth

(* Every step keeps the pool aware of the addresses, and these distinct.   *)
LEMMA DistinctStep ==
  Maps /\ Addressed /\ Pooled /\ VirtualIPsDistinct /\ [RegistryNext]_registryVars =>
    Pooled' /\ VirtualIPsDistinct'
<1> SUFFICES ASSUME Maps, Addressed, Pooled, VirtualIPsDistinct, [RegistryNext]_registryVars
             PROVE  Pooled' /\ VirtualIPsDistinct'
  BY Zenon
<1> USE DEF Maps, Pooled, VirtualIPsDistinct
<1>1. ASSUME NEW c \in RegistryCalls, NEW s \in ServiceNames, RegisterService(c, s)
      PROVE  Pooled' /\ VirtualIPsDistinct'
  <2>1. CASE /\ Allocate(ipPool).ip # -1
             /\ services' = [services EXCEPT ![s] = [vip |-> Allocate(ipPool).ip,
                                                     version |-> regCount.registrations + 1]]
             /\ ipPool' = Allocate(ipPool).pool
             /\ UNCHANGED unpooled
    <3>1. /\ Allocate(ipPool).ip \notin ipPool.allocated
          /\ ipPool'.allocated = ipPool.allocated \cup {Allocate(ipPool).ip}
      BY Zenon, <2>1, AllocateFree
    <3> QED
      BY <2>1, <3>1 DEF NoService, Addressed
  <2>2. CASE /\ stored[s].vip # -1
             /\ services' = [services EXCEPT ![s] = [vip |-> stored[s].vip,
                                                     version |-> regCount.registrations + 1]]
             /\ unpooled' = IF services[s].vip = stored[s].vip THEN unpooled
                            ELSE unpooled \cup {stored[s].vip}
             /\ UNCHANGED ipPool
    BY <2>2 DEF NoService, Addressed
  <2>3. CASE UNCHANGED <<services, ipPool, regCall, unpooled>>
    BY Zenon, <2>3
  <2> QED
    BY Zenon, <1>1, <2>1, <2>2, <2>3 DEF RegisterService
<1>2. ASSUME NEW c \in RegistryCalls, NEW s \in ServiceNames, DeregisterService(c, s)
      PROVE  Pooled' /\ VirtualIPsDistinct'
  <2>1. ipPool'.allocated = IF services[s] = NoService THEN ipPool.allocated
                            ELSE ipPool.allocated \ {services[s].vip}
    BY <1>2 DEF DeregisterService, Release
  <2>2. /\ services' = [services EXCEPT ![s] = NoService]
        /\ unpooled' = unpooled
    BY Zenon, <1>2 DEF DeregisterService
  <2> QED
    BY Zenon, <2>1, <2>2 DEF NoService, Addressed
<1>3. ASSUME NEW c \in RegistryCalls, NEW s \in ServiceNames, NEW changed, EndpointCall(c, s, changed)
      PROVE  Pooled' /\ VirtualIPsDistinct'
  BY Zenon, <1>3 DEF EndpointCall
<1>4. ASSUME NEW c \in RegistryCalls, persistService(c) \/ markServiceDeleted(c) \/ StoreFails(c)
      PROVE  Pooled' /\ VirtualIPsDistinct'
  BY Zenon, <1>4 DEF persistService, markServiceDeleted, StoreFails
<1>5. ASSUME NEW s \in ServiceNames, PurgeService(s) PROVE Pooled' /\ VirtualIPsDistinct'
  BY Zenon, <1>5 DEF PurgeService
<1>6. ASSUME NEW s \in ServiceNames, NEW id \in EndpointIds, RecordFailureInMemory(s, id)
      PROVE  Pooled' /\ VirtualIPsDistinct'
  BY Zenon, <1>6 DEF RecordFailureInMemory
<1>7. CASE loadFromRAFT
  BY Zenon, <1>7 DEF loadFromRAFT
<1>8. CASE UNCHANGED registryVars
  BY Zenon, <1>8 DEF registryVars
<1> QED
  BY Zenon, <1>1, <1>2, <1>3, <1>4, <1>5, <1>6, <1>7, <1>8
     DEF RegistryNext, RegisterEndpoint, DeregisterEndpoint, UpdateEndpointHealth

(* No call on s is between its two steps.                                  *)
Settled(s) == \A c \in RegistryCalls : regCall[c].step = "idle" \/ regCall[c].name # s
Found(s) ==
  IF Live(s) THEN services[s].vip = stored[s].vip /\ endpoints[s] = stored[s].endpoints
             ELSE services[s] = NoService

(* Every step keeps the records equal to the memory, with the exceptions.  *)
LEMMA RestartStep ==
  Maps /\ Addressed /\ RestartFindsMemory /\ [RegistryNext]_registryVars => RestartFindsMemory'
<1> SUFFICES ASSUME Maps, Addressed, RestartFindsMemory, [RegistryNext]_registryVars,
                    NEW t \in ServiceNames, t \notin differs', Settled(t)'
             PROVE  Found(t)'
  BY Zenon DEF RestartFindsMemory, Settled, Found
<1>1. t \notin differs /\ Settled(t) => Found(t)
  BY Zenon DEF RestartFindsMemory, Settled, Found
<1> USE DEF Maps
<1>2. ASSUME NEW c \in RegistryCalls, NEW s \in ServiceNames, RegisterService(c, s) PROVE Found(t)'
  <2>1. CASE regCall' = regCall /\ UNCHANGED <<services, endpoints, stored, differs>>
    BY Zenon, <1>1, <2>1 DEF Settled, Found, Live
  <2>2. CASE Goes(c, "persist", s, services'[s])
    <3>1. s # t
      BY Zenon, <2>2 DEF Goes, Settled
    <3>2. Settled(t)
      BY Zenon, <1>2, <2>2 DEF Goes, Settled, RegisterService
    <3>3. /\ services'[t] = services[t]
          /\ UNCHANGED <<endpoints, stored, differs>>
      BY Zenon, <1>2, <3>1 DEF RegisterService
    <3> QED
      BY Zenon, <1>1, <3>2, <3>3 DEF Found, Live
  <2> QED
    BY Zenon, <1>2, <2>1, <2>2 DEF RegisterService
<1>3. ASSUME NEW c \in RegistryCalls, NEW s \in ServiceNames, DeregisterService(c, s) PROVE Found(t)'
  <2>1. s # t
    BY Zenon, <1>3 DEF DeregisterService, Goes, Settled
  <2>2. Settled(t)
    BY Zenon, <1>3 DEF DeregisterService, Goes, Settled
  <2>3. /\ services'[t] = services[t] /\ endpoints'[t] = endpoints[t]
        /\ UNCHANGED <<stored, differs>>
    BY Zenon, <1>3, <2>1 DEF DeregisterService
  <2> QED
    BY Zenon, <1>1, <2>2, <2>3 DEF Found, Live
<1>4. ASSUME NEW c \in RegistryCalls, NEW s \in ServiceNames, NEW changed, EndpointCall(c, s, changed)
      PROVE  Found(t)'
  <2>1. UNCHANGED <<services, stored, differs>> /\ Settled(t)
    BY Zenon, <1>4 DEF EndpointCall, GetService, Goes, Settled
  <2>2. CASE s # t
    <3>1. endpoints'[t] = endpoints[t]
      BY Zenon, <1>4, <2>2 DEF EndpointCall
    <3> QED
      BY Zenon, <1>1, <2>1, <3>1 DEF Found, Live
  <2>3. CASE s = t
    <3>1. services[t] = NoService
      BY <1>4, <2>3 DEF EndpointCall, GetService, Goes, Settled
    <3>2. ~Live(t)
      BY <1>1, <2>1, <3>1 DEF Found, Addressed, Live, NoService
    <3> QED
      BY Zenon, <2>1, <3>1, <3>2 DEF Found, Live
  <2> QED
    BY Zenon, <2>2, <2>3
<1>5. ASSUME NEW c \in RegistryCalls, persistService(c) PROVE Found(t)'
  <2>1. CASE regCall[c].name = t
    <3>1. regCall[c].service = services[t] /\ services[t].vip # -1
      BY Zenon, <1>5, <2>1 DEF persistService, Addressed
    <3>2. /\ stored'[t].vip = services[t].vip /\ stored'[t].endpoints = endpoints[t]
          /\ stored'[t].deleted = FALSE
          /\ UNCHANGED <<services, endpoints>>
      BY Zenon, <1>5, <2>1, <3>1 DEF persistService
    <3> QED
      BY <3>1, <3>2 DEF Found, Live, NoRecord
  <2>2. CASE regCall[c].name # t
    <3>1. Settled(t) /\ t \notin differs
      BY Zenon, <1>5, <2>2 DEF persistService, Settled, NoCall
    <3>2. stored'[t] = stored[t] /\ UNCHANGED <<services, endpoints>>
      BY Zenon, <1>5, <2>2 DEF persistService
    <3> QED
      BY Zenon, <1>1, <3>1, <3>2 DEF Found, Live
  <2> QED
    BY Zenon, <2>1, <2>2
<1>6. ASSUME NEW c \in RegistryCalls, markServiceDeleted(c) PROVE Found(t)'
  <2>1. CASE regCall[c].name = t
    <3>1. services'[t] = NoService
      BY Zenon, <1>6, <2>1 DEF markServiceDeleted
    <3>2. stored'[t] = NoRecord \/ stored'[t].deleted
      <4>1. CASE stored[t] = NoRecord
        BY Zenon, <1>6, <2>1, <4>1 DEF markServiceDeleted
      <4>2. CASE stored[t] # NoRecord
        <5>1. stored'[t] = [stored[t] EXCEPT !.deleted = TRUE]
          BY Zenon, <1>6, <2>1, <4>2 DEF markServiceDeleted
        <5>2. stored[t] = [vip |-> stored[t].vip, endpoints |-> stored[t].endpoints,
                           deleted |-> stored[t].deleted]
          BY Zenon DEF Addressed
        <5> QED
          BY Zenon, <5>1, <5>2
      <4> QED
        BY Zenon, <4>1, <4>2
    <3> QED
      BY Zenon, <3>1, <3>2 DEF Found, Live
  <2>2. CASE regCall[c].name # t
    <3>1. Settled(t) /\ t \notin differs
      BY Zenon, <1>6, <2>2 DEF markServiceDeleted, Settled, NoCall
    <3>2. stored'[t] = stored[t] /\ UNCHANGED <<services, endpoints>>
      BY Zenon, <1>6, <2>2 DEF markServiceDeleted
    <3> QED
      BY Zenon, <1>1, <3>1, <3>2 DEF Found, Live
  <2> QED
    BY Zenon, <2>1, <2>2
<1>7. ASSUME NEW c \in RegistryCalls, StoreFails(c) PROVE Found(t)'
  <2>1. Settled(t) /\ t \notin differs
    BY Zenon, <1>7 DEF StoreFails, Settled, NoCall
  <2> QED
    BY Zenon, <1>1, <1>7, <2>1 DEF StoreFails, Found, Live
<1>8. ASSUME NEW s \in ServiceNames, PurgeService(s) PROVE Found(t)'
  BY Zenon, <1>1, <1>8 DEF PurgeService, Settled, Found, Live
<1>9. ASSUME NEW s \in ServiceNames, NEW id \in EndpointIds, RecordFailureInMemory(s, id) PROVE Found(t)'
  BY Zenon, <1>1, <1>9 DEF RecordFailureInMemory, Settled, Found, Live
<1>10. CASE loadFromRAFT
  BY Zenon, <1>10 DEF loadFromRAFT, Found, Live
<1>11. CASE UNCHANGED registryVars
  BY Zenon, <1>1, <1>11 DEF registryVars, Settled, Found, Live
<1> QED
  BY Zenon, <1>2, <1>3, <1>4, <1>5, <1>6, <1>7, <1>8, <1>9, <1>10, <1>11
     DEF RegistryNext, RegisterEndpoint, DeregisterEndpoint, UpdateEndpointHealth

-----------------------------------------------------------------------------
(* The invariant holds in every reachable state.                           *)
LEMMA RegistryInvariant == RegistrySpec => []RegistryInv
<1>1. RegistryInv /\ [RegistryNext]_registryVars => RegistryInv'
  BY Zenon, MapsStep, AddressedStep, DistinctStep, RestartStep DEF RegistryInv
<1> QED
  BY RegistryInitInv, <1>1, PTL DEF RegistrySpec

(* Two services never resolve to the same virtual IP, however their        *)
(* registrations, deregistrations and endpoint calls interleave, fail and  *)
(* restart, unless the address was registered without the pool knowing it  *)
(* (RegisterService, DeregisterService, Allocate and loadFromRAFT).        *)
THEOREM VirtualIPsStayDistinct == RegistrySpec => []VirtualIPsDistinct
<1>1. RegistryInv => VirtualIPsDistinct
  BY Zenon DEF RegistryInv
<1> QED
  BY RegistryInvariant, <1>1, PTL

(* A restart finds in RAFT the services and the endpoints that were in     *)
(* memory, of every service that no call is at work on and whose last      *)
(* write went through (persistService, markServiceDeleted, loadFromRAFT).  *)
THEOREM RestartsFindMemory == RegistrySpec => []RestartFindsMemory
<1>1. RegistryInv => RestartFindsMemory
  BY Zenon DEF RegistryInv
<1> QED
  BY RegistryInvariant, <1>1, PTL
=============================================================================
