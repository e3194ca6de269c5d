---------------------------- MODULE LoadBalancer ----------------------------
(***************************************************************************)
(* The layer-4 load balancer (pkg/overlay/loadbalancer.go): concurrent     *)
(* requests select an endpoint of a service, count the connections they    *)
(* open on it, and report failures.  The maps of the balancer are lock     *)
(* free: the round-robin counter is loaded, incremented and stored, and    *)
(* the statistics of an endpoint are looked up and, when missing, created, *)
(* in separate steps.  The totals and the latencies are left out.          *)
(***************************************************************************)
EXTENDS Integers, Sequences, FiniteSets, Functions

CONSTANTS
  LBRequests,        \* concurrent requests
  Clients,           \* client addresses
  EndpointOrder,     \* the endpoints, in the registry's order
  Weight, Region,    \* of each endpoint
  Algorithms,
  SessionAffinity,
  MaxPicks

ASSUME LBAssumption == IsFiniteSet(LBRequests)

Endpoints == Range(EndpointOrder)

VARIABLES
  algorithm,
  healthy,           \* endpoints that the registry has as healthy
  rrCounter,         \* lb.rrCounters, of this service or of the fallback
  session,           \* lb.sessionCache: client -> endpoint
  statsOf,           \* lb.endpointStats: endpoint -> statistics object
  activeConns,       \* ActiveConnections of each object of each endpoint
  lbCall,
  open,              \* connections open on each endpoint
  split,             \* endpoints for which two objects were created
  recent             \* endpoints picked in turn since the last disturbance

lbVars == <<algorithm, healthy, rrCounter, session, statsOf, activeConns, lbCall, open, split, recent>>

NoEndpoint == "none"
LBIdle == [step |-> "idle", client |-> NoEndpoint, list |-> <<>>, counter |-> 0, missing |-> {},
           endpoint |-> NoEndpoint, object |-> 0, then |-> "none"]

(* An endpoint's objects are numbered as they are created; 0 is none.      *)
LBInit ==
  /\ algorithm \in Algorithms
  /\ healthy = Endpoints
  /\ rrCounter = 0
  /\ session = [k \in Clients |-> NoEndpoint]
  /\ statsOf = [e \in Endpoints |-> 0]
  /\ activeConns = [e \in Endpoints |-> <<>>]
  /\ lbCall = [r \in LBRequests |-> LBIdle]
  /\ open = [e \in Endpoints |-> 0]
  /\ split = {} /\ recent = <<>>

---------------------------------------------------------------------------

GetHealthyEndpoints == SelectSeq(EndpointOrder, LAMBDA e : e \in healthy)

(* The weight zero or below counts as one.                                 *)
EffectiveWeight(e) == IF Weight[e] =< 0 THEN 1 ELSE Weight[e]
TotalOf(list) == FoldFunction(LAMBDA e, sum : sum + EffectiveWeight(e), 0, list)

selectRoundRobin(list, next) == list[((next - 1) % Len(list)) + 1]

WeightedPastTarget(list, next) ==
  LET target == (next - 1) % TotalOf(list)
      upTo(i) == TotalOf(SubSeq(list, 1, i))
  IN  list[CHOOSE i \in DOMAIN list : /\ target =< upTo(i)
                                      /\ \A j \in 1 .. i - 1 : target > upTo(j)]

selectWeightedRoundRobin(list, next) ==
  LET target == (next - 1) % TotalOf(list)
      upTo(i) == TotalOf(SubSeq(list, 1, i))
  IN  list[CHOOSE i \in DOMAIN list : /\ target < upTo(i)
                                      /\ \A j \in 1 .. i - 1 : target >= upTo(j)]

Connections(e) == IF statsOf[e] = 0 THEN 0 ELSE activeConns[e][statsOf[e]]

selectLeastConnections(list) ==
  list[CHOOSE i \in DOMAIN list :
         /\ \A j \in DOMAIN list : Connections(list[i]) =< Connections(list[j])
         /\ \A j \in 1 .. i - 1 : Connections(list[i]) < Connections(list[j])]

(* The region of a client is always "" (extractClientLocality).            *)
InClientRegion(list) == SelectSeq(list, LAMBDA e : Region[e] = "")

TakesTurns(list) ==
  \/ algorithm \in {"RoundRobin", "WeightedRoundRobin"}
  \/ algorithm = "LocalityAware" /\ InClientRegion(list) = <<>>

Selected(list, next) ==
  CASE algorithm = "WeightedRoundRobin" -> selectWeightedRoundRobin(list, next)
    [] algorithm = "LeastConnections" -> selectLeastConnections(list)
    [] algorithm = "LocalityAware" /\ InClientRegion(list) # <<>> -> InClientRegion(list)[1]
    [] OTHER -> selectRoundRobin(list, next)

(* A client whose session names a healthy endpoint gets it; otherwise the  *)
(* healthy endpoints, the counter and, for the least connections, the      *)
(* endpoints without statistics are read.                                  *)
SelectEndpoint(r, k) ==
  LET list == GetHealthyEndpoints
      sticky == SessionAffinity /\ session[k] \in healthy
  IN  /\ lbCall[r].step = "idle" /\ list # <<>>
      /\ rrCounter < MaxPicks
      /\ lbCall' = [lbCall EXCEPT ![r] =
           IF sticky THEN [@ EXCEPT !.step = "selected", !.client = k, !.endpoint = session[k]]
           ELSE [@ EXCEPT !.step = "selecting", !.client = k, !.list = list, !.counter = rrCounter,
                          !.missing = IF algorithm # "LeastConnections" THEN {}
                                      ELSE {e \in healthy : statsOf[e] = 0}]]
      /\ UNCHANGED <<algorithm, healthy, rrCounter, session, statsOf, activeConns, open, split, recent>>

(* New statistics objects for some endpoints, stored over what another     *)
(* request may have stored since they were found missing.                  *)
CreateStats(missing) ==
  /\ activeConns' = [e \in Endpoints |->
       IF e \in missing THEN Append(activeConns[e], 0) ELSE activeConns[e]]
  /\ statsOf' = [e \in Endpoints |-> IF e \in missing THEN Len(activeConns[e]) + 1 ELSE statsOf[e]]
  /\ split' = split \cup {e \in missing : statsOf[e] # 0}

(* The counter is stored, and the session.  recent is kept while requests  *)
(* take turns one at a time over all the endpoints.                        *)
StoreSelection(r) ==
  LET q == lbCall[r]
      e == Selected(q.list, q.counter + 1)
      alone == q.counter = rrCounter /\ Len(q.list) = Len(EndpointOrder)
  IN  /\ q.step = "selecting"
      /\ rrCounter' = IF TakesTurns(q.list) THEN q.counter + 1 ELSE rrCounter
      /\ recent' = IF ~TakesTurns(q.list) THEN recent
                   ELSE IF alone THEN Append(recent, e) ELSE <<>>
      /\ session' = IF SessionAffinity THEN [session EXCEPT ![q.client] = e] ELSE session
      /\ CreateStats(q.missing)
      /\ lbCall' = [lbCall EXCEPT ![r].step = "counting", ![r].endpoint = e, ![r].missing = {}]
      /\ UNCHANGED <<algorithm, healthy, open>>

SessionExpires(k) ==
  /\ session[k] # NoEndpoint
  /\ session' = [session EXCEPT ![k] = NoEndpoint]
  /\ UNCHANGED <<algorithm, healthy, rrCounter, statsOf, activeConns, lbCall, open, split, recent>>

(* What a request does with the statistics of its endpoint, which          *)
(* getEndpointStats loads: count itself, count its connection up or down,  *)
(* or record a failure.                                                    *)
LoadStats(r, then) ==
  LET e == lbCall[r].endpoint
  IN  /\ \/ lbCall[r].step = "counting" /\ then = "request"
         \/ lbCall[r].step = "selected" /\ then \in {"increment", "fail"}
         \/ lbCall[r].step = "connected" /\ then = "decrement"
      /\ lbCall' = [lbCall EXCEPT ![r].step = "stats", ![r].then = then, ![r].object = statsOf[e]]
      /\ UNCHANGED <<algorithm, healthy, rrCounter, session, statsOf, activeConns, open, split, recent>>

getEndpointStats(r) ==
  LET q == lbCall[r]
  IN  /\ q.step = "stats" /\ q.object = 0
      /\ CreateStats({q.endpoint})
      /\ lbCall' = [lbCall EXCEPT ![r].object = statsOf'[q.endpoint]]
      /\ UNCHANGED <<algorithm, healthy, rrCounter, session, open, recent>>

updateRequestStats(r) ==
  /\ lbCall[r].step = "stats" /\ lbCall[r].object # 0 /\ lbCall[r].then = "request"
  /\ lbCall' = [lbCall EXCEPT ![r].step = "selected", ![r].object = 0]
  /\ UNCHANGED <<algorithm, healthy, rrCounter, session, statsOf, activeConns, open, split, recent>>

IncrementActiveConnections(r) ==
  LET q == lbCall[r]
  IN  /\ q.step = "stats" /\ q.object # 0 /\ q.then = "increment"
      /\ activeConns' = [activeConns EXCEPT ![q.endpoint][q.object] = @ + 1]
      /\ open' = [open EXCEPT ![q.endpoint] = @ + 1]
      /\ lbCall' = [lbCall EXCEPT ![r].step = "connected", ![r].object = 0]
      /\ UNCHANGED <<algorithm, healthy, rrCounter, session, statsOf, split, recent>>

DecrementUnguarded(r) ==
  LET q == lbCall[r]
  IN  /\ q.step = "stats" /\ q.object # 0 /\ q.then = "decrement"
      /\ activeConns' = [activeConns EXCEPT ![q.endpoint][q.object] = @ - 1]
      /\ open' = [open EXCEPT ![q.endpoint] = @ - 1]
      /\ lbCall' = [lbCall EXCEPT ![r] = LBIdle]
      /\ UNCHANGED <<algorithm, healthy, rrCounter, session, statsOf, split, recent>>

(* A compare-and-swap loop; at zero it returns.                            *)
DecrementActiveConnections(r) ==
  LET q == lbCall[r]
  IN  /\ q.step = "stats" /\ q.object # 0 /\ q.then = "decrement"
      /\ activeConns' = [activeConns EXCEPT ![q.endpoint][q.object] = IF @ =< 0 THEN @ ELSE @ - 1]
      /\ open' = [open EXCEPT ![q.endpoint] = @ - 1]
      /\ lbCall' = [lbCall EXCEPT ![r] = LBIdle]
      /\ UNCHANGED <<algorithm, healthy, rrCounter, session, statsOf, split, recent>>

(* The object is stored again; the endpoint becomes unhealthy.             *)
RecordFailure(r) ==
  LET q == lbCall[r]
  IN  /\ q.step = "stats" /\ q.object # 0 /\ q.then = "fail"
      /\ statsOf' = [statsOf EXCEPT ![q.endpoint] = q.object]
      /\ healthy' = healthy \ {q.endpoint}
      /\ recent' = <<>>
      /\ lbCall' = [lbCall EXCEPT ![r] = LBIdle]
      /\ UNCHANGED <<algorithm, rrCounter, session, activeConns, open, split>>

(* The registry is told that an endpoint is healthy again.                 *)
EndpointRecovers(e) ==
  /\ e \notin healthy
  /\ healthy' = healthy \cup {e}
  /\ UNCHANGED <<algorithm, rrCounter, session, statsOf, activeConns, lbCall, open, split, recent>>

LBNext ==
  \/ \E r \in LBRequests :
       \/ \E k \in Clients : SelectEndpoint(r, k)
       \/ StoreSelection(r) \/ getEndpointStats(r) \/ updateRequestStats(r)
       \/ \E then \in {"request", "increment", "decrement", "fail"} : LoadStats(r, then)
       \/ IncrementActiveConnections(r) \/ DecrementActiveConnections(r) \/ RecordFailure(r)
  \/ \E k \in Clients : SessionExpires(k)
  \/ \E e \in Endpoints : EndpointRecovers(e)

LBSpec == LBInit /\ [][LBNext]_lbVars

---------------------------------------------------------------------------

Share(e) == IF algorithm = "WeightedRoundRobin" THEN EffectiveWeight(e) ELSE 1

(* Over any round of the counter, the requests that selected one at a time *)
(* while all endpoints were healthy were spread over the endpoints by      *)
(* their weights, or evenly without weights, from wherever in the cycle    *)
(* the round began (selectRoundRobin, selectWeightedRoundRobin).           *)
TurnsAreFair ==
  LET round == FoldFunction(LAMBDA e, sum : sum + Share(e), 0, EndpointOrder)
  IN  \A i \in DOMAIN recent : i + round - 1 \in DOMAIN recent =>
        \A e \in Endpoints : Cardinality({j \in i .. i + round - 1 : recent[j] = e}) = Share(e)

(* The active connections of an endpoint are those open on it, as long as  *)
(* two requests did not create its statistics at the same time; when they  *)
(* did, connections are lost from the count, which still never falls below *)
(* zero (getEndpointStats, DecrementActiveConnections).                    *)
ConnectionsCounted ==
  \A e \in Endpoints :
    IF e \in split THEN Connections(e) >= 0 ELSE Connections(e) = open[e]
=============================================================================
