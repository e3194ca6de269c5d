-------------------------- MODULE ServiceRegistry --------------------------
(***************************************************************************)
(* The service registry of the coordinator (pkg/overlay/registry.go and    *)
(* registry_persistent.go): the services, their virtual IPs and endpoints  *)
(* in memory, written through to RAFT.  A call changes the memory under    *)
(* the registry's lock and then, under another lock, writes what it finds  *)
(* in memory to RAFT; in between, other calls run.  The write may fail,    *)
(* and the coordinator may restart and load what RAFT holds.               *)
(*                                                                         *)
(* An address is its offset in the pool's network.  A service object in    *)
(* memory is its virtual IP and a version that tells it from another       *)
(* registration under the same name.  The timestamps are left out.         *)
(***************************************************************************)
EXTENDS Integers, Sequences, FiniteSets

CONSTANTS
  RegistryCalls,     \* concurrent calls
  ServiceNames,      \* full names, namespace included
  EndpointIds,
  NetworkBits,       \* bits of the pool's network left for hosts
  MaxRegistrations, MaxEndpointCalls, MaxRegistryRestarts

ASSUME RegistryAssumption == NetworkBits \in Nat \ {0}

VARIABLES
  services,          \* sr.services and sr.virtualIPs
  endpoints,         \* sr.endpoints
  ipPool,            \* allocated offsets and nextOffset
  stored,            \* what RAFT holds under service:<name>
  regCall,           \* the calls between their two steps
  regCount,          \* registrations, endpoint calls and restarts so far
  unpooled,          \* addresses registered without being allocated
  differs            \* names whose record in RAFT may differ from memory

registryVars == <<services, endpoints, ipPool, stored, regCall, regCount, unpooled, differs>>

NoService == [vip |-> -1, version |-> 0]
NoRecord == [vip |-> -1, endpoints |-> <<>>, deleted |-> FALSE]
NoCall == [step |-> "idle", name |-> "", service |-> NoService]

---------------------------------------------------------------------------
(* The pool.  Of a network with one host bit both addresses are usable,    *)
(* otherwise the first and the last are not.                               *)

startOffset == IF NetworkBits = 1 THEN 0 ELSE 1
maxHosts == IF NetworkBits = 1 THEN 2 ELSE 2^NetworkBits - 2

NewIPPool == [allocated |-> {}, nextOffset |-> startOffset]

Wrapped(offset) == startOffset + ((offset - startOffset) % maxHosts)

AllocateNext(pool) ==
  LET offset == Wrapped(pool.nextOffset)
  IN  [ip |-> offset, pool |-> [allocated |-> pool.allocated \cup {offset},
                                nextOffset |-> Wrapped(offset + 1)]]

(* The first free address from nextOffset on, with wraparound; -1 if the   *)
(* pool is exhausted.                                                      *)
Allocate(pool) ==
  LET free == {i \in 0 .. maxHosts - 1 : Wrapped(pool.nextOffset + i) \notin pool.allocated}
      i == CHOOSE j \in free : \A k \in free : j =< k
      offset == Wrapped(pool.nextOffset + i)
  IN  IF free = {} THEN [ip |-> -1, pool |-> pool]
      ELSE [ip |-> offset, pool |-> [allocated |-> pool.allocated \cup {offset},
                                     nextOffset |-> Wrapped(offset + 1)]]

Release(pool, ip) == [pool EXCEPT !.allocated = @ \ {ip}]

---------------------------------------------------------------------------

RegistryInit ==
  /\ services = [s \in ServiceNames |-> NoService]
  /\ endpoints = [s \in ServiceNames |-> <<>>]
  /\ ipPool = NewIPPool
  /\ stored = [s \in ServiceNames |-> NoRecord]
  /\ regCall = [c \in RegistryCalls |-> NoCall]
  /\ regCount = [registrations |-> 0, endpointCalls |-> 0, restarts |-> 0]
  /\ unpooled = {} /\ differs = {}

Goes(c, step, s, service) ==
  regCall' = [regCall EXCEPT ![c] = [step |-> step, name |-> s, service |-> service]]

(* The address is allocated, or it is the one the service object carries   *)
(* from an earlier registration, which RAFT recorded.  A second            *)
(* registration of a name replaces the first, whose address stays          *)
(* allocated.                                                              *)
RegisterService(c, s) ==
  /\ regCall[c].step = "idle"
  /\ regCount.registrations < MaxRegistrations
  /\ LET version == regCount.registrations + 1
         pick == Allocate(ipPool)
     IN  /\ regCount' = [regCount EXCEPT !.registrations = version]
         /\ \/ /\ pick.ip # -1
               /\ services' = [services EXCEPT ![s] = [vip |-> pick.ip, version |-> version]]
               /\ ipPool' = pick.pool
               /\ Goes(c, "persist", s, services'[s])
               /\ UNCHANGED unpooled
            \/ /\ stored[s].vip # -1
               /\ services' = [services EXCEPT ![s] = [vip |-> stored[s].vip, version |-> version]]
               /\ unpooled' = IF services[s].vip = stored[s].vip THEN unpooled
                              ELSE unpooled \cup {stored[s].vip}
               /\ Goes(c, "persist", s, services'[s])
               /\ UNCHANGED ipPool
            \/ /\ pick.ip = -1
               /\ UNCHANGED <<services, ipPool, regCall, unpooled>>
  /\ UNCHANGED <<endpoints, stored, differs>>

DeregisterService(c, s) ==
  /\ regCall[c].step = "idle"
  /\ services[s] # NoService \/ stored[s] # NoRecord
  /\ ipPool' = IF services[s] = NoService THEN ipPool ELSE Release(ipPool, services[s].vip)
  /\ services' = [services EXCEPT ![s] = NoService]
  /\ endpoints' = [endpoints EXCEPT ![s] = <<>>]
  /\ Goes(c, "mark", s, NoService)
  /\ UNCHANGED <<stored, regCount, unpooled, differs>>

(* After an endpoint call the service is looked up again: without it the   *)
(* call returns an error and nothing is written.                           *)
GetService(c, s) ==
  IF services[s] = NoService THEN UNCHANGED regCall ELSE Goes(c, "persist", s, services[s])

EndpointCall(c, s, changed) ==
  /\ regCall[c].step = "idle"
  /\ regCount.endpointCalls < MaxEndpointCalls
  /\ regCount' = [regCount EXCEPT !.endpointCalls = @ + 1]
  /\ endpoints' = [endpoints EXCEPT ![s] = changed]
  /\ GetService(c, s)
  /\ UNCHANGED <<services, ipPool, stored, unpooled, differs>>

Known(s, id) == \E i \in DOMAIN endpoints[s] : endpoints[s][i].id = id

RegisterEndpoint(c, s, id) ==
  LET endpoint == [id |-> id, healthy |-> TRUE]
  IN  EndpointCall(c, s, IF Known(s, id)
                         THEN [i \in DOMAIN endpoints[s] |->
                                 IF endpoints[s][i].id = id THEN endpoint ELSE endpoints[s][i]]
                         ELSE Append(endpoints[s], endpoint))

DeregisterEndpoint(c, s, id) ==
  EndpointCall(c, s, SelectSeq(endpoints[s], LAMBDA ep : ep.id # id))

WithHealth(s, id, healthy) ==
  [i \in DOMAIN endpoints[s] |->
     IF endpoints[s][i].id = id THEN [endpoints[s][i] EXCEPT !.healthy = healthy] ELSE endpoints[s][i]]

UpdateEndpointHealth(c, s, id, healthy) ==
  Known(s, id) /\ EndpointCall(c, s, WithHealth(s, id, healthy))

(* The load balancer was given the registry in memory: its health update   *)
(* is not written to RAFT.                                                 *)
RecordFailureInMemory(s, id) ==
  /\ Known(s, id) /\ endpoints[s] # WithHealth(s, id, FALSE)
  /\ endpoints' = [endpoints EXCEPT ![s] = WithHealth(s, id, FALSE)]
  /\ differs' = differs \cup {s}
  /\ UNCHANGED <<services, ipPool, stored, regCall, regCount, unpooled>>

PersistEarlierEndpoints(c) ==
  LET q == regCall[c]
  IN  /\ q.step = "persist"
      /\ stored' = [stored EXCEPT ![q.name] =
           [vip |-> q.service.vip, endpoints |-> stored[q.name].endpoints, deleted |-> FALSE]]
      /\ differs' = IF q.service = services[q.name] THEN differs \ {q.name} ELSE differs \cup {q.name}
      /\ regCall' = [regCall EXCEPT ![c] = NoCall]
      /\ UNCHANGED <<services, endpoints, ipPool, regCount, unpooled>>

(* The endpoints are read now, the service is the one the call found.      *)
persistService(c) ==
  LET q == regCall[c]
  IN  /\ q.step = "persist"
      /\ stored' = [stored EXCEPT ![q.name] =
           [vip |-> q.service.vip, endpoints |-> endpoints[q.name], deleted |-> FALSE]]
      /\ differs' = IF q.service = services[q.name] THEN differs \ {q.name} ELSE differs \cup {q.name}
      /\ regCall' = [regCall EXCEPT ![c] = NoCall]
      /\ UNCHANGED <<services, endpoints, ipPool, regCount, unpooled>>

markServiceDeleted(c) ==
  LET q == regCall[c]
  IN  /\ q.step = "mark"
      /\ stored' = IF stored[q.name] = NoRecord THEN stored
                   ELSE [stored EXCEPT ![q.name].deleted = TRUE]
      /\ differs' = IF services[q.name] = NoService THEN differs \ {q.name} ELSE differs \cup {q.name}
      /\ regCall' = [regCall EXCEPT ![c] = NoCall]
      /\ UNCHANGED <<services, endpoints, ipPool, regCount, unpooled>>

(* store.Set fails, for want of a leader or a quorum: the call returns an  *)
(* error and leaves the memory as it is.                                   *)
StoreFails(c) ==
  /\ regCall[c].step # "idle"
  /\ differs' = differs \cup {regCall[c].name}
  /\ regCall' = [regCall EXCEPT ![c] = NoCall]
  /\ UNCHANGED <<services, endpoints, ipPool, stored, regCount, unpooled>>

PurgeService(s) ==
  /\ stored[s] # NoRecord
  /\ stored' = [stored EXCEPT ![s] = NoRecord]
  /\ differs' = IF services[s] = NoService THEN differs ELSE differs \cup {s}
  /\ UNCHANGED <<services, endpoints, ipPool, regCall, regCount, unpooled>>

Live(s) == stored[s] # NoRecord /\ ~stored[s].deleted

(* RegisterService finds a virtual IP in the record and allocates none.    *)
loadFromRAFT ==
  /\ regCount.restarts < MaxRegistryRestarts
  /\ regCount' = [regCount EXCEPT !.restarts = @ + 1]
  /\ services' = [s \in ServiceNames |-> IF Live(s) THEN [vip |-> stored[s].vip, version |-> 0]
                                         ELSE NoService]
  /\ endpoints' = [s \in ServiceNames |-> IF Live(s) THEN stored[s].endpoints ELSE <<>>]
  /\ ipPool' = NewIPPool
  /\ regCall' = [c \in RegistryCalls |-> NoCall]
  /\ unpooled' = {stored[s].vip : s \in {t \in ServiceNames : Live(t)}}
  /\ differs' = {}
  /\ UNCHANGED stored

RegistryNext ==
  \/ \E c \in RegistryCalls :
       \/ \E s \in ServiceNames :
            \/ RegisterService(c, s) \/ DeregisterService(c, s)
            \/ \E id \in EndpointIds :
                 \/ RegisterEndpoint(c, s, id) \/ DeregisterEndpoint(c, s, id)
                 \/ \E healthy \in BOOLEAN : UpdateEndpointHealth(c, s, id, healthy)
       \/ persistService(c) \/ markServiceDeleted(c) \/ StoreFails(c)
  \/ \E s \in ServiceNames : PurgeService(s) \/ \E id \in EndpointIds : RecordFailureInMemory(s, id)
  \/ loadFromRAFT

RegistrySpec == RegistryInit /\ [][RegistryNext]_registryVars

---------------------------------------------------------------------------

(* Two services never resolve to the same virtual IP, unless the address   *)
(* was registered without the pool knowing it: loaded from RAFT, or        *)
(* carried by a service object registered again after its address was      *)
(* released (RegisterService, DeregisterService, Allocate).                *)
VirtualIPsDistinct ==
  \A s, t \in ServiceNames :
    s # t /\ services[s] # NoService /\ services[s].vip = services[t].vip => services[s].vip \in unpooled

(* When no call on a service is between its change of the memory and its   *)
(* write to RAFT, a restart would find the service as it is in memory,     *)
(* endpoints included, or find none if there is none.  Excepted are        *)
(* services whose last write failed, lost a race against a concurrent      *)
(* registration or deregistration, or whose health only the load balancer  *)
(* changed.                                                                *)
RestartFindsMemory ==
  \A s \in ServiceNames \ differs :
    (\A c \in RegistryCalls : regCall[c].step = "idle" \/ regCall[c].name # s) =>
      IF Live(s) THEN services[s].vip = stored[s].vip /\ endpoints[s] = stored[s].endpoints
                 ELSE services[s] = NoService
=============================================================================
