----------------------------- MODULE AgentSecrets -----------------------------
(***************************************************************************)
(* The secrets client of an agent (agent/secrets.go), one namespace, name  *)
(* and audience.  GetSecret serves the cached data until shortly before    *)
(* the token expires, and otherwise asks the coordinator for a token, then *)
(* for the secret, and stores what it got.  Calls interleave between these *)
(* steps.  The coordinator (Secrets.tla) is the data it holds and the      *)
(* tokens it has not revoked.                                              *)
(***************************************************************************)
EXTENDS Integers

CONSTANTS
  Fetches,          \* concurrent GetSecret calls of the agent
  TokenLife,        \* the token's lifetime: 3600 s, or the secret's own TTL
  RefreshThreshold, \* tokenRefreshThreshold
  MaxUpdates, MaxAgentClock  \* bounds

ASSUME AgentSecretsAssumption == {TokenLife, RefreshThreshold, MaxUpdates, MaxAgentClock} \subseteq Nat

VARIABLES
  held,        \* the coordinator's data, 1, 2, ...
  replacedAt,  \* history: when the coordinator's data was replaced
  entry,       \* the agent's cache entry; data 0: none
  fetch,       \* the calls
  served,      \* history: what the cache served last, and when
  clock

agentSecretVars == <<held, replacedAt, entry, fetch, served, clock>>

NoFetch == [pc |-> "none", data |-> 0, tokenFor |-> 0, expires |-> 0]
NoAnswer == [data |-> 0, expires |-> 0]

AgentSecretsInit ==
  /\ held = 1 /\ replacedAt = [d \in 1..MaxUpdates |-> -1]
  /\ entry = NoAnswer
  /\ fetch = [f \in Fetches |-> NoFetch]
  /\ served = [data |-> 0, at |-> 0]
  /\ clock = 0

(* The coordinator replaces the data and revokes the tokens of the older.  *)
ReplaceSecret ==
  /\ held < MaxUpdates
  /\ replacedAt' = [replacedAt EXCEPT ![held] = clock]
  /\ held' = held + 1
  /\ UNCHANGED <<entry, fetch, served, clock>>

(* Mutant of Fresh: the entry counts until its token expires and once more *)
(* as long.                                                                *)
FreshTooLong == entry.data # 0 /\ clock < entry.expires + RefreshThreshold

Fresh == entry.data # 0 /\ clock < entry.expires - RefreshThreshold

(* GetSecret looks into the cache, and serves a fresh entry at once ...    *)
LookIntoCache(f) ==
  /\ fetch[f].pc = "none"
  /\ IF Fresh
       THEN served' = [data |-> entry.data, at |-> clock] /\ fetch' = fetch
       ELSE fetch' = [fetch EXCEPT ![f].pc = "token"] /\ served' = served
  /\ UNCHANGED <<held, replacedAt, entry, clock>>

(* ... or else generateAccessToken ...                                     *)
generateAccessToken(f) ==
  /\ fetch[f].pc = "token"
  /\ fetch' = [fetch EXCEPT ![f] = [pc |-> "retrieve", data |-> 0, tokenFor |-> held, expires |-> clock + TokenLife]]
  /\ UNCHANGED <<held, replacedAt, entry, served, clock>>

(* ... retrieveSecret, refused for a revoked or expired token ...          *)
retrieveSecret(f) ==
  /\ fetch[f].pc = "retrieve"
  /\ fetch' = [fetch EXCEPT ![f] =
       IF fetch[f].tokenFor = held /\ clock <= fetch[f].expires THEN [@ EXCEPT !.pc = "store", !.data = held] ELSE NoFetch]
  /\ UNCHANGED <<held, replacedAt, entry, served, clock>>

(* ... and the cache entry, which expires with the token: its claims name  *)
(* the time.                                                               *)
extractTokenExpiration(f) == fetch[f].expires

StoreEntry(f) ==
  /\ fetch[f].pc = "store"
  /\ entry' = [data |-> fetch[f].data, expires |-> extractTokenExpiration(f)]
  /\ fetch' = [fetch EXCEPT ![f] = NoFetch]
  /\ UNCHANGED <<held, replacedAt, served, clock>>

(* A request that fails ends the call.                                     *)
FetchFails(f) ==
  /\ fetch[f].pc \in {"token", "retrieve"}
  /\ fetch' = [fetch EXCEPT ![f] = NoFetch]
  /\ UNCHANGED <<held, replacedAt, entry, served, clock>>

cleanupExpiredEntries ==
  /\ entry.data # 0 /\ clock > entry.expires
  /\ entry' = NoAnswer
  /\ UNCHANGED <<held, replacedAt, fetch, served, clock>>

InvalidateCache ==
  /\ entry # NoAnswer
  /\ entry' = NoAnswer
  /\ UNCHANGED <<held, replacedAt, fetch, served, clock>>

AgentClock ==
  /\ clock < MaxAgentClock
  /\ clock' = clock + 1
  /\ UNCHANGED <<held, replacedAt, entry, fetch, served>>

FetchStep(f) == LookIntoCache(f) \/ generateAccessToken(f) \/ retrieveSecret(f) \/ StoreEntry(f) \/ FetchFails(f)

AgentSecretsNext ==
  \/ ReplaceSecret \/ cleanupExpiredEntries \/ InvalidateCache \/ AgentClock
  \/ \E f \in Fetches : FetchStep(f)

AgentSecretsSpec == AgentSecretsInit /\ [][AgentSecretsNext]_agentSecretVars

-----------------------------------------------------------------------------
(* The cache may serve data that the coordinator has replaced, and a slow  *)
(* call may put such data back over newer data, but never data that was    *)
(* replaced a token's lifetime, less the refresh threshold, before.        *)
StalenessBounded ==
  served.data # 0 /\ served.data < held /\ replacedAt[served.data] <= served.at =>
    served.at - replacedAt[served.data] < TokenLife - RefreshThreshold
=============================================================================
