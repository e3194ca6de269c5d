----------------------------- MODULE RaftStore -----------------------------
(***************************************************************************)
(* The replicated key-value store of the coordinators: pkg/raft/store.go   *)
(* and the state machine of pkg/raft/fsm.go.  The consensus library is     *)
(* external: it gives one committed log and applies it in order on every   *)
(* server, takes snapshots, and restores a server from one.                *)
(*                                                                         *)
(* Each server reads its own clock when it applies, restores, reads and    *)
(* cleans up, so what a key with an expiry holds may differ from server to *)
(* server.  Keys without one (all the coordinators' and the metadata keys) *)
(* are PlainKeys.                                                          *)
(***************************************************************************)
EXTENDS Integers, Sequences, FiniteSets

CONSTANTS
  Servers,
  PlainKeys,     \* keys that are written without an expiry
  TtlKeys,       \* keys that SetWithTTL writes as well
  Values,
  NoValue,       \* the answer "key not found" or "key expired"
  MaxLog,        \* bound: entries of the log
  MaxClock,      \* bound: the clocks
  MaxTtl         \* bound: the ttl of a SetWithTTL

ASSUME RaftAssumption ==
  /\ PlainKeys \cap TtlKeys = {} /\ NoValue \notin Values
  /\ MaxLog \in Nat /\ MaxClock \in Nat /\ MaxTtl \in Nat

StoreKeys == PlainKeys \cup TtlKeys

(* An Entry of the map; an absent key has the value NoValue.  ExpiresAt is *)
(* 0 for an entry without an expiry.                                       *)
Entries == [value : Values \cup {NoValue}, expires : Nat]
NoEntry == [value |-> NoValue, expires |-> 0]

(* A log entry holds at most one command per key: a Command, a             *)
(* BatchCommand or a MetadataBatchCommand.  "unknown" is the operation that*)
(* applyCommand rejects, "none" that the key is not in the batch.          *)
Commands == [op : {"none", "set", "delete", "unknown"}, value : Values \cup {NoValue}, expires : Nat]
NoCommand == [op |-> "none", value |-> NoValue, expires |-> 0]

VARIABLES
  log,      \* the committed log: Seq([StoreKeys -> Commands])
  agreed,   \* history: the plain keys' map after each prefix of the log
  applied,  \* [Servers -> Nat]: the index of the last entry applied
  data,     \* [Servers -> [StoreKeys -> Entries]]: FSM.data
  snapshot, \* [Servers -> [index, data]]: the last snapshot persisted
  now       \* [Servers -> Nat]: the servers' clocks

raftVars == <<log, agreed, applied, data, snapshot, now>>

Expired(expires, t) == expires > 0 /\ expires < t

EmptyData == [k \in StoreKeys |-> NoEntry]

RaftInit ==
  /\ log = <<>>
  /\ agreed = <<[k \in PlainKeys |-> NoValue]>>
  /\ applied = [s \in Servers |-> 0]
  /\ data = [s \in Servers |-> EmptyData]
  /\ snapshot = [s \in Servers |-> [index |-> 0, data |-> EmptyData]]
  /\ now = [s \in Servers |-> 1]

(* applySet: an entry that has expired by the local clock is skipped, and  *)
(* leaves what the key held.                                               *)
applySet(entry, cmd, t) ==
  IF Expired(cmd.expires, t) THEN entry ELSE [value |-> cmd.value, expires |-> cmd.expires]

applyDelete == NoEntry

(* Mutant of applyCommand: a rejected operation deletes.                   *)
applyCommandUnchecked(entry, cmd, t) ==
  IF cmd.op = "set" THEN applySet(entry, cmd, t) ELSE IF cmd.op = "none" THEN entry ELSE applyDelete

applyCommand(entry, cmd, t) ==
  CASE cmd.op = "set" -> applySet(entry, cmd, t)
    [] cmd.op = "delete" -> applyDelete
    [] OTHER -> entry

(* applyBatch and applyMetadataBatch: every command, whatever becomes of   *)
(* the others, under one hold of f.mu.                                     *)
applyBatch(d, batch, t) == [k \in StoreKeys |-> applyCommand(d[k], batch[k], t)]

(* FSM.Get *)
Get(s, k) == IF Expired(data[s][k].expires, now[s]) THEN NoValue ELSE data[s][k].value

(* FSM.Restore drops the entries that have expired.                        *)
Restore(snap, t) ==
  [k \in StoreKeys |-> IF Expired(snap[k].expires, t) THEN NoEntry ELSE snap[k]]

-----------------------------------------------------------------------------
(* The map that a batch makes of the plain keys, for the history.          *)
After(m, batch) ==
  [k \in PlainKeys |-> CASE batch[k].op = "set" -> batch[k].value
                         [] batch[k].op = "delete" -> NoValue
                         [] OTHER -> m[k]]

(* raft.Apply on the leader: the entry is committed.                       *)
Commit(batch) ==
  /\ Len(log) < MaxLog
  /\ log' = Append(log, batch)
  /\ agreed' = Append(agreed, After(agreed[Len(agreed)], batch))
  /\ UNCHANGED <<applied, data, snapshot, now>>

Single(k, cmd) == [j \in StoreKeys |-> IF j = k THEN cmd ELSE NoCommand]

Set(k, v) == Commit(Single(k, [op |-> "set", value |-> v, expires |-> 0]))

Delete(k) == Commit(Single(k, [op |-> "delete", value |-> NoValue, expires |-> 0]))

(* SetWithTTL adds the ttl to the leader's clock.                          *)
SetWithTTL(leader, k, v, ttl) ==
  /\ k \in TtlKeys
  /\ Commit(Single(k, [op |-> "set", value |-> v, expires |-> now[leader] + ttl]))

(* ApplyBatch: two commands on different keys, either of which may be one  *)
(* that the state machine rejects.                                         *)
ApplyBatch(k, m, v, op) ==
  /\ k # m
  /\ Commit([Single(k, [op |-> "set", value |-> v, expires |-> 0])
               EXCEPT ![m] = [op |-> op, value |-> NoValue, expires |-> 0]])

-----------------------------------------------------------------------------
(* FSM.Apply of the next entry of the log.                                 *)
Apply(s) ==
  /\ applied[s] < Len(log)
  /\ applied' = [applied EXCEPT ![s] = @ + 1]
  /\ data' = [data EXCEPT ![s] = applyBatch(@, log[applied[s] + 1], now[s])]
  /\ UNCHANGED <<log, agreed, snapshot, now>>

(* FSM.Snapshot copies the entries, and Persist writes them.               *)
Snapshot(s) ==
  /\ snapshot' = [snapshot EXCEPT ![s] = [index |-> applied[s], data |-> data[s]]]
  /\ UNCHANGED <<log, agreed, applied, data, now>>

(* A server restarts from its own snapshot, or is sent a newer one.        *)
RestoreFrom(s, t) ==
  /\ s = t \/ snapshot[t].index > applied[s]
  /\ applied' = [applied EXCEPT ![s] = snapshot[t].index]
  /\ data' = [data EXCEPT ![s] = Restore(snapshot[t].data, now[s])]
  /\ UNCHANGED <<log, agreed, snapshot, now>>

CleanupExpired(s) ==
  /\ data' = [data EXCEPT ![s] = Restore(@, now[s])]
  /\ UNCHANGED <<log, agreed, applied, snapshot, now>>

Tick(s) ==
  /\ now[s] < MaxClock
  /\ now' = [now EXCEPT ![s] = @ + 1]
  /\ UNCHANGED <<log, agreed, applied, data, snapshot>>

ClientStep ==
  \/ \E k \in PlainKeys, v \in Values : Set(k, v)
  \/ \E k \in StoreKeys : Delete(k)
  \/ \E leader \in Servers, k \in StoreKeys, v \in Values, ttl \in 0..MaxTtl : SetWithTTL(leader, k, v, ttl)
  \/ \E k, m \in PlainKeys, v \in Values, op \in {"delete", "unknown"} : ApplyBatch(k, m, v, op)

ServerStep(s) ==
  \/ Apply(s) \/ Snapshot(s) \/ CleanupExpired(s) \/ Tick(s)
  \/ \E t \in Servers : RestoreFrom(s, t)

RaftNext == ClientStep \/ \E s \in Servers : ServerStep(s)

RaftSpec == RaftInit /\ [][RaftNext]_raftVars

-----------------------------------------------------------------------------
Logs == Seq([StoreKeys -> Commands])

RaftTypeOK ==
  /\ log \in Logs
  /\ agreed \in Seq([PlainKeys -> Values \cup {NoValue}])
  /\ applied \in [Servers -> Nat]
  /\ data \in [Servers -> [StoreKeys -> Entries]]
  /\ snapshot \in [Servers -> [index : Nat, data : [StoreKeys -> Entries]]]
  /\ now \in [Servers -> Nat]

Shown == [s \in Servers |-> [k \in PlainKeys |-> Get(s, k)]]

(* Servers that have applied the same entries answer alike for every key   *)
(* without an expiry, whatever restarts, snapshots, rejected commands and  *)
(* clocks they went through.                                               *)
ReplicasAgree == \A s, t \in Servers : applied[s] = applied[t] => Shown[s] = Shown[t]

Store == INSTANCE ReplicatedMap WITH
  MapServers <- Servers, MapKeys <- PlainKeys, MapValues <- Values, Absent <- NoValue,
  history <- agreed, shown <- Shown

(* The store implements the replicated map: each server shows the map after*)
(* some prefix of the log, with every batch in it entire.                  *)
ImplementsMap == Store!MapSpec
=============================================================================
