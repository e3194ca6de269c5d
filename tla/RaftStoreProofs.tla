-------------------------- MODULE RaftStoreProofs --------------------------
(***************************************************************************)
(* Proofs that the servers of the replicated store agree on the keys       *)
(* without an expiry, that the store implements ReplicatedMap, and that    *)
(* the leader's metadata cache follows the log (MetadataRaft).             *)
(***************************************************************************)
EXTENDS MetadataRaft, TLAPS

(* The entries of the plain keys are those of the map m, without an expiry.*)
Matches(d, m) == \A k \in PlainKeys : d[k] = [value |-> m[k], expires |-> 0]

PlainMaps == [PlainKeys -> Values \cup {NoValue}]
Datas == [StoreKeys -> Entries]

(* No command gives a plain key an expiry.                                 *)
PlainBatch(batch) == batch \in [StoreKeys -> Commands] /\ \A k \in PlainKeys : batch[k].expires = 0

(* What is at an index of the log: a server or a snapshot that stands there*)
(* holds the map agreed after that many entries.                           *)
Stands(d, i) == d \in Datas /\ i \in 0..Len(log) /\ Matches(d, agreed[i + 1])

(* The inductive invariant.  ReplicasAgree alone is not inductive: it says *)
(* nothing of a server that is behind, and of the snapshots that servers   *)
(* restart from.                                                           *)
RaftInv ==
  /\ log \in Seq([StoreKeys -> Commands]) /\ agreed \in Seq(PlainMaps)
  /\ Len(agreed) = Len(log) + 1
  /\ \A i \in 1..Len(log) : PlainBatch(log[i]) /\ agreed[i + 1] = After(agreed[i], log[i])
  /\ applied \in [Servers -> Nat] /\ data \in [Servers -> Datas] /\ now \in [Servers -> Nat]
  /\ snapshot \in [Servers -> [index : Nat, data : Datas]]
  /\ \A s \in Servers : Stands(data[s], applied[s]) /\ Stands(snapshot[s].data, snapshot[s].index)

-----------------------------------------------------------------------------
(* Applying a batch to entries that match a map gives entries that match   *)
(* the map after the batch: no plain command is skipped, whatever the      *)
(* clock.                                                                  *)
LEMMA ApplyMatches ==
  ASSUME NEW d \in Datas, NEW m \in PlainMaps, NEW batch, PlainBatch(batch), NEW t \in Nat, Matches(d, m)
  PROVE  applyBatch(d, batch, t) \in Datas /\ Matches(applyBatch(d, batch, t), After(m, batch))
<1>1. ASSUME NEW k \in StoreKeys
      PROVE  applyCommand(d[k], batch[k], t) \in Entries
  <2>1. d[k] \in Entries /\ batch[k] \in Commands
    BY Zenon DEF Datas, PlainBatch
  <2> QED
    BY Zenon, <2>1 DEF applyCommand, applySet, applyDelete, NoEntry, Entries, Commands
<1>2. ASSUME NEW k \in PlainKeys
      PROVE  applyCommand(d[k], batch[k], t) = [value |-> After(m, batch)[k], expires |-> 0]
  <2>1. batch[k] \in Commands /\ batch[k].expires = 0 /\ d[k] = [value |-> m[k], expires |-> 0]
    BY Zenon DEF PlainBatch, Matches, StoreKeys
  <2> QED
    BY <2>1 DEF applyCommand, applySet, applyDelete, Expired, NoEntry, After, Commands
<1>3. applyBatch(d, batch, t) \in Datas
  BY Zenon, <1>1 DEF applyBatch, Datas
<1>4. Matches(applyBatch(d, batch, t), After(m, batch))
  BY Zenon, <1>2 DEF applyBatch, Matches, StoreKeys
<1> QED
  BY Zenon, <1>3, <1>4

(* Dropping the entries that have expired drops no plain key.              *)
LEMMA RestoreMatches ==
  ASSUME NEW d \in Datas, NEW m \in PlainMaps, NEW t \in Nat, Matches(d, m)
  PROVE  Restore(d, t) \in Datas /\ Matches(Restore(d, t), m)
<1>1. Restore(d, t) \in Datas
  BY Zenon DEF Restore, Datas, NoEntry, Entries
<1>2. Matches(Restore(d, t), m)
  BY DEF Restore, Matches, Expired, StoreKeys
<1> QED
  BY Zenon, <1>1, <1>2

(* Applying a command to a map of entries without a TTL gives one.         *)
LEMMA AfterType ==
  ASSUME NEW m \in PlainMaps, NEW batch, PlainBatch(batch)
  PROVE  After(m, batch) \in PlainMaps
<1>1. ASSUME NEW k \in PlainKeys
      PROVE  batch[k].value \in Values \cup {NoValue} /\ m[k] \in Values \cup {NoValue}
  BY Zenon DEF PlainMaps, PlainBatch, Commands, StoreKeys
<1> QED
  BY Zenon, <1>1 DEF After, PlainMaps

(* Every batch that a client commits is a plain batch.                     *)
LEMMA ClientsCommitPlain ==
  ASSUME RaftInv, ClientStep
  PROVE  \E batch : PlainBatch(batch) /\ Commit(batch)
<1>1. ASSUME NEW k \in StoreKeys, NEW cmd \in Commands, k \in PlainKeys => cmd.expires = 0
      PROVE  PlainBatch(Single(k, cmd))
  <2>1. NoCommand \in Commands /\ NoCommand.expires = 0
    BY Zenon DEF NoCommand, Commands
  <2> QED
    BY Zenon, <1>1, <2>1 DEF PlainBatch, Single, StoreKeys
<1>2. CASE \E k \in PlainKeys, v \in Values : Set(k, v)
  <2>1. PICK k \in PlainKeys, v \in Values : Set(k, v)
    BY Zenon, <1>2
  <2>2. PlainBatch(Single(k, [op |-> "set", value |-> v, expires |-> 0]))
    BY Zenon, <1>1 DEF Commands, StoreKeys
  <2> QED
    BY Zenon, <2>1, <2>2 DEF Set
<1>3. CASE \E k \in StoreKeys : Delete(k)
  <2>1. PICK k \in StoreKeys : Delete(k)
    BY Zenon, <1>3
  <2>2. PlainBatch(Single(k, [op |-> "delete", value |-> NoValue, expires |-> 0]))
    BY Zenon, <1>1 DEF Commands
  <2> QED
    BY Zenon, <2>1, <2>2 DEF Delete
<1>4. CASE \E s \in Servers, k \in StoreKeys, v \in Values, ttl \in 0..MaxTtl : SetWithTTL(s, k, v, ttl)
  <2>1. PICK s \in Servers, k \in StoreKeys, v \in Values, ttl \in 0..MaxTtl : SetWithTTL(s, k, v, ttl)
    BY Zenon, <1>4
  <2>2. now[s] + ttl \in Nat /\ k \notin PlainKeys
    BY <2>1, RaftAssumption DEF RaftInv, SetWithTTL
  <2>3. PlainBatch(Single(k, [op |-> "set", value |-> v, expires |-> now[s] + ttl]))
    BY Zenon, <2>2, <1>1 DEF Commands
  <2> QED
    BY Zenon, <2>1, <2>3 DEF SetWithTTL
<1>5. CASE \E k, m \in PlainKeys, v \in Values, op \in {"delete", "unknown"} : ApplyBatch(k, m, v, op)
  <2>1. PICK k \in PlainKeys, m \in PlainKeys, v \in Values, op \in {"delete", "unknown"} : ApplyBatch(k, m, v, op)
    BY Zenon, <1>5
  <2> DEFINE one == Single(k, [op |-> "set", value |-> v, expires |-> 0])
             two == [op |-> op, value |-> NoValue, expires |-> 0]
  <2>2. PlainBatch(one)
    BY Zenon, <1>1 DEF Commands, StoreKeys
  <2>3. two \in Commands /\ two.expires = 0
    BY Zenon DEF Commands
  <2>4. PlainBatch([one EXCEPT ![m] = two])
    <3> HIDE DEF one, two
    <3> QED
      BY Zenon, <2>2, <2>3 DEF PlainBatch, StoreKeys
  <2> QED
    BY Zenon, <2>1, <2>4 DEF ApplyBatch
<1> QED
  BY Zenon, <1>2, <1>3, <1>4, <1>5 DEF ClientStep

-----------------------------------------------------------------------------
(* The invariant holds in an empty store.                                  *)
LEMMA InitInv == RaftInit => RaftInv
<1> SUFFICES ASSUME RaftInit PROVE RaftInv
  BY Zenon
<1> DEFINE empty == [k \in PlainKeys |-> NoValue]
<1>1. EmptyData \in Datas /\ empty \in PlainMaps
  BY Zenon DEF EmptyData, Datas, NoEntry, Entries, PlainMaps
<1>2. Matches(EmptyData, empty)
  BY Zenon DEF Matches, EmptyData, NoEntry, StoreKeys
<1>3. log = <<>> /\ agreed = <<empty>> /\ Len(log) = 0 /\ Len(agreed) = 1 /\ agreed[1] = empty
  BY Zenon DEF RaftInit
<1>4. \A s \in Servers : Stands(data[s], applied[s]) /\ Stands(snapshot[s].data, snapshot[s].index)
  <2> HIDE DEF empty
  <2> QED
    BY <1>1, <1>2, <1>3 DEF RaftInit, Stands
<1> QED
  BY <1>1, <1>3, <1>4 DEF RaftInv, RaftInit

(* A commit moves no server, and leaves the maps agreed before it.         *)
LEMMA CommitStep ==
  ASSUME RaftInv, NEW batch, PlainBatch(batch), Commit(batch)
  PROVE  RaftInv' /\ Shown' = Shown /\ \E m \in PlainMaps : agreed' = Append(agreed, m)
<1> DEFINE n == Len(log)
           m == After(agreed[n + 1], batch)
<1>1. n \in Nat /\ Len(agreed) = n + 1 /\ agreed[n + 1] \in PlainMaps
  BY DEF RaftInv
<1>2. m \in PlainMaps
  BY Zenon, <1>1, AfterType
<1>3. log' = Append(log, batch) /\ agreed' = Append(agreed, m)
  BY Zenon, <1>1 DEF Commit
<1> HIDE DEF m
<1>4. /\ log' \in Seq([StoreKeys -> Commands]) /\ agreed' \in Seq(PlainMaps)
      /\ Len(log') = n + 1 /\ Len(agreed') = n + 2
      /\ \A i \in 1..n : log'[i] = log[i]
      /\ \A i \in 1..(n + 1) : agreed'[i] = agreed[i]
      /\ log'[n + 1] = batch /\ agreed'[n + 2] = m
  BY <1>1, <1>2, <1>3 DEF RaftInv, PlainBatch
<1>5. \A i \in 1..Len(log') : PlainBatch(log'[i]) /\ agreed'[i + 1] = After(agreed'[i], log'[i])
  <2> SUFFICES ASSUME NEW i \in 1..(n + 1)
               PROVE  PlainBatch(log'[i]) /\ agreed'[i + 1] = After(agreed'[i], log'[i])
    BY Zenon, <1>4
  <2>1. CASE i = n + 1
    BY <2>1, <1>1, <1>4 DEF m
  <2>2. CASE i \in 1..n
    <3>1. i + 1 \in 1..(n + 1) /\ i \in 1..(n + 1)
      BY <2>2, <1>1
    <3>2. log'[i] = log[i] /\ agreed'[i] = agreed[i] /\ agreed'[i + 1] = agreed[i + 1]
      BY Zenon, <2>2, <3>1, <1>4
    <3>3. PlainBatch(log[i]) /\ agreed[i + 1] = After(agreed[i], log[i])
      BY Zenon, <2>2 DEF RaftInv
    <3> QED
      BY Zenon, <3>2, <3>3
  <2> QED
    BY <2>1, <2>2, <1>1
<1>7. UNCHANGED <<applied, data, snapshot, now>>
  BY Zenon DEF Commit
<1>8. \A s \in Servers : Stands(data[s], applied[s])' /\ Stands(snapshot[s].data, snapshot[s].index)'
  <2> TAKE s \in Servers
  <2>1. Stands(data[s], applied[s]) /\ Stands(snapshot[s].data, snapshot[s].index)
    BY Zenon DEF RaftInv
  <2> QED
    BY SMTT(30), <2>1, <1>1, <1>4, <1>7 DEF Stands, Matches
<1>9. RaftInv'
  BY <1>1, <1>4, <1>5, <1>7, <1>8 DEF RaftInv
<1> QED
  BY Zenon, <1>2, <1>3, <1>7, <1>9 DEF Shown, Get

(* A server that stands at an index shows the map agreed there.            *)
LEMMA ShowsAgreed ==
  ASSUME RaftInv, NEW s \in Servers
  PROVE  Shown[s] = agreed[applied[s] + 1]
<1>1. Stands(data[s], applied[s])
  BY Zenon DEF RaftInv
<1>2. applied[s] + 1 \in 1..Len(agreed) /\ agreed \in Seq(PlainMaps)
  BY <1>1 DEF RaftInv, Stands
<1>3. agreed[applied[s] + 1] \in PlainMaps
  BY <1>2
<1>4. \A k \in PlainKeys : Get(s, k) = agreed[applied[s] + 1][k]
  <2> TAKE k \in PlainKeys
  <2>1. data[s][k] = [value |-> agreed[applied[s] + 1][k], expires |-> 0]
    BY Zenon, <1>1 DEF Stands, Matches
  <2>2. data[s][k].value = agreed[applied[s] + 1][k] /\ data[s][k].expires = 0
    BY <2>1
  <2>3. ~Expired(data[s][k].expires, now[s])
    BY <2>2 DEF Expired
  <2> QED
    BY Zenon, <2>2, <2>3 DEF Get
<1>5. Shown[s] = [k \in PlainKeys |-> Get(s, k)]
  BY Zenon DEF Shown
<1> QED
  BY Zenon, <1>3, <1>4, <1>5 DEF PlainMaps

(* Every server shows the map that its part of the log leads to.           *)
LEMMA AllShowAgreed == RaftInv => \A s \in Servers : Shown[s] = agreed[applied[s] + 1]
BY Zenon, ShowsAgreed

(* A step of a server leaves the log, and the server shows an agreed map   *)
(* after it; the others show what they did.                                *)
LEMMA ServerSteps ==
  ASSUME RaftInv, NEW s \in Servers, ServerStep(s)
  PROVE  /\ RaftInv' /\ UNCHANGED <<log, agreed>>
         /\ \A t \in Servers \ {s} : data'[t] = data[t] /\ now'[t] = now[t]
<1>1. \A t \in Servers : Stands(data[t], applied[t]) /\ Stands(snapshot[t].data, snapshot[t].index)
  BY Zenon DEF RaftInv
<1>2. ASSUME NEW d, NEW i, Stands(d, i)
      PROVE  /\ d \in Datas /\ i \in Nat /\ i \in 0..Len(log) /\ Len(log) \in Nat
             /\ agreed[i + 1] \in PlainMaps /\ Matches(d, agreed[i + 1])
  BY <1>2 DEF Stands, RaftInv
<1>3. now[s] \in Nat /\ s \in DOMAIN data /\ s \in DOMAIN applied /\ s \in DOMAIN snapshot
  BY Zenon DEF RaftInv
<1>4. CASE Apply(s)
  <2> DEFINE i == applied[s]
             b == log[i + 1]
             d == applyBatch(data[s], b, now[s])
  <2>1. i \in Nat /\ i + 1 \in 1..Len(log) /\ PlainBatch(b) /\ agreed[i + 2] = After(agreed[i + 1], b)
    BY SMTT(30), <1>4, <1>1, <1>2 DEF Apply, RaftInv
  <2>2. d \in Datas /\ Matches(d, After(agreed[i + 1], b))
    <3> HIDE DEF b, i, d
    <3>1. data[s] \in Datas /\ agreed[i + 1] \in PlainMaps /\ Matches(data[s], agreed[i + 1])
      BY Zenon, <1>1, <1>2 DEF i
    <3> QED
      BY Zenon, <2>1, <3>1, <1>3, ApplyMatches DEF d
  <2>3. Stands(d, i + 1)
    <3> HIDE DEF b, d
    <3> QED
      BY <2>1, <2>2 DEF Stands
  <2>4. /\ applied' = [applied EXCEPT ![s] = i + 1] /\ data' = [data EXCEPT ![s] = d]
        /\ UNCHANGED <<log, agreed, snapshot, now>>
    BY Zenon, <1>4 DEF Apply
  <2> HIDE DEF b, d, i
  <2>5. ASSUME NEW t \in Servers
        PROVE  Stands(data'[t], applied'[t]) /\ (t # s => data'[t] = data[t])
    <3>1. CASE t = s
      BY Zenon, <3>1, <2>3, <2>4, <1>3 
    <3>2. CASE t # s
      BY Zenon, <3>2, <2>4, <1>1 DEF RaftInv
    <3> QED
      BY Zenon, <3>1, <3>2
  <2>6. \A t \in Servers : Stands(data[t], applied[t])' /\ Stands(snapshot[t].data, snapshot[t].index)'
    <3>1. log' = log /\ agreed' = agreed /\ snapshot' = snapshot
      BY Zenon, <2>4
    <3> TAKE t \in Servers
    <3>2. Stands(data'[t], applied'[t]) /\ Stands(snapshot[t].data, snapshot[t].index)
      BY Zenon, <2>5, <1>1
    <3> QED
      BY Zenon, <3>1, <3>2 DEF Stands, Matches
  <2>7. data' \in [Servers -> Datas] /\ applied' \in [Servers -> Nat]
    BY <2>1, <2>2, <2>4 DEF RaftInv
  <2>8. RaftInv'
    BY Zenon, <2>4, <2>6, <2>7 DEF RaftInv
  <2> QED
    BY Zenon, <2>4, <2>5, <2>8
<1>5. CASE Snapshot(s)
  BY Zenon, <1>5, <1>1, <1>2 DEF Snapshot, RaftInv, Stands, Matches
<1>6. ASSUME NEW t \in Servers, RestoreFrom(s, t)
      PROVE  /\ RaftInv' /\ UNCHANGED <<log, agreed>>
             /\ \A u \in Servers \ {s} : data'[u] = data[u] /\ now'[u] = now[u]
  <2> DEFINE i == snapshot[t].index
             d == Restore(snapshot[t].data, now[s])
  <2>1. d \in Datas /\ Matches(d, agreed[i + 1]) /\ i \in Nat
    <3>1. /\ snapshot[t].data \in Datas /\ i \in Nat /\ agreed[i + 1] \in PlainMaps
          /\ Matches(snapshot[t].data, agreed[i + 1])
      BY Zenon, <1>1, <1>2
    <3> QED
      BY Zenon, <3>1, <1>3, RestoreMatches
  <2>2. Stands(d, i)
    BY Zenon, <2>1, <1>1 DEF Stands
  <2>3. /\ applied' = [applied EXCEPT ![s] = i] /\ data' = [data EXCEPT ![s] = d]
        /\ UNCHANGED <<log, agreed, snapshot, now>>
    BY Zenon, <1>6 DEF RestoreFrom
  <2> HIDE DEF i, d
  <2> QED
    BY Zenon, <2>1, <2>2, <2>3, <1>1 DEF RaftInv, Stands, Matches
<1>7. CASE CleanupExpired(s)
  <2> DEFINE d == Restore(data[s], now[s])
  <2>1. d \in Datas /\ Matches(d, agreed[applied[s] + 1])
    BY Zenon, <1>1, <1>2, <1>3, RestoreMatches
  <2>2. Stands(d, applied[s])
    BY Zenon, <2>1, <1>1 DEF Stands
  <2>3. data' = [data EXCEPT ![s] = d] /\ UNCHANGED <<log, agreed, applied, snapshot, now>>
    BY Zenon, <1>7 DEF CleanupExpired
  <2> HIDE DEF d
  <2> QED
    BY Zenon, <2>1, <2>2, <2>3, <1>1 DEF RaftInv, Stands, Matches
<1>8. CASE Tick(s)
  BY SMTT(30), <1>8, <1>1, <1>3 DEF Tick, RaftInv, Stands, Matches
<1> QED
  BY Zenon, <1>4, <1>5, <1>6, <1>7, <1>8 DEF ServerStep

(* Every step of the store keeps the invariant.                            *)
LEMMA NextInv == RaftInv /\ [RaftNext]_raftVars => RaftInv'
<1> SUFFICES ASSUME RaftInv, [RaftNext]_raftVars PROVE RaftInv'
  BY Zenon
<1>1. CASE ClientStep
  BY Zenon, <1>1, ClientsCommitPlain, CommitStep
<1>2. ASSUME NEW s \in Servers, ServerStep(s) PROVE RaftInv'
  BY Zenon, <1>2, ServerSteps
<1>3. CASE UNCHANGED raftVars
  BY Zenon, <1>3 DEF raftVars, RaftInv, Stands, Matches
<1> QED
  BY Zenon, <1>1, <1>2, <1>3 DEF RaftNext

(* For any servers, keys and clocks: servers of pkg/raft that have applied *)
(* the same entries answer Get alike for every key that is written without *)
(* an expiry.                                                              *)
THEOREM ServersAgree == RaftSpec => []ReplicasAgree
<1>1. RaftInv => ReplicasAgree
  BY Zenon, ShowsAgreed DEF ReplicasAgree
<1> QED
  BY <1>1, InitInv, NextInv, PTL DEF RaftSpec

-----------------------------------------------------------------------------
(* Every step of the store is a step of the abstract map, or a stutter.    *)
LEMMA MapStep ==
  ASSUME RaftInv, RaftInv', [RaftNext]_raftVars
  PROVE  [Store!MapNext]_(Store!mapVars)
<1>0. (\A s \in Servers : Shown[s] = agreed[applied[s] + 1])'
  BY AllShowAgreed, PTL
<1>1. CASE ClientStep
  <2>1. Shown' = Shown /\ \E m \in PlainMaps : agreed' = Append(agreed, m)
    BY Zenon, <1>1, ClientsCommitPlain, CommitStep
  <2> QED
    BY Zenon, <2>1 DEF Store!MapNext, Store!Agree, Store!Maps, PlainMaps
<1>2. ASSUME NEW s \in Servers, ServerStep(s)
      PROVE  Store!Show(s)
  <2>1. /\ agreed' = agreed /\ log' = log
        /\ \A t \in Servers \ {s} : data'[t] = data[t] /\ now'[t] = now[t]
    BY Zenon, <1>2, ServerSteps
  <2>2. ASSUME NEW t \in Servers
        PROVE  Shown'[t] = agreed[applied'[t] + 1] /\ applied'[t] + 1 \in DOMAIN agreed
    <3>1. Shown'[t] = agreed'[applied'[t] + 1]
      BY Zenon, <1>0
    <3> QED
      BY SMTT(30), <3>1, <2>1 DEF RaftInv, Stands
  <2>3. \A t \in Servers \ {s} : Shown'[t] = Shown[t]
    BY Zenon, <2>1 DEF Shown, Get
  <2>4. Shown' = [Shown EXCEPT ![s] = agreed[applied'[s] + 1]]
    BY Zenon, <2>2, <2>3 DEF Shown
  <2> QED
    BY Zenon, <2>1, <2>2, <2>4 DEF Store!Show
<1>3. CASE UNCHANGED raftVars
  BY Zenon, <1>3 DEF raftVars, Store!mapVars, Shown, Get
<1> QED
  BY Zenon, <1>1, <1>2, <1>3 DEF RaftNext, Store!MapNext

(* For any servers, keys and clocks the store of pkg/raft implements       *)
(* ReplicatedMap on the keys without an expiry: what a server shows is     *)
(* always the map after some prefix of the log, never part of a batch and  *)
(* never a mixture of two prefixes.                                        *)
THEOREM StoreImplementsMap == RaftSpec => ImplementsMap
<1>1. RaftInit => Store!MapInit
  <2> SUFFICES ASSUME RaftInit PROVE Store!MapInit
    BY Zenon
  <2>1. \A s \in Servers, k \in PlainKeys : Get(s, k) = NoValue
    BY Zenon DEF RaftInit, EmptyData, NoEntry, Get, Expired, StoreKeys
  <2> QED
    BY Zenon, <2>1 DEF RaftInit, Store!MapInit, Store!EmptyMap, Shown
<1> QED
  BY <1>1, InitInv, NextInv, MapStep, PTL DEF RaftSpec, ImplementsMap, Store!MapSpec

-----------------------------------------------------------------------------
(* A writer is in a call; its entry is in the log, and not yet in a cache. *)
Writing(c) == metaCall[c].op # "none"
Committed(c) == metaCall[c].pc \in {"wait", "cache"}
LastAgreed == agreed[Len(agreed)]

(* What the writers of the metadata stores can be doing.                   *)
MetaWrites ==
  [op : MetaOps \cup {"none"}, srv : Servers, pc : {"none", "apply", "wait", "cache"},
   batch : [StoreKeys -> Commands], index : Nat]

MetaType ==
  /\ leader \in Servers /\ ready \subseteq Servers
  /\ cache \in [Servers -> PlainMaps]
  /\ metaCall \in [MetaCalls -> MetaWrites]
  /\ \A c \in MetaCalls : ~Writing(c) => metaCall[c].pc = "none"
  /\ \A c \in MetaCalls : Writing(c) => metaCall[c].srv \in ready /\ PlainBatch(metaCall[c].batch)

(* A server runs one write at a time.                                      *)
OneWrite ==
  \A c, d \in MetaCalls : Writing(c) /\ Writing(d) /\ metaCall[c].srv = metaCall[d].srv => c = d

(* The leader's cache is the map agreed last, or the write that has been   *)
(* committed since takes it there.                                         *)
CacheBehindWrite ==
  /\ \A c \in MetaCalls : Committed(c) =>
       metaCall[c].srv = leader /\ Len(log) > 0 /\ LastAgreed = After(cache[leader], metaCall[c].batch)
  /\ leader \in ready /\ (\A c \in MetaCalls : ~Committed(c)) => cache[leader] = LastAgreed
  /\ Len(log) = 0 => \A s \in Servers : cache[s] = LastAgreed

(* The inductive invariant.  CacheTracksLog alone says nothing of a cache  *)
(* while a write is under way, nor of a server that is elected before the  *)
(* first entry.                                                            *)
MetaInv == RaftInv /\ MetaType /\ (~upset => OneWrite /\ CacheBehindWrite)

-----------------------------------------------------------------------------
(* The metadata stores commit entries without an expiry.                   *)
LEMMA EntriesArePlain ==
  ASSUME NEW op \in MetaOps, NEW v \in Values
  PROVE  PlainBatch(EntryOf(op, v))
<1>1. BucketKey \in StoreKeys /\ ObjectKey \in StoreKeys /\ PlainKeys \subseteq StoreKeys
  BY Zenon, MetaAssumption DEF StoreKeys
<1>2. SetCommand(v) \in Commands /\ DeleteCommand \in Commands /\ NoCommand \in Commands
  BY Zenon DEF SetCommand, DeleteCommand, NoCommand, Commands
<1>3. SetCommand(v).expires = 0 /\ DeleteCommand.expires = 0 /\ NoCommand.expires = 0
  BY Zenon DEF SetCommand, DeleteCommand, NoCommand
<1>4. ASSUME NEW k \in StoreKeys, NEW cmd \in {SetCommand(v), DeleteCommand}
      PROVE  /\ Single(k, cmd) \in [StoreKeys -> Commands]
             /\ \A j \in StoreKeys : Single(k, cmd)[j] \in {cmd, NoCommand}
  BY Zenon, <1>2 DEF Single
<1>5. ASSUME NEW k \in StoreKeys, NEW cmd \in {SetCommand(v), DeleteCommand}
      PROVE  PlainBatch(Single(k, cmd))
  BY ZenonT(60), <1>1, <1>3, <1>4 DEF PlainBatch
<1>6. PlainBatch([Single(BucketKey, SetCommand(v)) EXCEPT ![ObjectKey] = SetCommand(v)])
  BY Zenon, <1>1, <1>2, <1>3, <1>4 DEF PlainBatch
<1> QED
  BY Zenon, <1>1, <1>5, <1>6 DEF EntryOf, MetaOps

(* The invariant holds before any write.                                   *)
LEMMA MetaInitInv == MetaInit => MetaInv
<1> SUFFICES ASSUME MetaInit PROVE MetaInv
  BY Zenon
<1>1. RaftInv
  BY Zenon, InitInv DEF MetaInit
<1>2. Len(log) = 0 /\ LastAgreed = [k \in PlainKeys |-> NoValue]
  BY Zenon DEF MetaInit, RaftInit, LastAgreed
<1>3. leader \in Servers /\ MetaIdle.srv \in Servers
  BY Zenon DEF MetaInit, MetaIdle
<1>4. /\ MetaIdle.batch \in [StoreKeys -> Commands] /\ MetaIdle.op = "none" /\ MetaIdle.pc = "none"
      /\ MetaIdle.index = 0
  BY Zenon DEF MetaIdle, Commands, NoCommand
<1>5. MetaType
  BY Zenon, <1>3, <1>4 DEF MetaInit, MetaType, Writing, PlainMaps, MetaIdle, MetaWrites
<1>6. OneWrite /\ CacheBehindWrite
  BY Zenon, <1>2, <1>3, <1>4 DEF MetaInit, OneWrite, CacheBehindWrite, Writing, Committed
<1> QED
  BY Zenon, <1>1, <1>5, <1>6 DEF MetaInv

(* What a metadata store that writes nothing looks like.                   *)
LEMMA IdleType ==
  ASSUME MetaType
  PROVE  /\ MetaIdle \in MetaWrites
         /\ MetaIdle.op = "none" /\ MetaIdle.pc = "none"
BY Zenon DEF MetaType, MetaWrites, MetaIdle, Commands, NoCommand

(* The maps agreed are maps of the plain keys, and there is a last one.    *)
LEMMA LastIsMap == RaftInv => Len(log) \in Nat /\ LastAgreed = agreed[Len(log) + 1] /\ LastAgreed \in PlainMaps
BY DEF RaftInv, LastAgreed

(* The steps of a write keep the invariant.                                *)
LEMMA MetaWriteStep ==
  ASSUME MetaInv, NEW c \in MetaCalls, WriteStep(c)
  PROVE  MetaInv'
<1> USE DEF Writing, Committed, MetaWrites
<1>0. RaftInv /\ MetaType /\ (~upset => OneWrite /\ CacheBehindWrite)
  BY Zenon DEF MetaInv
<1>1. ASSUME UNCHANGED raftVars PROVE RaftInv' /\ UNCHANGED <<log, agreed, LastAgreed>>
  BY Zenon, <1>0, <1>1 DEF raftVars, RaftInv, Stands, Matches, LastAgreed
<1>2. ASSUME NEW s \in Servers, NEW op \in MetaOps, NEW v \in Values, BeginWrite(c, s, op, v)
      PROVE  MetaInv'
  <2>1. PlainBatch(EntryOf(op, v)) /\ EntryOf(op, v) \in [StoreKeys -> Commands]
    BY Zenon, EntriesArePlain DEF PlainBatch
  <2>2. RaftInv' /\ UNCHANGED <<log, agreed, LastAgreed>>
    BY Zenon, <1>1, <1>2 DEF BeginWrite
  <2>3. op # "none"
    BY Zenon DEF MetaOps
  <2>4. MetaType'
    BY Zenon, <1>0, <1>2, <2>1, <2>3 DEF BeginWrite, MetaType
  <2>5. ~upset' => OneWrite'
    BY ZenonT(60), <1>0, <1>2, <2>3 DEF BeginWrite, MetaType, OneWrite, CallsAt, ms_muFree
  <2>6. ~upset' => CacheBehindWrite'
    BY Zenon, <1>0, <1>2, <2>2 DEF BeginWrite, MetaType, CacheBehindWrite
  <2> QED
    BY Zenon, <2>2, <2>4, <2>5, <2>6 DEF MetaInv
<1>3. CASE applyRAFTCommand(c)
  <2>1. Writing(c) /\ PlainBatch(metaCall[c].batch) /\ Commit(metaCall[c].batch)
    BY Zenon, <1>0, <1>3 DEF applyRAFTCommand, MetaType
  <2>2. RaftInv'
    BY Zenon, <1>0, <2>1, CommitStep
  <2>3. Len(log') = Len(log) + 1 /\ LastAgreed' = After(LastAgreed, metaCall[c].batch) /\ Len(log) \in Nat
    BY <1>0, <2>1 DEF Commit, RaftInv, LastAgreed
  <2>4. MetaType'
    <3>1. Len(log') \in Nat
      BY <2>3
    <3>2. \A d \in MetaCalls : /\ metaCall'[d].op = metaCall[d].op /\ metaCall'[d].srv = metaCall[d].srv
                              /\ metaCall'[d].batch = metaCall[d].batch
                              /\ d # c => metaCall'[d] = metaCall[d]
      BY Zenon, <1>0, <1>3 DEF applyRAFTCommand, MetaType
    <3>3. metaCall' \in [MetaCalls -> MetaWrites]
      <4> DEFINE q == [metaCall[c] EXCEPT !.pc = "wait", !.index = Len(log')]
      <4>1. metaCall \in [MetaCalls -> MetaWrites] /\ metaCall[c] \in MetaWrites
        BY Zenon, <1>0 DEF MetaType
      <4>2. q \in MetaWrites
        BY Zenon, <4>1, <3>1
      <4>3. metaCall' = [metaCall EXCEPT ![c] = q]
        BY Zenon, <1>3 DEF applyRAFTCommand
      <4> HIDE DEF q
      <4> HIDE DEF MetaWrites
      <4> QED
        BY Zenon, <4>1, <4>2, <4>3
    <3> QED
      BY <1>0, <1>3, <2>1, <3>2, <3>3 DEF applyRAFTCommand, MetaType
  <2>5. ~upset' => OneWrite'
    BY <1>0, <1>3 DEF applyRAFTCommand, MetaType, OneWrite
  <2>6. ~upset => \A d \in MetaCalls : ~Committed(d)
    BY Zenon, <1>0, <1>3, <2>1 DEF applyRAFTCommand, MetaType, OneWrite, CacheBehindWrite
  <2>7. ~upset => cache[leader] = LastAgreed
    BY Zenon, <1>0, <1>3, <2>1, <2>6 DEF applyRAFTCommand, MetaType, CacheBehindWrite
  <2>8. ~upset' => CacheBehindWrite'
    BY <1>0, <1>3, <2>3, <2>6, <2>7 DEF applyRAFTCommand, MetaType, CacheBehindWrite
  <2> QED
    BY Zenon, <2>2, <2>4, <2>5, <2>8 DEF MetaInv
<1>4. CASE ApplyFails(c)
  <2>1. RaftInv' /\ UNCHANGED <<log, agreed, LastAgreed>>
    BY Zenon, <1>1, <1>4 DEF ApplyFails
  <2>2. MetaType'
    BY Zenon, <1>0, <1>4, IdleType DEF ApplyFails, MetaType
  <2>3. ~upset' => OneWrite' /\ CacheBehindWrite'
    BY <1>0, <1>4, <2>1, IdleType DEF ApplyFails, MetaType, OneWrite, CacheBehindWrite
  <2> QED
    BY Zenon, <2>1, <2>2, <2>3 DEF MetaInv
<1>5. CASE AwaitApplied(c)
  <2>1. RaftInv' /\ UNCHANGED <<log, agreed, LastAgreed>>
    BY Zenon, <1>1, <1>5 DEF AwaitApplied
  <2>2. CASE metaCall' = [metaCall EXCEPT ![c].pc = "cache"]
    <3>1. MetaType'
      BY <1>0, <1>5, <2>2 DEF AwaitApplied, MetaType
    <3>2. ~upset' => OneWrite' /\ CacheBehindWrite'
      BY <1>0, <1>5, <2>1, <2>2 DEF AwaitApplied, MetaType, OneWrite, CacheBehindWrite
    <3> QED
      BY Zenon, <2>1, <3>1, <3>2 DEF MetaInv
  <2>3. CASE leader # metaCall[c].srv /\ metaCall' = [metaCall EXCEPT ![c] = MetaIdle]
    <3>1. MetaType'
      BY Zenon, <1>0, <1>5, <2>3, IdleType DEF AwaitApplied, MetaType
    <3>2. upset'
      BY Zenon, <1>0, <1>5, <2>3 DEF AwaitApplied, CacheBehindWrite
    <3> QED
      BY Zenon, <2>1, <3>1, <3>2 DEF MetaInv
  <2> QED
    BY Zenon, <1>5, <2>2, <2>3 DEF AwaitApplied
<1>6. CASE UpdateCache(c)
  <2>1. RaftInv' /\ UNCHANGED <<log, agreed, LastAgreed>>
    BY Zenon, <1>1, <1>6 DEF UpdateCache
  <2>2. Writing(c) /\ metaCall[c].srv \in Servers
    BY Zenon, <1>0, <1>6 DEF UpdateCache, MetaType
  <2>3. After(cache[metaCall[c].srv], metaCall[c].batch) \in PlainMaps
    BY Zenon, <1>0, <2>2, AfterType DEF MetaType
  <2>4. MetaType'
    BY Zenon, <1>0, <1>6, <2>3, IdleType DEF UpdateCache, MetaType
  <2>5. ~upset' => OneWrite'
    BY Zenon, <1>0, <1>6, IdleType DEF UpdateCache, MetaType, OneWrite
  <2>6. ~upset => \A d \in MetaCalls \ {c} : ~Committed(d)
    BY Zenon, <1>0, <1>6, <2>2 DEF UpdateCache, MetaType, OneWrite, CacheBehindWrite
  <2>7. ~upset => metaCall[c].srv = leader /\ Len(log) > 0 /\ LastAgreed = After(cache[leader], metaCall[c].batch)
    BY Zenon, <1>0, <1>6 DEF UpdateCache, CacheBehindWrite
  <2>8. ~upset' => CacheBehindWrite'
    BY Zenon, <1>0, <1>6, <2>1, <2>6, <2>7, IdleType DEF UpdateCache, MetaType, CacheBehindWrite
  <2> QED
    BY Zenon, <2>1, <2>4, <2>5, <2>8 DEF MetaInv
<1> QED
  BY Zenon, <1>2, <1>3, <1>4, <1>5, <1>6 DEF WriteStep

(* An election, a restart and a reading of the log keep the invariant.     *)
LEMMA MetaServerStep ==
  ASSUME MetaInv, NEW s \in Servers, Elect(s) \/ RestartServer(s) \/ initializeFromRAFT(s)
  PROVE  MetaInv'
<1> USE DEF Writing, Committed, MetaWrites
<1>0. RaftInv /\ MetaType /\ (~upset => OneWrite /\ CacheBehindWrite)
  BY Zenon DEF MetaInv
<1>1. ASSUME UNCHANGED raftVars PROVE RaftInv' /\ UNCHANGED <<log, agreed, LastAgreed>>
  BY Zenon, <1>0, <1>1 DEF raftVars, RaftInv, Stands, Matches, LastAgreed
<1>2. CASE Elect(s)
  <2>1. RaftInv' /\ UNCHANGED <<log, agreed, LastAgreed>>
    BY Zenon, <1>1, <1>2 DEF Elect
  <2>2. MetaType'
    BY Zenon, <1>0, <1>2 DEF Elect, MetaType
  <2>3. ~upset' => ~upset /\ Len(log) = 0
    <3>1. ~upset' => ~upset /\ ~(Len(log) > 0)
      BY Zenon, <1>2 DEF Elect
    <3> QED
      BY <1>0, <3>1, LastIsMap
  <2>4. ~upset' => OneWrite' /\ CacheBehindWrite'
    BY Zenon, <1>0, <1>2, <2>1, <2>3 DEF Elect, MetaType, OneWrite, CacheBehindWrite
  <2> QED
    BY Zenon, <2>1, <2>2, <2>4 DEF MetaInv
<1>3. CASE RestartServer(s)
  <2>1. ServerStep(s)
    BY Zenon, <1>3 DEF RestartServer, ServerStep
  <2>2. RaftInv' /\ UNCHANGED <<log, agreed>>
    BY Zenon, <1>0, <2>1, ServerSteps
  <2>3. UNCHANGED LastAgreed
    BY Zenon, <2>2 DEF LastAgreed
  <2>4. MetaType'
    BY Zenon, <1>0, <1>3, IdleType DEF RestartServer, MetaType
  <2>5. ~upset' => OneWrite' /\ CacheBehindWrite'
    BY ZenonT(60), <1>0, <1>3, <2>2, <2>3, IdleType DEF RestartServer, MetaType, OneWrite,
       CacheBehindWrite
  <2> QED
    BY Zenon, <2>2, <2>4, <2>5 DEF MetaInv
<1>4. CASE initializeFromRAFT(s)
  <2>1. RaftInv' /\ UNCHANGED <<log, agreed, LastAgreed>>
    BY Zenon, <1>1, <1>4 DEF initializeFromRAFT
  <2>2. Shown[s] = agreed[applied[s] + 1] /\ applied[s] \in 0..Len(log) /\ Shown[s] \in PlainMaps
    <3>1. Shown[s] = agreed[applied[s] + 1] /\ applied[s] \in 0..Len(log)
      BY ZenonT(60), <1>0, ShowsAgreed DEF RaftInv, Stands
    <3>2. applied[s] + 1 \in 1..Len(agreed) /\ agreed \in Seq(PlainMaps)
      BY SMTT(30), <1>0, <3>1 DEF RaftInv
    <3> QED
      BY SMTT(30), <3>1, <3>2
  <2>3. MetaType'
    <3>1. leader' = leader /\ metaCall' = metaCall /\ ready' = ready \cup {s}
      BY Zenon, <1>4 DEF initializeFromRAFT
    <3>2. cache' \in [Servers -> PlainMaps]
      BY Zenon, <1>0, <1>4, <2>2 DEF initializeFromRAFT, MetaType
    <3>3. leader \in Servers /\ ready \subseteq Servers /\ metaCall \in [MetaCalls -> MetaWrites]
      BY Zenon, <1>0 DEF MetaType
    <3>4. \A c \in MetaCalls : Writing(c)' <=> Writing(c)
      BY Zenon, <3>1 DEF Writing
    <3> QED
      BY ZenonT(60), <1>0, <3>1, <3>2, <3>3, <3>4 DEF MetaType
  <2>4. ~upset' => ~upset /\ Shown[s] = LastAgreed
    <3>1. ~upset' => ~upset /\ ~(applied[s] < Len(log))
      BY Zenon, <1>4 DEF initializeFromRAFT
    <3> QED
      BY SMTT(30), <1>0, <2>2, <3>1, LastIsMap
  <2>5. \A c \in MetaCalls : Writing(c) => metaCall[c].srv # s
    BY ZenonT(60), <1>0, <1>4 DEF initializeFromRAFT, MetaType
  <2>6. ~upset' => OneWrite' /\ CacheBehindWrite'
    BY ZenonT(60), <1>0, <1>4, <2>1, <2>4, <2>5 DEF initializeFromRAFT, MetaType, OneWrite,
       CacheBehindWrite
  <2> QED
    BY Zenon, <2>1, <2>3, <2>6 DEF MetaInv
<1> QED
  BY Zenon, <1>2, <1>3, <1>4

(* Every step keeps the invariant.                                         *)
LEMMA MetaStep == MetaInv /\ [MetaNext]_<<raftVars, metaVars>> => MetaInv'
<1> SUFFICES ASSUME MetaInv, [MetaNext]_<<raftVars, metaVars>> PROVE MetaInv'
  BY Zenon
<1> USE DEF Writing, Committed, MetaWrites
<1>1. ASSUME RaftInv', UNCHANGED <<log, agreed>>, UNCHANGED metaVars PROVE MetaInv'
  BY Zenon, <1>1 DEF MetaInv, metaVars, MetaType, OneWrite, CacheBehindWrite, LastAgreed
<1>2. ASSUME NEW s \in Servers, Apply(s) \/ Snapshot(s), UNCHANGED metaVars PROVE MetaInv'
  <2>1. ServerStep(s)
    BY Zenon, <1>2 DEF ServerStep
  <2> QED
    BY Zenon, <1>1, <1>2, <2>1, ServerSteps DEF MetaInv
<1>3. CASE UNCHANGED <<raftVars, metaVars>>
  BY Zenon, <1>1, <1>3 DEF MetaInv, raftVars, RaftInv, Stands, Matches
<1> QED
  BY Zenon, <1>2, <1>3, MetaWriteStep, MetaServerStep DEF MetaNext

(* For any servers, writers and values: as long as one server leads, no    *)
(* server fills its cache from part of the log, and no batch overlaps      *)
(* another write, the metadata cache of the leader is, between its writes, *)
(* what the log says (metadata.go: each write puts into the cache what RAFT*)
(* has committed, under ms.mu).  Failed writes and restarts are included.  *)
THEOREM CachesFollowLog == MetaSpec => []CacheTracksLog
<1>1. MetaInv => CacheTracksLog
  BY Zenon DEF MetaInv, MetaType, CacheTracksLog, Current, CacheBehindWrite, CallsAt, Committed,
     Writing, LastAgreed
<1> QED
  BY <1>1, MetaInitInv, MetaStep, PTL DEF MetaSpec
=============================================================================
