---------------------------- MODULE MetadataRaft ----------------------------
(***************************************************************************)
(* The metadata stores of the coordinators (pkg/storage/metadata.go,       *)
(* batch.go and consistency.go) on top of the replicated store: every      *)
(* server answers reads from a cache of its own, which only its own writes *)
(* and initializeFromRAFT change.  A write checks the cache, is committed  *)
(* by the leader, and is then put into the leader's cache; all but         *)
(* ExecuteBatch hold ms.mu meanwhile.                                      *)
(*                                                                         *)
(* One bucket with one object.  Sizes and quotas are in ObjectStore.       *)
(***************************************************************************)
EXTENDS RaftStore

CONSTANTS
  MetaCalls,   \* concurrent writers
  BucketKey,   \* the plain key "bucket:<name>"
  ObjectKey    \* the plain key "object:<bucket>:<key>"

ASSUME MetaAssumption == {BucketKey, ObjectKey} = PlainKeys /\ BucketKey # ObjectKey

VARIABLES
  leader,     \* the server that raft.State() calls the leader
  cache,      \* [Servers -> [PlainKeys -> Values or NoValue]]: ms.buckets and ms.objects
  ready,      \* the servers whose metadata store has been created
  metaCall,   \* [MetaCalls -> what each writer is doing]
  upset       \* history: did one of the events listed at Elect happen?

metaVars == <<leader, cache, ready, metaCall, upset>>

MetaIdle == [op |-> "none", srv |-> CHOOSE s \in Servers : TRUE, pc |-> "none",
             batch |-> [k \in StoreKeys |-> NoCommand], index |-> 0]

MetaInit ==
  /\ RaftInit
  /\ leader \in Servers
  /\ cache = [s \in Servers |-> [k \in PlainKeys |-> NoValue]]
  /\ ready = Servers
  /\ metaCall = [c \in MetaCalls |-> MetaIdle]
  /\ upset = FALSE

CallsAt(s) == {c \in MetaCalls : metaCall[c].op # "none" /\ metaCall[c].srv = s}
ms_muFree(s) == \A c \in CallsAt(s) : metaCall[c].op = "batch"

SetCommand(v) == [op |-> "set", value |-> v, expires |-> 0]
DeleteCommand == [op |-> "delete", value |-> NoValue, expires |-> 0]

(* The checks of CreateBucket, DeleteBucket, PutObject and DeleteObject,   *)
(* against the cache; ExecuteBatch makes none.                             *)
Passes(s, op) ==
  LET known(k) == cache[s][k] # NoValue
  IN CASE op = "create_bucket" -> ~known(BucketKey)
       [] op = "delete_bucket" -> known(BucketKey) /\ ~known(ObjectKey)
       [] op = "put_object_meta" -> known(BucketKey)
       [] op = "delete_object_meta" -> known(ObjectKey)
       [] op = "batch" -> TRUE

(* The log entry of the operation.  The batch is one that creates the      *)
(* bucket and puts the object.                                             *)
EntryOf(op, v) ==
  CASE op = "create_bucket" -> Single(BucketKey, SetCommand(v))
    [] op = "delete_bucket" -> Single(BucketKey, DeleteCommand)
    [] op = "put_object_meta" -> Single(ObjectKey, SetCommand(v))
    [] op = "delete_object_meta" -> Single(ObjectKey, DeleteCommand)
    [] op = "batch" -> [Single(BucketKey, SetCommand(v)) EXCEPT ![ObjectKey] = SetCommand(v)]

MetaOps == {"create_bucket", "delete_bucket", "put_object_meta", "delete_object_meta", "batch"}

(* Mutant of BeginWrite: ms.mu is not waited for.                          *)
BeginUnlocked(c, s, op, v) ==
  /\ metaCall[c].op = "none" /\ s \in ready
  /\ Passes(s, op) /\ leader = s
  /\ metaCall' = [metaCall EXCEPT ![c] =
       [op |-> op, srv |-> s, pc |-> "apply", batch |-> EntryOf(op, v), index |-> 0]]
  /\ upset' = (upset \/ \E u \in CallsAt(s) : "batch" \in {op, metaCall[u].op})
  /\ UNCHANGED <<raftVars, leader, cache, ready>>

(* A write starts: it takes ms.mu, and passes its checks and IsLeader.     *)
BeginWrite(c, s, op, v) ==
  /\ metaCall[c].op = "none" /\ s \in ready
  /\ op # "batch" => ms_muFree(s)
  /\ Passes(s, op) /\ leader = s
  /\ metaCall' = [metaCall EXCEPT ![c] =
       [op |-> op, srv |-> s, pc |-> "apply", batch |-> EntryOf(op, v), index |-> 0]]
  /\ upset' = (upset \/ \E u \in CallsAt(s) : "batch" \in {op, metaCall[u].op})
  /\ UNCHANGED <<raftVars, leader, cache, ready>>

(* applyRAFTCommand: the leader commits the entry; any other server, and a *)
(* leader that cannot enqueue it in time, returns an error.                *)
applyRAFTCommand(c) ==
  /\ metaCall[c].pc = "apply" /\ leader = metaCall[c].srv
  /\ Commit(metaCall[c].batch)
  /\ metaCall' = [metaCall EXCEPT ![c].pc = "wait", ![c].index = Len(log')]
  /\ UNCHANGED <<leader, cache, ready, upset>>

ApplyFails(c) ==
  /\ metaCall[c].pc = "apply"
  /\ metaCall' = [metaCall EXCEPT ![c] = MetaIdle]
  /\ UNCHANGED <<raftVars, leader, cache, ready, upset>>

(* The future resolves when the leader has applied the entry, or fails when*)
(* leadership was lost meanwhile, although the entry is committed.         *)
AwaitApplied(c) ==
  /\ metaCall[c].pc = "wait"
  /\ \/ /\ applied[metaCall[c].srv] >= metaCall[c].index
        /\ metaCall' = [metaCall EXCEPT ![c].pc = "cache"]
     \/ /\ leader # metaCall[c].srv
        /\ metaCall' = [metaCall EXCEPT ![c] = MetaIdle]
  /\ UNCHANGED <<raftVars, leader, cache, ready, upset>>

(* The cache is updated once RAFT has committed; ExecuteBatch takes ms.mu  *)
(* for that.                                                               *)
UpdateCache(c) ==
  /\ metaCall[c].pc = "cache"
  /\ metaCall[c].op = "batch" => ms_muFree(metaCall[c].srv)
  /\ cache' = [cache EXCEPT ![metaCall[c].srv] = After(@, metaCall[c].batch)]
  /\ metaCall' = [metaCall EXCEPT ![c] = MetaIdle]
  /\ UNCHANGED <<raftVars, leader, ready, upset>>

-----------------------------------------------------------------------------
(* The events after which a cache may differ from the log: another server  *)
(* leads, a server fills its cache before it has applied the whole log, and*)
(* a batch overlaps another write.                                         *)
Elect(s) ==
  /\ leader # s /\ leader' = s
  /\ upset' = (upset \/ Len(log) > 0)
  /\ UNCHANGED <<raftVars, cache, ready, metaCall>>

(* A server restarts: raft.NewRaft restores the snapshot, and replays the  *)
(* log as the leader tells it.  Another server leads by then, or the same. *)
RestartServer(s) ==
  /\ RestoreFrom(s, s)
  /\ ready' = ready \ {s}
  /\ metaCall' = [c \in MetaCalls |-> IF metaCall[c].srv = s THEN MetaIdle ELSE metaCall[c]]
  /\ leader' \in Servers
  /\ upset' = (upset \/ leader' # leader)
  /\ UNCHANGED cache

(* NewMetadataStore reads what the state machine holds at that time.       *)
initializeFromRAFT(s) ==
  /\ s \notin ready /\ ready' = ready \cup {s}
  /\ cache' = [cache EXCEPT ![s] = Shown[s]]
  /\ upset' = (upset \/ applied[s] < Len(log))
  /\ UNCHANGED <<raftVars, leader, metaCall>>

WriteStep(c) ==
  \/ \E s \in Servers, op \in MetaOps, v \in Values : BeginWrite(c, s, op, v)
  \/ applyRAFTCommand(c) \/ ApplyFails(c) \/ AwaitApplied(c) \/ UpdateCache(c)

MetaNext ==
  \/ \E c \in MetaCalls : WriteStep(c)
  \/ \E s \in Servers : Elect(s) \/ RestartServer(s) \/ initializeFromRAFT(s)
  \/ \E s \in Servers : (Apply(s) \/ Snapshot(s)) /\ UNCHANGED metaVars

MetaSpec == MetaInit /\ [][MetaNext]_<<raftVars, metaVars>>

-----------------------------------------------------------------------------
Current(s) == leader = s /\ s \in ready /\ CallsAt(s) = {} => cache[s] = agreed[Len(agreed)]

(* Under one leader, writes that hold ms.mu, failed writes and restarts    *)
(* from a complete snapshot keep the cache equal to what was committed: a  *)
(* strong read between writes returns the last of them.                    *)
CacheTracksLog == ~upset => \A s \in Servers : Current(s)
=============================================================================
