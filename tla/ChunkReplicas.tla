--------------------------- MODULE ChunkReplicas ---------------------------
(***************************************************************************)
(* The replica records of one chunk (pkg/storage/replication.go) and the   *)
(* repair engine that keeps them complete (repair.go).                     *)
(*                                                                         *)
(* The list of a chunk's replicas is a slice of pointers in a sync.Map.    *)
(* Every operation loads the slice, works on it and stores it back; only   *)
(* UpdateReplicaHealth and RemoveReplica exclude each other (rm.mu), so a  *)
(* store may drop a record that another operation has just added.  The     *)
(* transfer of the data is a placeholder in the code: a replica is its     *)
(* record, and the chunk itself stays readable here.                       *)
(***************************************************************************)
EXTENDS Naturals, Sequences, FiniteSets, FiniteSetsExt

CONSTANTS
  ReplicaNodes,       \* the target nodes of ReplicateChunk, one goroutine each
  Workers,            \* repair workers
  ReplicationFactor,
  QuorumWrites,       \* config.QuorumWrites
  QueueCap,           \* capacity of repairQueue
  MaxReplicaRecords,  \* bound: Replica structs allocated in a behaviour
  MaxFaults,          \* bound: replicas reported stale or corrupted
  MaxReads            \* bound: reads that run ReadRepair

ASSUME ReplicaAssumption ==
  /\ ReplicationFactor \in 1..Cardinality(ReplicaNodes)
  /\ QuorumWrites \in BOOLEAN
  /\ QueueCap \in Nat \ {0} /\ MaxReplicaRecords \in Nat /\ MaxFaults \in Nat /\ MaxReads \in Nat

NewNode == "new-node"  \* the placeholder target of repairMissingReplica
Reporter == "reporter" \* the caller of UpdateReplicaHealth and VerifyReplica
Reader == "reader"     \* the goroutine of ReadRepair
Putters == ReplicaNodes
Actors == Putters \cup Workers \cup {Reporter, Reader}

VARIABLES
  list,       \* rm.replicas[chunk]: a sequence of record IDs
  rec,        \* [RecordIds -> [node, status]]: the Replica structs, or NoReplica
  todo,       \* [Actors -> the operations each has left]
  held,       \* [Actors -> <<the slice its operation has loaded>>, or NotLoaded]
  put,        \* ReplicateChunk: "idle", "running" or "acked"
  acks,       \* successCount of ReplicateChunk
  queue,      \* re.repairQueue
  engine,     \* "running", "cancelled", "closed" or "stopped"
  loop,       \* antiEntropyLoop: "wait", "count", "scan" or "done"
  alive,      \* the workers that have not returned
  panicked,   \* a task was sent on the closed queue
  faults, reads,
  overlapped  \* history: two operations on the list have overlapped

replicaVars == <<list, rec, todo, held, put, acks, queue, engine, loop, alive, panicked, faults, reads, overlapped>>
repairVars == <<queue, engine, loop, alive, panicked>>

RecordIds == 1..MaxReplicaRecords
NoReplica == [node |-> NewNode, status |-> "none"]
NotLoaded == <<>>
slice(a) == held[a][1]
Op(kind, node, status) == [kind |-> kind, node |-> node, status |-> status]
Source == Op("source", NewNode, "healthy")
AppendTo(n) == Op("append", n, "healthy")
Quorum == IF QuorumWrites THEN ReplicationFactor \div 2 + 1 ELSE 1

Healthy == {i \in DOMAIN list : rec[list[i]].status = "healthy"}
HasEnough == Cardinality(Healthy) >= ReplicationFactor

ReplicaInit ==
  /\ list = <<>> /\ rec = [r \in RecordIds |-> NoReplica]
  /\ todo = [a \in Actors |-> <<>>]
  /\ held = [a \in Actors |-> NotLoaded]
  /\ put = "idle" /\ acks = 0
  /\ queue = <<>> /\ engine = "running" /\ loop = "wait" /\ alive = Workers /\ panicked = FALSE
  /\ faults = 0 /\ reads = 0 /\ overlapped = FALSE

-----------------------------------------------------------------------------
(* SelectPrimaryReplica in RepairReplica: with no healthy record the repair*)
(* fails and what is left of its task is dropped.                          *)
SelectPrimaryReplica(a) ==
  /\ todo[a] # <<>> /\ Head(todo[a]).kind = "source"
  /\ todo' = [todo EXCEPT ![a] = IF Healthy = {} THEN <<>> ELSE Tail(@)]
  /\ UNCHANGED <<list, rec, held, put, acks, repairVars, faults, reads, overlapped>>

rm_mu == {"status", "remove"}
rm_muFree == \A a \in Actors : held[a] # NotLoaded => Head(todo[a]).kind \notin rm_mu

LoadReplicas(a) ==
  /\ todo[a] # <<>> /\ Head(todo[a]).kind # "source" /\ held[a] = NotLoaded
  /\ Head(todo[a]).kind \in rm_mu => rm_muFree
  /\ held' = [held EXCEPT ![a] = <<list>>]
  /\ overlapped' = (overlapped \/ \E b \in Actors : held[b] # NotLoaded)
  /\ UNCHANGED <<list, rec, todo, put, acks, repairVars, faults, reads>>

(* The structs that no slice points to any more; their space is used again.*)
Unused == RecordIds \ (Range(list) \cup UNION {Range(slice(a)) : a \in {a \in Actors : held[a] # NotLoaded}})
newRecord == CHOOSE r \in Unused : TRUE

(* Mutant of AppendReplica: the record becomes the whole list.             *)
AppendReplicaAlone(a, n) ==
  /\ Unused # {}
  /\ rec' = [rec EXCEPT ![newRecord] = [node |-> n, status |-> "healthy"]]
  /\ list' = <<newRecord>>

(* replicateToNode: a record more, whether the node has one or not.        *)
AppendReplica(a, n) ==
  /\ Unused # {}
  /\ rec' = [rec EXCEPT ![newRecord] = [node |-> n, status |-> "healthy"]]
  /\ list' = Append(slice(a), newRecord)

(* UpdateReplicaHealth: the first record of the node, through its pointer. *)
UpdateReplicaHealth(a, n, status) ==
  LET mine == {i \in DOMAIN slice(a) : rec[slice(a)[i]].node = n} IN
    IF mine = {} THEN UNCHANGED <<list, rec>>
    ELSE /\ rec' = [rec EXCEPT ![slice(a)[Min(mine)]].status = status]
         /\ list' = slice(a)

(* VerifyReplica sets the verification time only.                          *)
VerifyReplica(a, n) ==
  /\ list' = IF \E i \in DOMAIN slice(a) : rec[slice(a)[i]].node = n THEN slice(a) ELSE list
  /\ rec' = rec

(* RemoveReplica: every record of the node.                                *)
RemoveReplica(a, n) ==
  /\ list' = SelectSeq(slice(a), LAMBDA r : rec[r].node # n)
  /\ rec' = rec

StoreReplicas(a) ==
  /\ held[a] # NotLoaded
  /\ LET op == Head(todo[a]) IN
       CASE op.kind = "append" -> AppendReplica(a, op.node)
         [] op.kind = "status" -> UpdateReplicaHealth(a, op.node, op.status)
         [] op.kind = "verify" -> VerifyReplica(a, op.node)
         [] op.kind = "remove" -> RemoveReplica(a, op.node)
  /\ todo' = [todo EXCEPT ![a] = Tail(@)]
  /\ held' = [held EXCEPT ![a] = NotLoaded]
  /\ acks' = IF a \in Putters THEN acks + 1 ELSE acks
  /\ UNCHANGED <<put, repairVars, faults, reads, overlapped>>

-----------------------------------------------------------------------------
(* ReplicateChunk starts a goroutine for each of the first                 *)
(* ReplicationFactor targets and counts the ones that succeed.             *)
ReplicateChunk ==
  /\ put = "idle"
  /\ \E targets \in kSubset(ReplicationFactor, ReplicaNodes) :
       todo' = [a \in Actors |-> IF a \in targets THEN <<AppendTo(a)>> ELSE todo[a]]
  /\ put' = "running"
  /\ UNCHANGED <<list, rec, held, acks, repairVars, faults, reads, overlapped>>

Acknowledge ==
  /\ put = "running" /\ \A a \in Putters : todo[a] = <<>>
  /\ acks >= Quorum
  /\ put' = "acked"
  /\ UNCHANGED <<list, rec, todo, held, acks, repairVars, faults, reads, overlapped>>

(* A monitor reports a replica; VerifyReplica has no effect on the status. *)
Report(n, op) ==
  /\ todo[Reporter] = <<>> /\ faults < MaxFaults /\ put = "acked"
  /\ todo' = [todo EXCEPT ![Reporter] = <<op>>]
  /\ faults' = faults + 1
  /\ UNCHANGED <<list, rec, held, put, acks, repairVars, reads, overlapped>>

(* ReadRepair, after a read: a record more for each stale one.             *)
ReadRepair ==
  /\ todo[Reader] = <<>> /\ reads < MaxReads
  /\ \E i \in DOMAIN list : rec[list[i]].status = "stale"
  /\ LET stale == SelectSeq(list, LAMBDA r : rec[r].status = "stale") IN
       todo' = [todo EXCEPT ![Reader] = [i \in DOMAIN stale |-> AppendTo(rec[stale[i]].node)]]
  /\ reads' = reads + 1
  /\ UNCHANGED <<list, rec, held, put, acks, repairVars, faults, overlapped>>

-----------------------------------------------------------------------------
(* A send with a default case: dropped when the queue is full; on a closed *)
(* channel it panics.                                                      *)
Send(tasks) ==
  /\ queue' = SubSeq(queue \o tasks, 1, Min({Len(queue) + Len(tasks), QueueCap}))
  /\ panicked' = (panicked \/ (tasks # <<>> /\ engine \in {"closed", "stopped"}))

Tick ==
  /\ loop = "wait" /\ put # "idle"
  /\ loop' = "count"
  /\ UNCHANGED <<list, rec, todo, held, put, acks, queue, engine, alive, panicked, faults, reads, overlapped>>

(* checkChunkHealth: too few healthy records ...                           *)
CheckReplicationHealth ==
  /\ loop = "count"
  /\ Send(IF HasEnough THEN <<>> ELSE <<[type |-> "missing", node |-> NewNode]>>)
  /\ loop' = "scan"
  /\ UNCHANGED <<list, rec, todo, held, put, acks, engine, alive, faults, reads, overlapped>>

(* ... and each corrupted or stale one.                                    *)
ScanReplicas ==
  /\ loop = "scan"
  /\ IF Healthy = DOMAIN list THEN UNCHANGED <<queue, panicked>>
     ELSE LET bad == SelectSeq(list, LAMBDA r : rec[r].status # "healthy") IN
            Send([i \in DOMAIN bad |-> [type |-> rec[bad[i]].status, node |-> rec[bad[i]].node]])
  /\ loop' = "wait"
  /\ UNCHANGED <<list, rec, todo, held, put, acks, engine, alive, faults, reads, overlapped>>

(* Mutant of LoopExit: the cancellation is seen only between two checks.   *)
LoopExitChecking ==
  /\ loop = "count" /\ engine # "running"
  /\ loop' = "done"
  /\ UNCHANGED <<list, rec, todo, held, put, acks, queue, engine, alive, panicked, faults, reads, overlapped>>

LoopExit ==
  /\ loop = "wait" /\ engine # "running"
  /\ loop' = "done"
  /\ UNCHANGED <<list, rec, todo, held, put, acks, queue, engine, alive, panicked, faults, reads, overlapped>>

(* Mutant of RepairOps: a missing replica is not made.                     *)
RepairOpsUncopied(task) ==
  CASE task.type = "missing" -> <<Source>>
    [] task.type = "corrupted" -> <<Op("remove", task.node, "healthy"), Source, AppendTo(task.node)>>
    [] task.type = "stale" -> <<Source, AppendTo(task.node), Op("status", task.node, "healthy")>>

RepairOps(task) ==
  CASE task.type = "missing" -> <<Source, AppendTo(task.node)>>
    [] task.type = "corrupted" -> <<Op("remove", task.node, "healthy"), Source, AppendTo(task.node)>>
    [] task.type = "stale" -> <<Source, AppendTo(task.node), Op("status", task.node, "healthy")>>

(* repairWorker takes a task, even after a cancellation: select picks any  *)
(* case that is ready.                                                     *)
TakeTask(w) ==
  /\ w \in alive /\ todo[w] = <<>> /\ queue # <<>>
  /\ todo' = [todo EXCEPT ![w] = RepairOps(Head(queue))]
  /\ queue' = Tail(queue)
  /\ UNCHANGED <<list, rec, held, put, acks, engine, loop, alive, panicked, faults, reads, overlapped>>

WorkerExit(w) ==
  /\ w \in alive /\ todo[w] = <<>>
  /\ engine # "running" \/ (engine = "closed" /\ queue = <<>>)
  /\ alive' = alive \ {w}
  /\ UNCHANGED <<list, rec, todo, held, put, acks, queue, engine, loop, panicked, faults, reads, overlapped>>

(* Stop: cancel, close the queue, wait for the loop and the workers.       *)
StopEngine ==
  /\ \/ engine = "running" /\ engine' = "cancelled"
     \/ engine = "cancelled" /\ engine' = "closed"
     \/ engine = "closed" /\ loop = "done" /\ alive = {} /\ engine' = "stopped"
  /\ UNCHANGED <<list, rec, todo, held, put, acks, queue, loop, alive, panicked, faults, reads, overlapped>>

-----------------------------------------------------------------------------
OperationStep(a) == SelectPrimaryReplica(a) \/ LoadReplicas(a) \/ StoreReplicas(a)
LoopStep == Tick \/ CheckReplicationHealth \/ ScanReplicas

(* A panic ends the process.                                               *)
ReplicaNext ==
  /\ ~panicked
  /\ \/ ReplicateChunk \/ Acknowledge \/ ReadRepair
     \/ \E n \in ReplicaNodes : \/ \E s \in {"stale", "corrupted"} : Report(n, Op("status", n, s))
                                \/ Report(n, Op("verify", n, "healthy"))
     \/ \E a \in Actors : OperationStep(a)
     \/ LoopStep \/ LoopExit \/ StopEngine
     \/ \E w \in Workers : TakeTask(w) \/ WorkerExit(w)

(* Goroutines that can run do; a select with two cases ready picks each of *)
(* them again and again.  Stop is never forced to begin.                   *)
ReplicaFairness ==
  /\ \A a \in Actors : WF_replicaVars(~panicked /\ OperationStep(a))
  /\ WF_replicaVars(~panicked /\ LoopStep)
  /\ SF_replicaVars(~panicked /\ LoopExit)
  /\ \A w \in Workers : WF_replicaVars(~panicked /\ TakeTask(w))
                       /\ SF_replicaVars(~panicked /\ WorkerExit(w))
  /\ WF_replicaVars(~panicked /\ engine # "running" /\ StopEngine)

ReplicaSpec == ReplicaInit /\ [][ReplicaNext]_replicaVars /\ ReplicaFairness

-----------------------------------------------------------------------------
(* A ReplicateChunk that returned has recorded a healthy replica, and a    *)
(* quorum of them when no two operations on the list overlapped; reports of*)
(* bad replicas aside.                                                     *)
AckedIsRecorded ==
  put = "acked" /\ faults = 0 =>
    Cardinality(Healthy) >= IF overlapped THEN 1 ELSE Quorum

(* While the engine runs, the chunk ends up with enough healthy records for*)
(* good, or with no healthy record to copy from, whatever records were     *)
(* lost to overlapping operations, a full queue or repeated tasks.         *)
RepairConverges ==
  (put = "acked") ~> ([](HasEnough \/ Healthy = {}) \/ engine # "running")

(* Stop waits for the loop and the workers and returns, unless one of them *)
(* panics.                                                                 *)
StopReturns == (engine = "cancelled") ~> (engine = "stopped" \/ panicked)
=============================================================================
