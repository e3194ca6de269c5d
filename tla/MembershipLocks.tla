--------------------------- MODULE MembershipLocks ---------------------------
(***************************************************************************)
(* The two locks of the membership manager, m.mu and m.assignmentMu        *)
(* (pkg/coordinator/membership/manager.go), and the order in which each    *)
(* handler takes and releases them.  Membership treats a handler as one    *)
(* step under m.mu; here a handler is the sequence of its lock operations, *)
(* run by a goroutine of the gRPC server or of a ticker, and the handlers  *)
(* interleave between any two of them.                                     *)
(***************************************************************************)
EXTENDS Naturals, Sequences, FiniteSets

CONSTANTS
  Goroutines,   \* goroutines that call the manager
  Calls,     \* the handlers they call
  NoThread   \* no goroutine has the write lock

ASSUME NoThreadAssumption == NoThread \notin Goroutines

Locks == {"mu", "assignmentMu"}
LockOp(lock, kind) == [lock |-> lock, kind |-> kind]

Locked(lock, body) == <<LockOp(lock, "Lock")>> \o body \o <<LockOp(lock, "Unlock")>>
RLocked(lock) == <<LockOp(lock, "RLock"), LockOp(lock, "RUnlock")>>

-----------------------------------------------------------------------------
(* EnrollNode, UncordonNode, checkNodeHealth, updateReliabilityScores,     *)
(* removeExpiredNodes, and DrainNode when its save fails.                  *)
writeNodes == Locked("mu", << >>)

(* Mutant of readNodes: an early return without the unlock.                *)
readNodesLeaking == <<LockOp("mu", "RLock")>>

(* GetNode, ListNodes, GetActiveNodeCount, GetClusterStatus.               *)
readNodes == RLocked("mu")

(* Mutant of ProcessHeartbeat: m.assignmentMu is not released.             *)
ProcessHeartbeatLeaking == Locked("mu", <<LockOp("assignmentMu", "Lock")>>)

ProcessHeartbeat == Locked("mu", Locked("assignmentMu", << >>))

(* QueueAssignment and QueueCommand look the node up with their own lock   *)
(* held.                                                                   *)
QueueAssignment == Locked("assignmentMu", RLocked("mu"))

(* DrainNode runs triggerWorkloadMigration under its own deferred unlock;  *)
(* one container is on the node, so one command is queued.                 *)
triggerWorkloadMigration == RLocked("mu") \o QueueAssignment
DrainNode == Locked("mu", triggerWorkloadMigration)

GetPendingAssignmentCount == RLocked("assignmentMu")

Program ==
  [writeNodes |-> writeNodes, readNodes |-> readNodes,
   ProcessHeartbeat |-> ProcessHeartbeat, QueueAssignment |-> QueueAssignment,
   DrainNode |-> DrainNode, GetPendingAssignmentCount |-> GetPendingAssignmentCount]

ASSUME CallsAssumption == Calls \subseteq DOMAIN Program

VARIABLES
  call,      \* [Goroutines -> the handler each one runs, or "none"]
  lockPc,        \* [Goroutines -> Nat]: the lock operation it is at
  writer,    \* [Locks -> the goroutine with the write lock, or NoThread]
  readers,   \* [Locks -> the goroutines with the read lock]
  announced  \* [Locks -> the goroutine in Lock that waits for the readers, or NoThread]

lockVars == <<call, lockPc, writer, readers, announced>>

LocksInit ==
  /\ call = [t \in Goroutines |-> "none"] /\ lockPc = [t \in Goroutines |-> 1]
  /\ writer = [l \in Locks |-> NoThread] /\ announced = [l \in Locks |-> NoThread]
  /\ readers = [l \in Locks |-> {}]

InCall(t) == call[t] # "none"
AtOp(t, kind) == InCall(t) /\ Program[call[t]][lockPc[t]].kind = kind
LockOf(t) == Program[call[t]][lockPc[t]].lock

(* The goroutine moves to its next lock operation, or returns.             *)
Advance(t) ==
  IF lockPc[t] = Len(Program[call[t]])
  THEN call' = [call EXCEPT ![t] = "none"] /\ lockPc' = [lockPc EXCEPT ![t] = 1]
  ELSE call' = call /\ lockPc' = [lockPc EXCEPT ![t] = @ + 1]

Invoke(t, c) ==
  /\ ~InCall(t)
  /\ call' = [call EXCEPT ![t] = c]
  /\ UNCHANGED <<lockPc, writer, readers, announced>>

(* sync.RWMutex.  A writer first keeps the other writers and the new       *)
(* readers out, then waits for the readers that hold the lock.             *)
Announce(t) ==
  /\ AtOp(t, "Lock")
  /\ writer[LockOf(t)] = NoThread /\ announced[LockOf(t)] = NoThread
  /\ announced' = [announced EXCEPT ![LockOf(t)] = t]
  /\ UNCHANGED <<call, lockPc, writer, readers>>

Lock(t) ==
  /\ AtOp(t, "Lock")
  /\ announced[LockOf(t)] = t /\ readers[LockOf(t)] = {}
  /\ writer' = [writer EXCEPT ![LockOf(t)] = t]
  /\ announced' = [announced EXCEPT ![LockOf(t)] = NoThread]
  /\ Advance(t)
  /\ UNCHANGED readers

(* A reader waits for a writer that holds the lock or has announced itself.*)
RLock(t) ==
  /\ AtOp(t, "RLock")
  /\ writer[LockOf(t)] = NoThread /\ announced[LockOf(t)] = NoThread
  /\ readers' = [readers EXCEPT ![LockOf(t)] = @ \cup {t}]
  /\ Advance(t)
  /\ UNCHANGED <<writer, announced>>

Unlock(t) ==
  /\ AtOp(t, "Unlock")
  /\ writer' = [writer EXCEPT ![LockOf(t)] = NoThread]
  /\ Advance(t)
  /\ UNCHANGED <<readers, announced>>

RUnlock(t) ==
  /\ AtOp(t, "RUnlock")
  /\ readers' = [readers EXCEPT ![LockOf(t)] = @ \ {t}]
  /\ Advance(t)
  /\ UNCHANGED <<writer, announced>>

Step(t) == Announce(t) \/ Lock(t) \/ RLock(t) \/ Unlock(t) \/ RUnlock(t)

LocksNext ==
  \/ \E t \in Goroutines, c \in Calls : Invoke(t, c)
  \/ \E t \in Goroutines : Announce(t)
  \/ \E t \in Goroutines : Lock(t)
  \/ \E t \in Goroutines : RLock(t)
  \/ \E t \in Goroutines : Unlock(t)
  \/ \E t \in Goroutines : RUnlock(t)

LocksSpec == LocksInit /\ [][LocksNext]_lockVars

(* A goroutine that can go on does, and one that waits for a lock gets it  *)
(* when it is free often enough (Unlock hands the lock to the readers and  *)
(* the writers that wait).  Nobody need call.                              *)
LocksFairness == \A t \in Goroutines : SF_lockVars(Step(t))
LocksFairSpec == LocksSpec /\ LocksFairness
-----------------------------------------------------------------------------
Waits(t, lock) == (AtOp(t, "Lock") \/ AtOp(t, "RLock")) /\ LockOf(t) = lock
Holds(t, lock) == writer[lock] = t \/ t \in readers[lock]

(* A heartbeat holds m.mu and waits for m.assignmentMu, which a goroutine  *)
(* in QueueAssignment holds while it waits for m.mu.                       *)
Inversion ==
  \E t, u \in Goroutines :
    /\ Holds(t, "mu") /\ Waits(t, "assignmentMu")
    /\ Holds(u, "assignmentMu") /\ Waits(u, "mu")

(* DrainNode waits for the lock it holds.                                  *)
SelfWait == \E t \in Goroutines, l \in Locks : Holds(t, l) /\ Waits(t, l)

(* The manager's handlers can block each other for good in two ways only:  *)
(* the lock-order inversion of ProcessHeartbeat (manager.go:386, :509) and *)
(* QueueAssignment (:1006, :1010), and DrainNode's wait for its own lock   *)
(* (:664, :1055).  In every other state some goroutine in a handler can    *)
(* take its next step.                                                     *)
OnlyTwoDeadlocks ==
  (\E t \in Goroutines : InCall(t)) =>
    (\E t \in Goroutines : ENABLED Step(t)) \/ Inversion \/ SelfWait

(* Every call returns, whatever readers, writers, heartbeats, queueing and *)
(* draining interleave with it, unless one of these two has happened: the  *)
(* locks starve nobody.                                                    *)
CallsReturn == \A t \in Goroutines : InCall(t) ~> (~InCall(t) \/ Inversion \/ SelfWait)
=============================================================================
