---------------------------- MODULE WorkloadState ----------------------------
(***************************************************************************)
(* One workload ID as the leader's coordinator keeps it: the record in the *)
(* RAFT store, the WorkloadStateManager's cache of pointers to records     *)
(* (pkg/coordinator/state_manager.go), and the gRPC handlers that create,  *)
(* read, update, scale, reschedule and delete it (grpc_handlers.go), run   *)
(* concurrently.                                                           *)
(*                                                                         *)
(* wsm.mu protects the cache map only: a handler gets a pointer, changes   *)
(* the record it points to with no lock held, and saves it later.  Records *)
(* are therefore modelled as objects on a heap that the cache and the      *)
(* handlers share.                                                         *)
(*                                                                         *)
(* A record's Replicas, and the counts computed from it, are not kept: the *)
(* only operation that adds a replica is AddReplica and no handler calls   *)
(* it, so CurrentReplicas is 0 and the loops over Replicas in the handlers *)
(* are empty.  The operations on replicas (state_manager.go:286-498) are   *)
(* not modelled here.                                                      *)
(***************************************************************************)
EXTENDS Naturals, FiniteSets

CONSTANTS
  Threads,       \* concurrent gRPC calls
  Edits,         \* the changes that UpdateWorkload and ScaleWorkload calls make
  MaxDesired,    \* the largest replica count asked for
  MaxObjects,    \* bound: records allocated in a behaviour
  MaxFragments,  \* bound: fragments placed in a behaviour
  MaxRestarts,   \* bound: restarts in a behaviour
  NoContent      \* no record

ASSUME BoundAssumption ==
  /\ MaxDesired \in Nat \ {0} /\ MaxObjects \in Nat \ {0}
  /\ MaxFragments \in Nat /\ MaxRestarts \in Nat

Statuses == {"Pending", "Scheduling", "Running", "Updating", "Scaling", "Failed", "Deleting"}

(* The edits made to the record, instead of the fields they change.        *)
Content == [status : Statuses, desired : 1..MaxDesired, deleted : BOOLEAN, edits : SUBSET Edits]

ASSUME NoContentAssumption == NoContent \notin Content

NoObject == 0
Objects == 1..MaxObjects

VARIABLES
  heap,       \* [Objects -> Content]: the *WorkloadState records of the process
  allocated,  \* how many of them exist
  cache,      \* wsm.cache[id]: an object or NoObject
  raft,       \* the record in the RAFT log, applied in full
  fsm,        \* the record in this store's FSM, which lags behind after a restart
  snapshot,   \* the record in the last RAFT snapshot
  thread,     \* [Threads -> what each handler is doing]
  fragments,  \* "run" assignments queued, less the "stop" assignments
  restarts,
  used,       \* edits some call has brought
  denied,     \* edits that admission control turned down
  failed,     \* a store operation has failed or an update was denied
  stale,      \* a record was read that RAFT had overtaken
  forked      \* two objects of the workload have been in use at once

storeVars == <<cache, raft, fsm, snapshot>>
histVars == <<used, denied, failed, stale, forked>>
vars == <<heap, allocated, storeVars, thread, fragments, restarts, histVars>>

Ops == {"idle", "create", "read", "update", "scale", "reschedule", "delete", "purge"}
PCs == {"get", "insert", "change", "save", "mark", "place", "finish", "purge"}
Idle == [op |-> "idle", pc |-> "get", obj |-> NoObject]

Init ==
  /\ heap = [o \in Objects |->
       [status |-> "Pending", desired |-> 1, deleted |-> FALSE, edits |-> {}]]
  /\ allocated = 0 /\ cache = NoObject
  /\ raft = NoContent /\ fsm = NoContent /\ snapshot = NoContent
  /\ thread = [t \in Threads |-> Idle]
  /\ fragments = 0 /\ restarts = 0
  /\ used = {} /\ denied = {}
  /\ failed = FALSE /\ stale = FALSE /\ forked = FALSE

At(t, pc) == thread[t].op # "idle" /\ thread[t].pc = pc
Goto(t, pc) == thread' = [thread EXCEPT ![t].pc = pc]
Return(t) == thread' = [thread EXCEPT ![t] = Idle]
Others(t) == {u \in Threads \ {t} : thread[u].obj # NoObject}
Quiescent == \A t \in Threads : thread[t].op = "idle"

-----------------------------------------------------------------------------
(* store.Set: an error either wrote nothing or comes from a leadership     *)
(* lost after the entry was written.                                       *)
StoreWrite(value, ok) ==
  /\ \/ raft' = value
     \/ ~ok /\ raft' = raft
  /\ fsm' = raft' /\ snapshot' = snapshot

(* Mutant of SaveWorkload: the cache keeps the object it has.              *)
SaveWorkloadUncached(t, ok) ==
  /\ StoreWrite(heap[thread[t].obj], ok)
  /\ cache' = IF cache = NoObject THEN thread[t].obj ELSE cache

(* SaveWorkload: the record as it is when the lock is held; the cache      *)
(* points to it only if the write succeeded.                               *)
SaveWorkload(t, ok) ==
  /\ StoreWrite(heap[thread[t].obj], ok)
  /\ cache' = IF ok THEN thread[t].obj ELSE cache

-----------------------------------------------------------------------------
(* CreateWorkload.  No check that the ID is free: the new record replaces  *)
(* any other.  An admission refusal changes nothing.                       *)
Create(t, d) ==
  /\ thread[t].op = "idle" /\ allocated < MaxObjects
  /\ allocated' = allocated + 1
  /\ heap' = [heap EXCEPT ![allocated'] =
       [status |-> "Pending", desired |-> d, deleted |-> FALSE, edits |-> {}]]
  /\ thread' = [thread EXCEPT ![t] = [op |-> "create", pc |-> "save", obj |-> allocated']]
  /\ forked' = (forked \/ raft # NoContent \/ cache # NoObject \/ Others(t) # {})
  /\ UNCHANGED <<storeVars, fragments, restarts, used, denied, failed, stale>>

(* The first save; the status becomes Scheduling once it succeeds.         *)
CreateSave(t, ok) ==
  /\ At(t, "save") /\ thread[t].op = "create"
  /\ SaveWorkload(t, ok)
  /\ IF ok THEN /\ Goto(t, "mark")
                /\ heap' = [heap EXCEPT ![thread[t].obj].status = "Scheduling"]
           ELSE Return(t) /\ heap' = heap
  /\ failed' = (failed \/ ~ok)
  /\ UNCHANGED <<allocated, fragments, restarts, used, denied, stale, forked>>

(* The second save; an error is only logged.                               *)
CreateMark(t, ok) ==
  /\ At(t, "mark")
  /\ SaveWorkload(t, ok)
  /\ Goto(t, "place")
  /\ failed' = (failed \/ ~ok)
  /\ UNCHANGED <<heap, allocated, fragments, restarts, used, denied, stale, forked>>

(* The scheduler returns placements for some or all of the replicas and    *)
(* each assignment may fail to be queued; or it returns an error.          *)
CreatePlace(t, placed, ok) ==
  /\ At(t, "place") /\ thread[t].op = "create"
  /\ placed \in 0..(IF ok THEN heap[thread[t].obj].desired ELSE 0)
  /\ fragments + placed <= MaxFragments
  /\ fragments' = fragments + placed
  /\ heap' = [heap EXCEPT ![thread[t].obj].status = IF ok THEN "Running" ELSE "Failed"]
  /\ Goto(t, "finish")
  /\ UNCHANGED <<allocated, storeVars, restarts, histVars>>

(* The last save, of Running or of Failed; an error is ignored.            *)
CreateFinish(t, ok) ==
  /\ At(t, "finish")
  /\ SaveWorkload(t, ok)
  /\ Return(t)
  /\ failed' = (failed \/ ~ok)
  /\ UNCHANGED <<heap, allocated, fragments, restarts, used, denied, stale, forked>>

-----------------------------------------------------------------------------
(* A handler that starts with GetWorkload.                                 *)
Call(t, op) ==
  /\ thread[t].op = "idle"
  /\ thread' = [thread EXCEPT ![t] = [op |-> op, pc |-> "get", obj |-> NoObject]]
  /\ UNCHANGED <<heap, allocated, storeVars, fragments, restarts, histVars>>

(* What a handler does with the record it got.  (DeleteWorkload gets it    *)
(* twice, and uses the first only for its empty Replicas.)                 *)
Continue(t, o) ==
  thread' = [thread EXCEPT ![t] =
    IF @.op = "read" THEN Idle
    ELSE [op |-> @.op, pc |-> IF @.op = "reschedule" THEN "place" ELSE "change", obj |-> o]]

(* Mutant of GetWorkload: a caller gets a copy of the cached record.       *)
GetWorkloadCopy(t) ==
  /\ At(t, "get") /\ cache # NoObject /\ allocated < MaxObjects
  /\ allocated' = allocated + 1
  /\ heap' = [heap EXCEPT ![allocated'] = heap[cache]]
  /\ Continue(t, allocated')
  /\ UNCHANGED <<storeVars, fragments, restarts, histVars>>

(* GetWorkload, first part: the cached pointer; or else the FSM's record,  *)
(* unmarshalled into a new object; or an error if there is none.           *)
GetWorkload(t) ==
  /\ At(t, "get")
  /\ \/ /\ cache # NoObject
        /\ Continue(t, cache)
        /\ UNCHANGED <<heap, allocated, stale, forked>>
     \/ /\ cache = NoObject /\ fsm = NoContent
        /\ Return(t)
        /\ stale' = (stale \/ fsm # raft)
        /\ UNCHANGED <<heap, allocated, forked>>
     \/ /\ cache = NoObject /\ fsm # NoContent /\ allocated < MaxObjects
        /\ allocated' = allocated + 1
        /\ heap' = [heap EXCEPT ![allocated'] = fsm]
        /\ thread' = [thread EXCEPT ![t].pc = "insert", ![t].obj = allocated']
        /\ stale' = (stale \/ fsm # raft)
        /\ forked' = (forked \/ Others(t) # {})
  /\ UNCHANGED <<storeVars, fragments, restarts, used, denied, failed>>

(* GetWorkload, second part: the new object goes into the cache, whatever  *)
(* the cache holds by now.                                                 *)
InsertWorkload(t) ==
  /\ At(t, "insert")
  /\ cache' = thread[t].obj
  /\ Continue(t, thread[t].obj)
  /\ forked' = (forked \/ cache \notin {NoObject, thread[t].obj})
  /\ stale' = (stale \/ raft # heap[thread[t].obj])
  /\ UNCHANGED <<heap, allocated, raft, fsm, snapshot, fragments, restarts, used, denied, failed>>

-----------------------------------------------------------------------------
(* The record as UpdateWorkload changes it.  A request with no spec leaves *)
(* the status alone; a replica count of zero leaves the count alone.       *)
Updated(rec, e, spec, d) ==
  [rec EXCEPT !.edits = @ \cup {e}, !.status = IF spec THEN "Updating" ELSE @,
              !.desired = IF spec /\ d > 0 THEN d ELSE @]

(* UpdateWorkload changes the shared record and then asks the admission    *)
(* control; a refusal returns without undoing the change.                  *)
UpdateChange(t, e, admitted, spec, d) ==
  /\ At(t, "change") /\ thread[t].op = "update" /\ e \notin used
  /\ used' = used \cup {e}
  /\ heap' = [heap EXCEPT ![thread[t].obj] = Updated(@, e, spec, d)]
  /\ IF admitted THEN Goto(t, "save") ELSE Return(t)
  /\ denied' = IF admitted THEN denied ELSE denied \cup {e}
  /\ failed' = (failed \/ ~admitted)
  /\ UNCHANGED <<allocated, storeVars, fragments, restarts, stale, forked>>

(* The record as ScaleWorkload changes it.                                 *)
Scaled(rec, e, d) == [rec EXCEPT !.edits = @ \cup {e}, !.status = "Scaling", !.desired = d]

ScaleChange(t, e, d) ==
  /\ At(t, "change") /\ thread[t].op = "scale" /\ e \notin used
  /\ used' = used \cup {e}
  /\ heap' = [heap EXCEPT ![thread[t].obj] = Scaled(@, e, d)]
  /\ Goto(t, "save")
  /\ UNCHANGED <<allocated, storeVars, fragments, restarts, denied, failed, stale, forked>>

(* The state manager's DeleteWorkload.                                     *)
DeleteChange(t) ==
  /\ At(t, "change") /\ thread[t].op \in {"delete", "purge"}
  /\ heap' = [heap EXCEPT ![thread[t].obj] =
       [@ EXCEPT !.deleted = TRUE, !.status = "Deleting"]]
  /\ Goto(t, "save")
  /\ UNCHANGED <<allocated, storeVars, fragments, restarts, histVars>>

(* The save of an update, a scaling or a deletion; an error is returned.   *)
ChangeSave(t, ok) ==
  /\ At(t, "save") /\ thread[t].op \in {"update", "scale", "delete", "purge"}
  /\ SaveWorkload(t, ok)
  /\ IF ~ok \/ thread[t].op \in {"update", "delete"} THEN Return(t)
     ELSE Goto(t, IF thread[t].op = "scale" THEN "place" ELSE "purge")
  /\ failed' = (failed \/ ~ok)
  /\ UNCHANGED <<heap, allocated, fragments, restarts, used, denied, stale, forked>>

(* ScaleWorkload sees no current replicas and places as many new ones as   *)
(* are desired; a scheduling error is returned.  Reschedule does the same  *)
(* and has no running replica to stop.                                     *)
PlaceMore(t, placed) ==
  /\ At(t, "place") /\ thread[t].op \in {"scale", "reschedule"}
  /\ placed \in 0..heap[thread[t].obj].desired
  /\ fragments + placed <= MaxFragments
  /\ fragments' = fragments + placed
  /\ Return(t)
  /\ UNCHANGED <<heap, allocated, storeVars, restarts, histVars>>

(* PurgeWorkload; its error is only logged.                                *)
PurgeWorkload(t, ok) ==
  /\ At(t, "purge")
  /\ StoreWrite(NoContent, ok)
  /\ cache' = IF ok THEN NoObject ELSE cache
  /\ Return(t)
  /\ failed' = (failed \/ ~ok)
  /\ UNCHANGED <<heap, allocated, fragments, restarts, used, denied, stale, forked>>

-----------------------------------------------------------------------------
(* RAFT compacts its log; explored while a restart can still read it.      *)
TakeSnapshot ==
  /\ restarts < MaxRestarts
  /\ snapshot # fsm /\ snapshot' = fsm
  /\ UNCHANGED <<heap, allocated, cache, raft, fsm, thread, fragments, restarts, histVars>>

(* The process ends and starts again.  loadFromRAFT runs before the log is *)
(* replayed: it finds what the snapshot holds, or what is replayed by then.*)
Restart ==
  /\ restarts < MaxRestarts
  /\ restarts' = restarts + 1
  /\ thread' = [t \in Threads |-> Idle]
  /\ fsm' \in {snapshot, raft}
  /\ IF fsm' = NoContent
     THEN cache' = NoObject /\ UNCHANGED <<heap, allocated>>
     ELSE /\ allocated < MaxObjects
          /\ allocated' = allocated + 1 /\ cache' = allocated'
          /\ heap' = [heap EXCEPT ![allocated'] = fsm']
  /\ stale' = (stale \/ fsm' \notin {raft, NoContent})
  /\ UNCHANGED <<raft, snapshot, fragments, used, denied, failed, forked>>

(* The log is replayed.                                                    *)
CatchUp ==
  /\ fsm # raft
  /\ fsm' = raft
  /\ UNCHANGED <<heap, allocated, cache, raft, snapshot, thread, fragments, restarts, histVars>>

Next ==
  \/ \E t \in Threads, d \in 1..MaxDesired : Create(t, d)
  \/ \E t \in Threads, ok \in BOOLEAN : CreateSave(t, ok)
  \/ \E t \in Threads, ok \in BOOLEAN : CreateMark(t, ok)
  \/ \E t \in Threads, placed \in 0..MaxDesired, ok \in BOOLEAN : CreatePlace(t, placed, ok)
  \/ \E t \in Threads, ok \in BOOLEAN : CreateFinish(t, ok)
  \/ \E t \in Threads, op \in Ops \ {"idle", "create"} : Call(t, op)
  \/ \E t \in Threads : GetWorkload(t)
  \/ \E t \in Threads : InsertWorkload(t)
  \/ \E t \in Threads, e \in Edits, admitted, spec \in BOOLEAN, d \in 0..MaxDesired :
       UpdateChange(t, e, admitted, spec, d)
  \/ \E t \in Threads, e \in Edits, d \in 1..MaxDesired : ScaleChange(t, e, d)
  \/ \E t \in Threads : DeleteChange(t)
  \/ \E t \in Threads, ok \in BOOLEAN : ChangeSave(t, ok)
  \/ \E t \in Threads, placed \in 0..MaxDesired : PlaceMore(t, placed)
  \/ \E t \in Threads, ok \in BOOLEAN : PurgeWorkload(t, ok)
  \/ TakeSnapshot
  \/ Restart
  \/ CatchUp

Spec == Init /\ [][Next]_vars
-----------------------------------------------------------------------------
(* When no handler runs, the cache shows what RAFT holds, although the     *)
(* handlers change the cached record before they save it and interleave    *)
(* freely - provided the store has returned no error, no update has been   *)
(* denied and no stale record was read while the log was replayed          *)
(* (state_manager.go:148, :181, grpc_handlers.go:561-652).                 *)
CacheCoherent ==
  Quiescent /\ ~failed /\ ~stale /\ cache # NoObject => raft = heap[cache]

(* What one call has made durable no other call takes back: edits and the  *)
(* deletion mark stay in RAFT, until the record is purged.  No lock covers *)
(* a handler's read and its save; what protects the edits is that all the  *)
(* handlers change one shared record.  So the property needs that record   *)
(* to be the only one: no second CreateWorkload for the ID, no two cache   *)
(* misses at once (grpc_handlers.go:561-652, state_manager.go:190-212).    *)
EditsKept ==
  [][~stale' /\ ~forked' /\ raft # NoContent /\ raft' # NoContent =>
       raft.edits \subseteq raft'.edits /\ (raft.deleted => raft'.deleted)]_vars

(* What UpdateWorkload's comment says admission control is for: "to        *)
(* prevent policy circumvention" (grpc_handlers.go:642).  An update the    *)
(* policy denied is never stored.                                          *)
DeniedNeverStored == raft # NoContent => raft.edits \cap denied = {}

(* What DeleteWorkload does by its comment: "Send stop commands to all     *)
(* nodes running replicas" (grpc_handlers.go:717).                         *)
DeleteStopsReplicas ==
  Quiescent /\ raft # NoContent => (raft.deleted => fragments = 0)
=============================================================================
