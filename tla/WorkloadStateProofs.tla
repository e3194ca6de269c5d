------------------------ MODULE WorkloadStateProofs ------------------------
(***************************************************************************)
(* Why the handlers of WorkloadState keep the cache and the RAFT record    *)
(* together without a lock, for any number of calls, records, edits and    *)
(* restarts.  The state manager's guarantee rests on who still owes a save *)
(* (Owes, Coherent), and that of the edits on there being one object in    *)
(* use, at least as new as the record in RAFT (OneObject, Covered).        *)
(***************************************************************************)
EXTENDS WorkloadState, TLAPS

(* The types, and which objects exist.  A handler holds an object from its *)
(* "get" until it returns.                                                 *)
HeapType ==
  /\ allocated \in Nat /\ allocated <= MaxObjects
  /\ heap \in [Objects -> Content]
StoreType ==
  /\ {raft, fsm, snapshot} \subseteq Content \cup {NoContent}
  /\ cache \in Nat /\ cache <= allocated
ThreadType ==
  /\ thread \in [Threads -> [op : Ops, pc : PCs, obj : Nat]]
  /\ \A t \in Threads :
       /\ thread[t].obj <= allocated
       /\ thread[t].obj = NoObject <=> (thread[t].op = "idle" \/ thread[t].pc = "get")
Types == HeapType /\ StoreType /\ ThreadType

(* A handler has changed object o and its save of it is still to come.     *)
Owes(q, o) ==
  /\ q.obj = o
  /\ \/ q.op = "create" /\ q.pc \in {"mark", "finish"}
     \/ q.op \in {"update", "scale", "delete", "purge"} /\ q.pc = "save"

(* RAFT holds what the cache shows unless a save is owed.                  *)
Coherent ==
  ~failed /\ ~stale /\ cache # NoObject =>
    raft = heap[cache] \/ \E t \in Threads : Owes(thread[t], cache)

(* The handlers and the cache refer to one object.                         *)
OneObject ==
  \A t \in Threads : thread[t].obj # NoObject =>
    /\ cache \in {NoObject, thread[t].obj}
    /\ \A u \in Threads : thread[u].obj \in {NoObject, thread[t].obj}

(* It has all that is durable.                                             *)
Holds(c, d) == d.edits \subseteq c.edits /\ (d.deleted => c.deleted)
Covered ==
  raft # NoContent =>
    /\ cache # NoObject => Holds(heap[cache], raft)
    /\ \A t \in Threads : thread[t].obj # NoObject => Holds(heap[thread[t].obj], raft)

Shared == ~stale /\ ~forked => OneObject /\ Covered

IInv == Types /\ Coherent /\ Shared

-----------------------------------------------------------------------------
(* The invariant holds when the coordinator starts.                        *)
LEMMA InvInit == Init => IInv
<1> SUFFICES ASSUME Init PROVE IInv
  BY Zenon
<1>1. Types
  BY BoundAssumption DEF Init, Types, HeapType, StoreType, ThreadType, Content, Statuses, Ops,
     PCs, Objects, Idle, NoObject
<1>2. Coherent
  BY Zenon DEF Init, Coherent
<1> QED
  BY Zenon, <1>1, <1>2 DEF Init, IInv, Shared, OneObject, Covered, Idle

(* The object a handler holds.                                             *)
LEMMA Held ==
  ASSUME Types, NEW t \in Threads, thread[t].op # "idle", thread[t].pc # "get"
  PROVE  /\ thread[t].obj \in Objects /\ thread[t].obj # NoObject /\ thread[t].obj <= allocated
         /\ heap[thread[t].obj] \in Content
  BY BoundAssumption DEF Types, HeapType, ThreadType, Objects, NoObject

(* Every step keeps the types.                                             *)
LEMMA TypesStep == Types /\ [Next]_vars => Types'
<1> SUFFICES ASSUME Types, [Next]_vars PROVE Types'
  BY Zenon
<1> USE BoundAssumption DEF NoObject, At, Goto, Return, StoreWrite, storeVars, Idle
<1>1. ASSUME NEW t \in Threads, NEW d \in 1 .. MaxDesired, Create(t, d) PROVE Types'
  <2>1. HeapType'
    BY <1>1 DEF Create, Types, HeapType, StoreType, ThreadType, Content, Statuses, Objects
  <2>2. StoreType'
    BY <1>1 DEF Create, Types, HeapType, StoreType, ThreadType, Objects
  <2>3. ThreadType'
    BY <1>1 DEF Create, Types, HeapType, StoreType, ThreadType, Ops, PCs
  <2> QED
    BY Zenon, <2>1, <2>2, <2>3 DEF Types
<1>2. ASSUME NEW t \in Threads, NEW ok \in BOOLEAN, CreateSave(t, ok) PROVE Types'
  <2>1. HeapType'
    <3>1. thread[t].obj \in Objects /\ heap[thread[t].obj] \in Content
      BY Zenon, <1>2, Held DEF CreateSave
    <3>2. [heap[thread[t].obj] EXCEPT !.status = "Scheduling"] \in Content
      BY Zenon, <3>1 DEF Content, Statuses
    <3>3. /\ allocated' = allocated
          /\ heap' = heap \/ heap' =
                 [heap EXCEPT ![thread[t].obj] =
                    [heap[thread[t].obj] EXCEPT !.status = "Scheduling"]]
      BY Zenon, <1>2 DEF CreateSave
    <3> QED
      BY Zenon, <3>2, <3>3 DEF Types, HeapType
  <2>2. StoreType'
    BY <1>2 DEF CreateSave, SaveWorkload, Types, HeapType, StoreType, ThreadType, Objects
  <2>3. ThreadType'
    BY <1>2 DEF CreateSave, SaveWorkload, Types, HeapType, StoreType, ThreadType, Ops, PCs
  <2> QED
    BY Zenon, <2>1, <2>2, <2>3 DEF Types
<1>3. ASSUME NEW t \in Threads, NEW ok \in BOOLEAN, CreateMark(t, ok) PROVE Types'
  <2>1. HeapType'
    BY Zenon, <1>3 DEF CreateMark, SaveWorkload, Types, HeapType, StoreType, ThreadType, Content,
       Statuses, Objects
  <2>2. StoreType'
    BY <1>3 DEF CreateMark, SaveWorkload, Types, HeapType, StoreType, ThreadType, Objects
  <2>3. ThreadType'
    BY Zenon, <1>3 DEF CreateMark, SaveWorkload, Types, HeapType, StoreType, ThreadType, Ops, PCs
  <2> QED
    BY Zenon, <2>1, <2>2, <2>3 DEF Types
<1>4. ASSUME NEW t \in Threads, NEW placed \in 0 .. MaxDesired, NEW ok \in BOOLEAN, CreatePlace(t, placed, ok)
      PROVE  Types'
  <2>1. HeapType'
    <3>1. thread[t].obj \in Objects /\ heap[thread[t].obj] \in Content
      BY Zenon, <1>4, Held DEF CreatePlace
    <3>2. [heap[thread[t].obj] EXCEPT !.status = IF ok THEN "Running" ELSE "Failed"] \in Content
      BY Zenon, <3>1 DEF Content, Statuses
    <3>3. /\ allocated' = allocated
          /\ heap' =
                 [heap EXCEPT ![thread[t].obj] =
                    [heap[thread[t].obj] EXCEPT !.status = IF ok THEN "Running" ELSE "Failed"]]
      BY Zenon, <1>4 DEF CreatePlace
    <3> QED
      BY Zenon, <3>2, <3>3 DEF Types, HeapType
  <2>2. StoreType'
    BY Zenon, <1>4 DEF CreatePlace, Types, HeapType, StoreType, ThreadType, Objects
  <2>3. ThreadType'
    BY Zenon, <1>4 DEF CreatePlace, Types, HeapType, StoreType, ThreadType, Ops, PCs
  <2> QED
    BY Zenon, <2>1, <2>2, <2>3 DEF Types
<1>5. ASSUME NEW t \in Threads, NEW ok \in BOOLEAN, CreateFinish(t, ok) PROVE Types'
  <2>1. HeapType'
    BY Zenon, <1>5 DEF CreateFinish, SaveWorkload, Types, HeapType, StoreType, ThreadType,
       Content,
       Statuses, Objects
  <2>2. StoreType'
    BY <1>5 DEF CreateFinish, SaveWorkload, Types, HeapType, StoreType, ThreadType, Objects
  <2>3. ThreadType'
    BY <1>5 DEF CreateFinish, SaveWorkload, Types, HeapType, StoreType, ThreadType, Ops, PCs
  <2> QED
    BY Zenon, <2>1, <2>2, <2>3 DEF Types
<1>6. ASSUME NEW t \in Threads, NEW op \in Ops \ {"idle", "create"}, Call(t, op)
      PROVE  Types'
  <2>1. HeapType'
    BY Zenon, <1>6 DEF Call, Types, HeapType, StoreType, ThreadType, Content, Statuses, Objects
  <2>2. StoreType'
    BY Zenon, <1>6 DEF Call, Types, HeapType, StoreType, ThreadType, Objects
  <2>3. ThreadType'
    BY Zenon, <1>6 DEF Call, Types, HeapType, StoreType, ThreadType, Ops, PCs
  <2> QED
    BY Zenon, <2>1, <2>2, <2>3 DEF Types
<1>7. ASSUME NEW t \in Threads, GetWorkload(t) PROVE Types'
  <2>1. HeapType'
    BY SMTT(30), <1>7 DEF GetWorkload, Continue, Types, HeapType, StoreType, ThreadType, Content,
       Statuses, Objects
  <2>2. StoreType'
    BY <1>7 DEF GetWorkload, Continue, Types, HeapType, StoreType, ThreadType, Objects
  <2>3. ThreadType'
    BY <1>7 DEF GetWorkload, Continue, Types, HeapType, StoreType, ThreadType, Ops, PCs
  <2> QED
    BY Zenon, <2>1, <2>2, <2>3 DEF Types
<1>8. ASSUME NEW t \in Threads, InsertWorkload(t) PROVE Types'
  <2>1. HeapType'
    BY Zenon, <1>8 DEF InsertWorkload, Continue, Types, HeapType, StoreType, ThreadType, Content,
       Statuses, Objects
  <2>2. StoreType'
    BY Zenon, <1>8 DEF InsertWorkload, Continue, Types, HeapType, StoreType, ThreadType, Objects
  <2>3. ThreadType'
    BY <1>8 DEF InsertWorkload, Continue, Types, HeapType, StoreType, ThreadType, Ops, PCs
  <2> QED
    BY Zenon, <2>1, <2>2, <2>3 DEF Types
<1>9. ASSUME NEW t \in Threads, NEW e \in Edits, NEW admitted \in BOOLEAN, NEW spec \in BOOLEAN,
             NEW d \in 0 .. MaxDesired, UpdateChange(t, e, admitted, spec, d)
      PROVE  Types'
  <2>1. HeapType'
    <3>1. thread[t].obj \in Objects /\ heap[thread[t].obj] \in Content
      BY Zenon, <1>9, Held DEF UpdateChange
    <3>2. Updated(heap[thread[t].obj], e, spec, d) \in Content
      <4>1. /\ heap[thread[t].obj].status \in Statuses /\ "Updating" \in Statuses
            /\ heap[thread[t].obj].desired \in 1 .. MaxDesired /\ d > 0 => d \in 1 .. MaxDesired
        BY <3>1 DEF Content, Statuses
      <4>2. heap[thread[t].obj].edits \cup {e} \in SUBSET Edits
        BY Zenon, <3>1 DEF Content
      <4>3. CASE spec /\ d > 0
        BY Zenon, <3>1, <4>1, <4>2, <4>3 DEF Content, Updated
      <4>4. CASE spec /\ ~(d > 0)
        BY Zenon, <3>1, <4>1, <4>2, <4>4 DEF Content, Updated
      <4>5. CASE ~spec
        BY Zenon, <3>1, <4>1, <4>2, <4>5 DEF Content, Updated
      <4> QED
        BY Zenon, <4>3, <4>4, <4>5
    <3>3. /\ allocated' = allocated
          /\ heap' = [heap EXCEPT ![thread[t].obj] = Updated(heap[thread[t].obj], e, spec, d)]
      BY Zenon, <1>9 DEF UpdateChange
    <3> QED
      BY Zenon, <3>2, <3>3 DEF Types, HeapType
  <2>2. StoreType'
    BY Zenon, <1>9 DEF UpdateChange, Updated, Types, HeapType, StoreType, ThreadType, Objects
  <2>3. ThreadType'
    BY <1>9 DEF UpdateChange, Updated, Types, HeapType, StoreType, ThreadType, Ops, PCs
  <2> QED
    BY Zenon, <2>1, <2>2, <2>3 DEF Types
<1>10. ASSUME NEW t \in Threads, NEW e \in Edits, NEW d \in 1 .. MaxDesired, ScaleChange(t, e, d)
      PROVE  Types'
  <2>1. HeapType'
    <3>1. thread[t].obj \in Objects /\ heap[thread[t].obj] \in Content
      BY Zenon, <1>10, Held DEF ScaleChange
    <3>2. Scaled(heap[thread[t].obj], e, d) \in Content
      <4>1. heap[thread[t].obj].edits \cup {e} \in SUBSET Edits
        BY Zenon, <3>1 DEF Content
      <4> QED
        BY Zenon, <3>1, <4>1 DEF Content, Statuses, Scaled
    <3>3. /\ allocated' = allocated
          /\ heap' = [heap EXCEPT ![thread[t].obj] = Scaled(heap[thread[t].obj], e, d)]
      BY Zenon, <1>10 DEF ScaleChange
    <3> QED
      BY Zenon, <3>2, <3>3 DEF Types, HeapType
  <2>2. StoreType'
    BY Zenon, <1>10 DEF ScaleChange, Types, HeapType, StoreType, ThreadType, Objects
  <2>3. ThreadType'
    BY Zenon, <1>10 DEF ScaleChange, Types, HeapType, StoreType, ThreadType, Ops, PCs
  <2> QED
    BY Zenon, <2>1, <2>2, <2>3 DEF Types
<1>11. ASSUME NEW t \in Threads, DeleteChange(t) PROVE Types'
  <2>1. HeapType'
    <3>1. thread[t].obj \in Objects /\ heap[thread[t].obj] \in Content
      BY Zenon, <1>11, Held DEF DeleteChange
    <3>2. [heap[thread[t].obj] EXCEPT !.deleted = TRUE, !.status = "Deleting"] \in Content
      BY Zenon, <3>1 DEF Content, Statuses
    <3>3. /\ allocated' = allocated
          /\ heap' =
                 [heap EXCEPT ![thread[t].obj] =
                    [heap[thread[t].obj] EXCEPT !.deleted = TRUE, !.status = "Deleting"]]
      BY Zenon, <1>11 DEF DeleteChange
    <3> QED
      BY Zenon, <3>2, <3>3 DEF Types, HeapType
  <2>2. StoreType'
    BY Zenon, <1>11 DEF DeleteChange, Types, HeapType, StoreType, ThreadType, Objects
  <2>3. ThreadType'
    BY Zenon, <1>11 DEF DeleteChange, Types, HeapType, StoreType, ThreadType, Ops, PCs
  <2> QED
    BY Zenon, <2>1, <2>2, <2>3 DEF Types
<1>12. ASSUME NEW t \in Threads, NEW ok \in BOOLEAN, ChangeSave(t, ok) PROVE Types'
  <2>1. HeapType'
    BY Zenon, <1>12 DEF ChangeSave, SaveWorkload, Types, HeapType, StoreType, ThreadType, Content,
       Statuses, Objects
  <2>2. StoreType'
    BY <1>12 DEF ChangeSave, SaveWorkload, Types, HeapType, StoreType, ThreadType, Objects
  <2>3. ThreadType'
    BY <1>12 DEF ChangeSave, SaveWorkload, Types, HeapType, StoreType, ThreadType, Ops, PCs
  <2> QED
    BY Zenon, <2>1, <2>2, <2>3 DEF Types
<1>13. ASSUME NEW t \in Threads, NEW placed \in 0 .. MaxDesired, PlaceMore(t, placed)
      PROVE  Types'
  <2>1. HeapType'
    BY Zenon, <1>13 DEF PlaceMore, Types, HeapType, StoreType, ThreadType, Content, Statuses,
       Objects
  <2>2. StoreType'
    BY Zenon, <1>13 DEF PlaceMore, Types, HeapType, StoreType, ThreadType, Objects
  <2>3. ThreadType'
    BY <1>13 DEF PlaceMore, Types, HeapType, StoreType, ThreadType, Ops, PCs
  <2> QED
    BY Zenon, <2>1, <2>2, <2>3 DEF Types
<1>14. ASSUME NEW t \in Threads, NEW ok \in BOOLEAN, PurgeWorkload(t, ok) PROVE Types'
  <2>1. HeapType'
    BY Zenon, <1>14 DEF PurgeWorkload, Types, HeapType, StoreType, ThreadType, Content,
       Statuses, Objects
  <2>2. StoreType'
    BY <1>14 DEF PurgeWorkload, Types, HeapType, StoreType, ThreadType, Objects
  <2>3. ThreadType'
    BY <1>14 DEF PurgeWorkload, Types, HeapType, StoreType, ThreadType, Ops, PCs
  <2> QED
    BY Zenon, <2>1, <2>2, <2>3 DEF Types
<1>15. ASSUME TakeSnapshot PROVE Types'
  <2>1. HeapType'
    BY Zenon, <1>15 DEF TakeSnapshot, Types, HeapType, StoreType, ThreadType, Content,
       Statuses, Objects
  <2>2. StoreType'
    BY Zenon, <1>15 DEF TakeSnapshot, Types, HeapType, StoreType, ThreadType, Objects
  <2>3. ThreadType'
    BY Zenon, <1>15 DEF TakeSnapshot, Types, HeapType, StoreType, ThreadType, Ops, PCs
  <2> QED
    BY Zenon, <2>1, <2>2, <2>3 DEF Types
<1>16. ASSUME Restart PROVE Types'
  <2>1. HeapType'
    <3>1. fsm' # NoContent => allocated + 1 \in Objects /\ fsm' \in Content
      BY <1>16 DEF Restart, Types, HeapType, StoreType, Objects
    <3> QED
      BY <1>16, <3>1 DEF Restart, Types, HeapType, Objects
  <2>2. StoreType'
    BY <1>16 DEF Restart, Types, HeapType, StoreType, ThreadType, Objects
  <2>3. ThreadType'
    BY <1>16 DEF Restart, Types, HeapType, StoreType, ThreadType, Ops, PCs
  <2> QED
    BY Zenon, <2>1, <2>2, <2>3 DEF Types
<1>17. ASSUME CatchUp PROVE Types'
  <2>1. HeapType'
    BY Zenon, <1>17 DEF CatchUp, Types, HeapType, StoreType, ThreadType, Content, Statuses,
       Objects
  <2>2. StoreType'
    BY Zenon, <1>17 DEF CatchUp, Types, HeapType, StoreType, ThreadType, Objects
  <2>3. ThreadType'
    BY Zenon, <1>17 DEF CatchUp, Types, HeapType, StoreType, ThreadType, Ops, PCs
  <2> QED
    BY Zenon, <2>1, <2>2, <2>3 DEF Types
<1>18. CASE UNCHANGED vars
  <2>1. HeapType'
    BY Zenon, <1>18 DEF vars, histVars, Types, HeapType, StoreType, ThreadType, Content, Statuses,
       Objects
  <2>2. StoreType'
    BY Zenon, <1>18 DEF vars, histVars, Types, HeapType, StoreType, ThreadType, Objects
  <2>3. ThreadType'
    BY Zenon, <1>18 DEF vars, histVars, Types, HeapType, StoreType, ThreadType, Ops, PCs
  <2> QED
    BY Zenon, <2>1, <2>2, <2>3 DEF Types
<1> QED
  BY Zenon, <1>1, <1>2, <1>3, <1>4, <1>5, <1>6, <1>7, <1>8, <1>9, <1>10, <1>11, <1>12, <1>13,
     <1>14,
     <1>15, <1>16, <1>17, <1>18 DEF Next

(* Every step keeps the cache coherent with the store.                     *)
LEMMA CoherentStep == Types /\ Coherent /\ [Next]_vars => Coherent'
<1> SUFFICES ASSUME Types, Coherent, [Next]_vars PROVE Coherent'
  BY Zenon
<1> USE BoundAssumption DEF NoObject, At, Goto, Return, StoreWrite, storeVars, histVars, Idle
<1>1. ASSUME NEW t \in Threads, NEW d \in 1 .. MaxDesired, Create(t, d) PROVE Coherent'
  BY <1>1 DEF Create, Types, HeapType, StoreType, ThreadType, Objects, Coherent, Owes
<1>2. ASSUME NEW t \in Threads, NEW ok \in BOOLEAN, CreateSave(t, ok) PROVE Coherent'
  <2>1. CASE ok
    <3>1. thread'[t].obj = thread[t].obj /\ thread'[t].pc = "mark" /\ thread'[t].op = "create"
      BY <1>2, <2>1 DEF CreateSave, Types, ThreadType
    <3>2. cache' = thread[t].obj
      BY Zenon, <1>2, <2>1 DEF CreateSave, SaveWorkload
    <3> QED
      BY Zenon, <3>1, <3>2 DEF Coherent, Owes
  <2>2. CASE ~ok
    BY Zenon, <1>2, <2>2 DEF CreateSave, Coherent
  <2> QED
    BY Zenon, <2>1, <2>2
<1>3. ASSUME NEW t \in Threads, NEW ok \in BOOLEAN, CreateMark(t, ok) PROVE Coherent'
  BY Zenon, <1>3 DEF CreateMark, SaveWorkload, Types, HeapType, StoreType, ThreadType, Objects,
     Coherent, Owes
<1>4. ASSUME NEW t \in Threads, NEW placed \in 0 .. MaxDesired, NEW ok \in BOOLEAN, CreatePlace(t, placed, ok)
      PROVE  Coherent'
  BY <1>4 DEF CreatePlace, Types, HeapType, StoreType, ThreadType, Objects, Coherent, Owes
<1>5. ASSUME NEW t \in Threads, NEW ok \in BOOLEAN, CreateFinish(t, ok) PROVE Coherent'
  BY Zenon, <1>5 DEF CreateFinish, SaveWorkload, Types, HeapType, StoreType, ThreadType, Objects,
     Coherent, Owes
<1>6. ASSUME NEW t \in Threads, NEW op \in Ops \ {"idle", "create"}, Call(t, op)
      PROVE  Coherent'
  BY Zenon, <1>6 DEF Call, Types, HeapType, StoreType, ThreadType, Objects, Coherent, Owes
<1>7. ASSUME NEW t \in Threads, GetWorkload(t) PROVE Coherent'
  <2>1. CASE cache = NoObject
    BY Zenon, <1>7, <2>1 DEF GetWorkload, Coherent
  <2>2. CASE cache # NoObject
    <3>1. /\ UNCHANGED <<heap, cache, raft, failed, stale>>
          /\ \A u \in Threads \ {t} : thread'[u] = thread[u]
      BY Zenon, <1>7, <2>2 DEF GetWorkload, Continue, Types, ThreadType
    <3>2. ~Owes(thread[t], cache)
      BY Zenon, <1>7 DEF GetWorkload, Owes
    <3> QED
      BY Zenon, <2>2, <3>1, <3>2 DEF Coherent
  <2> QED
    BY Zenon, <2>1, <2>2
<1>8. ASSUME NEW t \in Threads, InsertWorkload(t) PROVE Coherent'
  BY Zenon, <1>8 DEF InsertWorkload, Continue, Types, HeapType, StoreType, ThreadType, Objects,
     Coherent, Owes
<1>9. ASSUME NEW t \in Threads, NEW e \in Edits, NEW admitted \in BOOLEAN, NEW spec \in BOOLEAN,
             NEW d \in 0 .. MaxDesired, UpdateChange(t, e, admitted, spec, d)
      PROVE  Coherent'
  <2>1. CASE admitted
    <3>1. /\ UNCHANGED <<cache, raft, stale>> /\ (~failed' => ~failed)
          /\ \A u \in Threads \ {t} : thread'[u] = thread[u]
          /\ thread'[t].obj = thread[t].obj /\ thread'[t].pc = "save" /\ thread'[t].op = "update"
      BY ZenonT(60), <1>9, <2>1 DEF UpdateChange, Types, ThreadType
    <3>2. ~Owes(thread[t], cache)
      BY Zenon, <1>9 DEF UpdateChange, Owes
    <3>3. cache # thread[t].obj => heap'[cache] = heap[cache]
      BY <1>9 DEF UpdateChange, Types, HeapType
    <3> QED
      BY Zenon, <3>1, <3>2, <3>3 DEF Coherent, Owes
  <2>2. CASE ~admitted
    BY Zenon, <1>9, <2>2 DEF UpdateChange, Coherent
  <2> QED
    BY Zenon, <2>1, <2>2
<1>10. ASSUME NEW t \in Threads, NEW e \in Edits, NEW d \in 1 .. MaxDesired, ScaleChange(t, e, d)
      PROVE  Coherent'
  BY <1>10 DEF ScaleChange, Types, HeapType, StoreType, ThreadType, Objects, Coherent, Owes
<1>11. ASSUME NEW t \in Threads, DeleteChange(t) PROVE Coherent'
  BY <1>11 DEF DeleteChange, Types, HeapType, StoreType, ThreadType, Objects, Coherent, Owes
<1>12. ASSUME NEW t \in Threads, NEW ok \in BOOLEAN, ChangeSave(t, ok) PROVE Coherent'
  BY Zenon, <1>12 DEF ChangeSave, SaveWorkload, Types, HeapType, StoreType, ThreadType, Objects,
     Coherent, Owes
<1>13. ASSUME NEW t \in Threads, NEW placed \in 0 .. MaxDesired, PlaceMore(t, placed)
      PROVE  Coherent'
  BY Zenon, <1>13 DEF PlaceMore, Types, HeapType, StoreType, ThreadType, Objects, Coherent, Owes
<1>14. ASSUME NEW t \in Threads, NEW ok \in BOOLEAN, PurgeWorkload(t, ok) PROVE Coherent'
  BY Zenon, <1>14 DEF PurgeWorkload, Types, HeapType, StoreType, ThreadType, Objects, Coherent,
     Owes
<1>15. ASSUME TakeSnapshot PROVE Coherent'
  BY Zenon, <1>15 DEF TakeSnapshot, Types, HeapType, StoreType, ThreadType, Objects, Coherent,
     Owes
<1>16. ASSUME Restart PROVE Coherent'
  <2>1. CASE fsm' = NoContent
    BY Zenon, <1>16, <2>1 DEF Restart, Coherent
  <2>2. CASE fsm' # NoContent
    <3>1. allocated' \in Objects /\ cache' = allocated'
      BY <1>16, <2>2 DEF Restart, Types, HeapType, Objects
    <3>2. heap'[cache'] = fsm'
      BY Zenon, <1>16, <2>2, <3>1 DEF Restart, Types, HeapType
    <3>3. stale' \/ fsm' = raft'
      BY Zenon, <1>16, <2>2 DEF Restart
    <3> QED
      BY Zenon, <3>2, <3>3 DEF Coherent
  <2> QED
    BY Zenon, <2>1, <2>2
<1>17. ASSUME CatchUp PROVE Coherent'
  BY Zenon, <1>17 DEF CatchUp, Types, HeapType, StoreType, ThreadType, Objects, Coherent, Owes
<1>18. CASE UNCHANGED vars
  BY Zenon, <1>18 DEF vars, histVars, Types, HeapType, StoreType, ThreadType, Objects,
     Coherent, Owes
<1> QED
  BY Zenon, <1>1, <1>2, <1>3, <1>4, <1>5, <1>6, <1>7, <1>8, <1>9, <1>10, <1>11, <1>12, <1>13,
     <1>14,
     <1>15, <1>16, <1>17, <1>18 DEF Next

(* Every step keeps one object per workload and its edits covered.         *)
LEMMA SharedStep == Types /\ Shared /\ [Next]_vars => Shared'
<1> SUFFICES ASSUME Types, Shared, [Next]_vars, ~stale', ~forked' PROVE OneObject' /\ Covered'
  BY Zenon DEF Shared
<1> USE BoundAssumption DEF NoObject, At, Goto, Return, StoreWrite, storeVars, histVars, Idle
<1>0. OneObject /\ Covered
  BY ZenonT(60) DEF Shared, Next, vars, Create, CreateSave, CreateMark, CreatePlace,
     CreateFinish, Call,
     GetWorkload, InsertWorkload, UpdateChange, ScaleChange, DeleteChange, ChangeSave,
     PlaceMore, PurgeWorkload, TakeSnapshot, Restart, CatchUp
<1>1. ASSUME NEW t \in Threads, NEW d \in 1 .. MaxDesired, Create(t, d) PROVE OneObject' /\ Covered'
  <2>1. OneObject'
    BY Zenon, <1>0, <1>1 DEF Create, Types, ThreadType, StoreType, OneObject, Others
  <2>2. Covered'
    BY Zenon, <1>0, <1>1 DEF Create, Types, HeapType, StoreType, ThreadType, Objects, OneObject,
       Covered, Holds
  <2> QED
    BY Zenon, <2>1, <2>2
<1>2. ASSUME NEW t \in Threads, NEW ok \in BOOLEAN, CreateSave(t, ok) PROVE OneObject' /\ Covered'
  <2>1. OneObject'
    BY <1>0, <1>2 DEF CreateSave, SaveWorkload, Types, ThreadType, StoreType, OneObject, Others
  <2>2. Covered'
    <3>1. thread[t].obj \in Objects /\ thread[t].obj # NoObject /\ heap[thread[t].obj] \in Content
      BY Zenon, <1>2, Held DEF CreateSave
    <3>2. raft' \in {heap[thread[t].obj], raft} /\ (ok => raft' = heap[thread[t].obj])
      BY Zenon, <1>2 DEF CreateSave, SaveWorkload
    <3>3. /\ heap'[thread[t].obj].edits = heap[thread[t].obj].edits
          /\ heap'[thread[t].obj].deleted = heap[thread[t].obj].deleted
      BY <1>2, <3>1 DEF CreateSave, Types, HeapType, Content
    <3>4. /\ cache' \in {NoObject, thread[t].obj}
          /\ \A u \in Threads : thread'[u].obj \in {NoObject, thread[t].obj}
      BY <1>0, <1>2, <3>1 DEF CreateSave, SaveWorkload, Types, ThreadType, OneObject
    <3>5. raft # NoContent => Holds(heap[thread[t].obj], raft)
      BY Zenon, <1>0, <3>1 DEF Covered
    <3>6. raft' # NoContent => Holds(heap'[thread[t].obj], raft')
      BY Zenon, <3>2, <3>3, <3>5 DEF Holds
    <3> QED
      BY Zenon, <3>4, <3>6 DEF Covered
  <2> QED
    BY Zenon, <2>1, <2>2
<1>3. ASSUME NEW t \in Threads, NEW ok \in BOOLEAN, CreateMark(t, ok) PROVE OneObject' /\ Covered'
  <2>1. OneObject'
    BY <1>0, <1>3 DEF CreateMark, SaveWorkload, Types, ThreadType, StoreType, OneObject, Others
  <2>2. Covered'
    BY <1>0, <1>3 DEF CreateMark, SaveWorkload, Types, HeapType, StoreType, ThreadType,
       Objects, OneObject, Covered, Holds
  <2> QED
    BY Zenon, <2>1, <2>2
<1>4. ASSUME NEW t \in Threads, NEW placed \in 0 .. MaxDesired, NEW ok \in BOOLEAN, CreatePlace(t, placed, ok)
      PROVE  OneObject' /\ Covered'
  <2>1. OneObject'
    BY <1>0, <1>4 DEF CreatePlace, Types, ThreadType, StoreType, OneObject, Others
  <2>2. Covered'
    BY <1>0, <1>4 DEF CreatePlace, Types, HeapType, StoreType, ThreadType, Objects, OneObject,
       Covered, Holds
  <2> QED
    BY Zenon, <2>1, <2>2
<1>5. ASSUME NEW t \in Threads, NEW ok \in BOOLEAN, CreateFinish(t, ok) PROVE OneObject' /\ Covered'
  <2>1. OneObject'
    BY Zenon, <1>0, <1>5 DEF CreateFinish, SaveWorkload, Types, ThreadType, StoreType,
       OneObject, Others
  <2>2. Covered'
    BY <1>0, <1>5 DEF CreateFinish, SaveWorkload, Types, HeapType, StoreType, ThreadType,
       Objects, OneObject, Covered, Holds
  <2> QED
    BY Zenon, <2>1, <2>2
<1>6. ASSUME NEW t \in Threads, NEW op \in Ops \ {"idle", "create"}, Call(t, op)
      PROVE  OneObject' /\ Covered'
  <2>1. OneObject'
    BY Zenon, <1>0, <1>6 DEF Call, Types, ThreadType, StoreType, OneObject, Others
  <2>2. Covered'
    BY Zenon, <1>0, <1>6 DEF Call, Types, HeapType, StoreType, ThreadType, Objects, OneObject,
       Covered, Holds
  <2> QED
    BY Zenon, <2>1, <2>2
<1>7. ASSUME NEW t \in Threads, GetWorkload(t) PROVE OneObject' /\ Covered'
  <2>1. OneObject'
    BY <1>0, <1>7 DEF GetWorkload, Continue, Types, ThreadType, StoreType, OneObject, Others
  <2>2. Covered'
    BY SMTT(30), <1>0, <1>7 DEF GetWorkload, Continue, Types, HeapType, StoreType, ThreadType,
       Objects,
       OneObject, Covered, Holds
  <2> QED
    BY Zenon, <2>1, <2>2
<1>8. ASSUME NEW t \in Threads, InsertWorkload(t) PROVE OneObject' /\ Covered'
  <2>1. OneObject'
    BY Zenon, <1>0, <1>8 DEF InsertWorkload, Continue, Types, ThreadType, StoreType, OneObject,
       Others
  <2>2. Covered'
    BY Zenon, <1>0, <1>8 DEF InsertWorkload, Continue, Types, HeapType, StoreType, ThreadType,
       Objects, OneObject, Covered, Holds
  <2> QED
    BY Zenon, <2>1, <2>2
<1>9. ASSUME NEW t \in Threads, NEW e \in Edits, NEW admitted \in BOOLEAN, NEW spec \in BOOLEAN,
             NEW d \in 0 .. MaxDesired, UpdateChange(t, e, admitted, spec, d)
      PROVE  OneObject' /\ Covered'
  <2>1. OneObject'
    BY <1>0, <1>9 DEF UpdateChange, Updated, Types, ThreadType, StoreType, OneObject, Others
  <2>2. Covered'
    <3>1. thread[t].obj \in Objects /\ thread[t].obj # NoObject /\ heap[thread[t].obj] \in Content
      BY Zenon, <1>9, Held DEF UpdateChange
    <3>2. heap'[thread[t].obj] = Updated(heap[thread[t].obj], e, spec, d)
      BY Zenon, <1>9, <3>1 DEF UpdateChange, Types, HeapType
    <3>3. Holds(heap'[thread[t].obj], heap[thread[t].obj])
      BY <3>1, <3>2 DEF Updated, Holds, Content
    <3>4. /\ cache' \in {NoObject, thread[t].obj} /\ raft' = raft
          /\ \A u \in Threads : thread'[u].obj \in {NoObject, thread[t].obj}
      BY <1>0, <1>9, <3>1 DEF UpdateChange, Types, ThreadType, OneObject
    <3>5. raft # NoContent => Holds(heap[thread[t].obj], raft)
      BY Zenon, <1>0, <3>1 DEF Covered
    <3>6. raft' # NoContent => Holds(heap'[thread[t].obj], raft')
      BY Zenon, <3>3, <3>4, <3>5 DEF Holds
    <3> QED
      BY Zenon, <3>4, <3>6 DEF Covered
  <2> QED
    BY Zenon, <2>1, <2>2
<1>10. ASSUME NEW t \in Threads, NEW e \in Edits, NEW d \in 1 .. MaxDesired, ScaleChange(t, e, d)
      PROVE  OneObject' /\ Covered'
  <2>1. OneObject'
    BY <1>0, <1>10 DEF ScaleChange, Types, ThreadType, StoreType, OneObject, Others
  <2>2. Covered'
    <3>1. thread[t].obj \in Objects /\ thread[t].obj # NoObject /\ heap[thread[t].obj] \in Content
      BY Zenon, <1>10, Held DEF ScaleChange
    <3>2. heap'[thread[t].obj] = Scaled(heap[thread[t].obj], e, d)
      BY Zenon, <1>10, <3>1 DEF ScaleChange, Types, HeapType
    <3>3. Holds(heap'[thread[t].obj], heap[thread[t].obj])
      BY Zenon, <3>1, <3>2 DEF Scaled, Holds, Content
    <3>4. /\ cache' \in {NoObject, thread[t].obj} /\ raft' = raft
          /\ \A u \in Threads : thread'[u].obj \in {NoObject, thread[t].obj}
      BY Zenon, <1>0, <1>10, <3>1 DEF ScaleChange, Types, ThreadType, OneObject
    <3>5. raft # NoContent => Holds(heap[thread[t].obj], raft)
      BY Zenon, <1>0, <3>1 DEF Covered
    <3>6. raft' # NoContent => Holds(heap'[thread[t].obj], raft')
      BY Zenon, <3>3, <3>4, <3>5 DEF Holds
    <3> QED
      BY Zenon, <3>4, <3>6 DEF Covered
  <2> QED
    BY Zenon, <2>1, <2>2
<1>11. ASSUME NEW t \in Threads, DeleteChange(t) PROVE OneObject' /\ Covered'
  <2>1. OneObject'
    BY <1>0, <1>11 DEF DeleteChange, Types, ThreadType, StoreType, OneObject, Others
  <2>2. Covered'
    BY <1>0, <1>11 DEF DeleteChange, Types, HeapType, StoreType, ThreadType, Objects,
       OneObject, Covered, Holds
  <2> QED
    BY Zenon, <2>1, <2>2
<1>12. ASSUME NEW t \in Threads, NEW ok \in BOOLEAN, ChangeSave(t, ok) PROVE OneObject' /\ Covered'
  <2>1. OneObject'
    BY <1>0, <1>12 DEF ChangeSave, SaveWorkload, Types, ThreadType, StoreType, OneObject, Others
  <2>2. Covered'
    BY SMTT(30), <1>0, <1>12 DEF ChangeSave, SaveWorkload, Types, HeapType, StoreType, ThreadType,
       Objects, OneObject, Covered, Holds
  <2> QED
    BY Zenon, <2>1, <2>2
<1>13. ASSUME NEW t \in Threads, NEW placed \in 0 .. MaxDesired, PlaceMore(t, placed)
      PROVE  OneObject' /\ Covered'
  <2>1. OneObject'
    BY Zenon, <1>0, <1>13 DEF PlaceMore, Types, ThreadType, StoreType, OneObject, Others
  <2>2. Covered'
    BY Zenon, <1>0, <1>13 DEF PlaceMore, Types, HeapType, StoreType, ThreadType, Objects,
       OneObject,
       Covered, Holds
  <2> QED
    BY Zenon, <2>1, <2>2
<1>14. ASSUME NEW t \in Threads, NEW ok \in BOOLEAN, PurgeWorkload(t, ok) PROVE OneObject' /\ Covered'
  <2>1. OneObject'
    BY Zenon, <1>0, <1>14 DEF PurgeWorkload, Types, ThreadType, StoreType, OneObject, Others
  <2>2. Covered'
    BY Zenon, <1>0, <1>14 DEF PurgeWorkload, Types, HeapType, StoreType, ThreadType, Objects,
       OneObject, Covered, Holds
  <2> QED
    BY Zenon, <2>1, <2>2
<1>15. ASSUME TakeSnapshot PROVE OneObject' /\ Covered'
  <2>1. OneObject'
    BY Zenon, <1>0, <1>15 DEF TakeSnapshot, Types, ThreadType, StoreType, OneObject, Others
  <2>2. Covered'
    BY Zenon, <1>0, <1>15 DEF TakeSnapshot, Types, HeapType, StoreType, ThreadType, Objects,
       OneObject, Covered, Holds
  <2> QED
    BY Zenon, <2>1, <2>2
<1>16. ASSUME Restart PROVE OneObject' /\ Covered'
  <2>1. OneObject'
    BY Zenon, <1>0, <1>16 DEF Restart, Types, ThreadType, StoreType, OneObject, Others
  <2>2. Covered'
    <3>1. ASSUME fsm' # NoContent PROVE heap'[cache'] = raft'
      <4>1. allocated' \in Objects /\ cache' = allocated'
        BY <1>16, <3>1 DEF Restart, Types, HeapType, Objects
      <4> QED
        BY Zenon, <1>16, <3>1, <4>1 DEF Restart, Types, HeapType
    <3>2. fsm' = NoContent => cache' = NoObject
      BY Zenon, <1>16 DEF Restart
    <3>3. \A t \in Threads : thread'[t].obj = NoObject
      BY Zenon, <1>16 DEF Restart
    <3> QED
      BY Zenon, <3>1, <3>2, <3>3 DEF Covered, Holds
  <2> QED
    BY Zenon, <2>1, <2>2
<1>17. ASSUME CatchUp PROVE OneObject' /\ Covered'
  <2>1. OneObject'
    BY Zenon, <1>0, <1>17 DEF CatchUp, Types, ThreadType, StoreType, OneObject, Others
  <2>2. Covered'
    BY Zenon, <1>0, <1>17 DEF CatchUp, Types, HeapType, StoreType, ThreadType, Objects, OneObject,
       Covered, Holds
  <2> QED
    BY Zenon, <2>1, <2>2
<1>18. CASE UNCHANGED vars
  <2>1. OneObject'
    BY Zenon, <1>0, <1>18 DEF vars, histVars, Types, ThreadType, StoreType, OneObject, Others
  <2>2. Covered'
    BY Zenon, <1>0, <1>18 DEF vars, histVars, Types, HeapType, StoreType, ThreadType, Objects,
       OneObject, Covered, Holds
  <2> QED
    BY Zenon, <2>1, <2>2
<1> QED
  BY Zenon, <1>1, <1>2, <1>3, <1>4, <1>5, <1>6, <1>7, <1>8, <1>9, <1>10, <1>11, <1>12, <1>13,
     <1>14,
     <1>15, <1>16, <1>17, <1>18 DEF Next

(* Every step keeps the invariant.                                         *)
LEMMA InvStep == IInv /\ [Next]_vars => IInv'
  BY Zenon, TypesStep, CoherentStep, SharedStep DEF IInv

(* The invariant holds in every reachable state.                           *)
LEMMA Invariant == Spec => []IInv
<1> QED
  BY InvInit, InvStep, PTL DEF Spec

(* When no handler runs, the cache shows what RAFT holds, for any number   *)
(* of calls, records and restarts: who changed the cached record either    *)
(* saved it or still runs (state_manager.go:148, :181,                     *)
(* grpc_handlers.go:561-652).                                              *)
THEOREM CacheStaysCoherent == Spec => []CacheCoherent
<1>1. IInv => CacheCoherent
  BY Zenon DEF IInv, Coherent, Owes, CacheCoherent, Quiescent
<1> QED
  BY <1>1, Invariant, PTL

(* No call takes back what another made durable, as long as the handlers   *)
(* share one record: the record they all change has every edit and the     *)
(* deletion mark of the one in RAFT, so a save of it loses none            *)
(* (grpc_handlers.go:561-652, state_manager.go:190-212).                   *)
THEOREM DurableEditsKept == Spec => EditsKept
<1>1. ASSUME IInv, [Next]_vars, ~stale', ~forked', raft # NoContent, raft' # NoContent
      PROVE  raft.edits \subseteq raft'.edits /\ (raft.deleted => raft'.deleted)
  <2>1. Covered
    BY ZenonT(60), <1>1 DEF IInv, Shared, Next, vars, storeVars, histVars, Create, CreateSave,
       CreateMark,
       CreatePlace,
       CreateFinish, Call, GetWorkload, InsertWorkload, UpdateChange, ScaleChange, DeleteChange, ChangeSave,
       PlaceMore, PurgeWorkload, TakeSnapshot, Restart, CatchUp
  <2>2. ASSUME NEW t \in Threads, NEW ok \in BOOLEAN, SaveWorkload(t, ok), thread[t].op # "idle", thread[t].pc # "get"
        PROVE  Holds(raft', raft)
    <3>1. Holds(heap[thread[t].obj], raft)
      BY Zenon, <1>1, <2>1, <2>2, Held DEF IInv, Covered
    <3> QED
      BY Zenon, <2>2, <3>1 DEF SaveWorkload, StoreWrite, Holds
  <2>3. ASSUME raft' = raft PROVE Holds(raft', raft)
    BY Zenon, <2>3 DEF Holds
  <2>4. Holds(raft', raft)
    BY ZenonT(60), <1>1, <2>2, <2>3 DEF Next, vars, storeVars, histVars, At, StoreWrite, Create,
       CreateSave, CreateMark, CreatePlace,
       CreateFinish, Call, GetWorkload, InsertWorkload, UpdateChange, ScaleChange, DeleteChange, ChangeSave,
       PlaceMore, PurgeWorkload, TakeSnapshot, Restart, CatchUp
  <2> QED
    BY Zenon, <2>4 DEF Holds
<1>2. IInv /\ [Next]_vars =>
        [~stale' /\ ~forked' /\ raft # NoContent /\ raft' # NoContent =>
           raft.edits \subseteq raft'.edits /\ (raft.deleted => raft'.deleted)]_vars
  BY Zenon, <1>1
<1> QED
  BY <1>2, Invariant, PTL DEF Spec, EditsKept
=============================================================================
