----------------------------- MODULE NodeProofs -----------------------------
(***************************************************************************)
(* Proofs about what runs on a node: a volume's entry and its directory    *)
(* agree, and the agent restarts its containers no more often than it may  *)
(* and reports the readiness that it saw.                                  *)
(***************************************************************************)
EXTENDS AgentWorkloads, Volumes, TLAPS

-----------------------------------------------------------------------------
(* The volumes.                                                            *)

VolumePCs == {"none", "begin", "entry", "lock", "newlock", "wait", "check", "load", "act"}
VolumeType ==
  /\ allocatedVolumes \in Nat /\ allocatedLocks \in Nat
  /\ volume \in Nat /\ volume <= allocatedVolumes
  /\ volumeCall \in [VolumeCalls -> [op : VolumeOps \cup {"none"}, pc : VolumePCs,
                                     caller : VolumeOwners \cup {NoOwner}, lock : Nat, vol : Nat]]
  /\ \A t \in VolumeCalls : volumeCall[t].op = "none" => volumeCall[t].pc = "none"

Creating(q) == q.op = "create"
Using(q) == q.op \notin {"none", "create"}
Inside(q) == Using(q) /\ q.op # "snapshot" /\ q.pc \in {"check", "load", "act", "entry"}
Removing(q) == q.op = "delete" /\ q.pc = "entry"

(* A volume is created while no other call runs, before it has a record.   *)
CreatedAlone ==
  \A t \in VolumeCalls : Creating(volumeCall[t]) =>
    /\ \A u \in VolumeCalls \ {t} : volumeCall[u].op = "none"
    /\ volumeCall[t].pc \in {"begin", "entry", "lock"}
    /\ volumeCall[t].pc # "lock" => allocatedVolumes = 0
    /\ volumeCall[t].pc = "lock" => volume # NoVolume

(* While the volume exists, the calls that use it hold or wait for the     *)
(* lock of the map, and one of them is inside.                             *)
OneLock ==
  volume # NoVolume =>
    /\ (\A t \in VolumeCalls : ~Creating(volumeCall[t])) => volumeLock # NoLock
    /\ \A t \in VolumeCalls :
         /\ Using(volumeCall[t]) /\ volumeCall[t].pc # "begin" =>
              volumeCall[t].lock = volumeLock /\ volumeCall[t].pc \notin {"newlock", "lock"}
         /\ Inside(volumeCall[t]) => \A u \in VolumeCalls \ {t} : ~Inside(volumeCall[u])

(* A call past its check works on the record of the map, and there is one. *)
SameRecord ==
  \A t \in VolumeCalls :
    /\ Inside(volumeCall[t]) /\ volumeCall[t].pc # "check" => volume # NoVolume
    /\ Inside(volumeCall[t]) /\ volumeCall[t].pc \in {"act", "entry"} => volumeCall[t].vol = volume

(* What the directory says of the entry.                                   *)
DirectoryKept ==
  /\ \A t \in VolumeCalls : Removing(volumeCall[t]) => ~directory /\ ~mounted[volume]
  /\ \A t \in VolumeCalls : Creating(volumeCall[t]) /\ volumeCall[t].pc = "entry" => directory
  /\ volume # NoVolume /\ (\A t \in VolumeCalls : ~Removing(volumeCall[t])) => directory
  /\ volume = NoVolume /\ (\A t \in VolumeCalls : ~(Creating(volumeCall[t]) /\ volumeCall[t].pc = "entry")) => ~directory

VolumeInv == VolumeType /\ CreatedAlone /\ OneLock /\ SameRecord /\ DirectoryKept

(* The invariant holds at the start.                                       *)
LEMMA VolumeInitInv == VolumeInit => VolumeInv
<1> SUFFICES ASSUME VolumeInit PROVE VolumeInv
  BY Zenon
<1> USE DEF VolumeInit, VolumeIdle
<1>1. VolumeType
  BY DEF VolumeType, VolumePCs, NoVolume, NoLock
<1>2. CreatedAlone /\ OneLock /\ SameRecord /\ DirectoryKept
  BY Zenon DEF CreatedAlone, OneLock, SameRecord, DirectoryKept, Creating, Using, Inside, Removing
<1> QED
  BY Zenon, <1>1, <1>2 DEF VolumeInv

(* Every step keeps the types.                                             *)
LEMMA VolumeTypeStep ==
  ASSUME VolumeType, SameRecord, [VolumeNext]_volumeVars
  PROVE  VolumeType'
<1> USE VolumeAssumption DEF NoVolume, NoLock, ReturnFrom, GoTo, VolumeIdle, CallActs, InUse
<1>1. ASSUME NEW t \in VolumeCalls, NEW op \in VolumeOps, NEW w \in VolumeOwners, BeginCall(t, op, w)
      PROVE  VolumeType'
  BY Zenon, <1>1 DEF BeginCall, VolumeType, VolumePCs, VolumeOps, SameRecord, Inside, Using
<1>2. ASSUME NEW t \in VolumeCalls, NEW valid \in BOOLEAN, CreateDirectory(t, valid)
      PROVE  VolumeType'
  BY <1>2 DEF CreateDirectory, VolumeType, VolumePCs, VolumeOps, SameRecord, Inside, Using
<1>3. ASSUME NEW t \in VolumeCalls, CreateVolume(t) PROVE VolumeType'
  BY <1>3 DEF CreateVolume, VolumeType, VolumePCs, VolumeOps, SameRecord, Inside, Using
<1>4. ASSUME NEW t \in VolumeCalls, CreateLock(t) PROVE VolumeType'
  BY <1>4 DEF CreateLock, VolumeType, VolumePCs, VolumeOps, SameRecord, Inside, Using
<1>5. ASSUME NEW t \in VolumeCalls, GetVolumeLock(t) PROVE VolumeType'
  BY <1>5 DEF GetVolumeLock, VolumeType, VolumePCs, VolumeOps, SameRecord, Inside, Using
<1>6. ASSUME NEW t \in VolumeCalls, StoreNewLock(t) PROVE VolumeType'
  BY <1>6 DEF StoreNewLock, VolumeType, VolumePCs, VolumeOps, SameRecord, Inside, Using
<1>7. ASSUME NEW t \in VolumeCalls, LockVolume(t) PROVE VolumeType'
  BY <1>7 DEF LockVolume, VolumeType, VolumePCs, VolumeOps, SameRecord, Inside, Using
<1>8. ASSUME NEW t \in VolumeCalls, validateWorkloadAccess(t) PROVE VolumeType'
  BY <1>8 DEF validateWorkloadAccess, VolumeType, VolumePCs, VolumeOps, SameRecord, Inside, Using
<1>9. ASSUME NEW t \in VolumeCalls, GetVolume(t) PROVE VolumeType'
  BY <1>9 DEF GetVolume, VolumeType, VolumePCs, VolumeOps, SameRecord, Inside, Using
<1>10. ASSUME NEW t \in VolumeCalls, MountVolume(t) PROVE VolumeType'
  BY Zenon, <1>10 DEF MountVolume, VolumeType, VolumePCs, VolumeOps, SameRecord, Inside, Using
<1>11. ASSUME NEW t \in VolumeCalls, UnmountVolume(t) PROVE VolumeType'
  BY Zenon, <1>11 DEF UnmountVolume, VolumeType, VolumePCs, VolumeOps, SameRecord, Inside, Using
<1>12. ASSUME NEW t \in VolumeCalls, CreateSnapshot(t) PROVE VolumeType'
  BY Zenon, <1>12 DEF CreateSnapshot, VolumeType, VolumePCs, VolumeOps, SameRecord, Inside, Using
<1>13. ASSUME NEW t \in VolumeCalls, NEW accepted \in BOOLEAN, TouchVolume(t, accepted)
      PROVE  VolumeType'
  BY Zenon, <1>13 DEF TouchVolume, VolumeType, VolumePCs, VolumeOps, SameRecord, Inside, Using
<1>14. ASSUME NEW t \in VolumeCalls, NEW removed \in BOOLEAN, DeleteVolume(t, removed)
      PROVE  VolumeType'
  BY <1>14 DEF DeleteVolume, VolumeType, VolumePCs, VolumeOps, SameRecord, Inside, Using
<1>15. ASSUME NEW t \in VolumeCalls, DeleteEntry(t) PROVE VolumeType'
  BY <1>15 DEF DeleteEntry, VolumeType, VolumePCs, VolumeOps, SameRecord, Inside, Using
<1>16. ASSUME NEW t \in VolumeCalls, DeleteLock(t) PROVE VolumeType'
  BY Zenon, <1>16 DEF DeleteLock, VolumeType, VolumePCs, VolumeOps, SameRecord, Inside, Using
<1>17. ASSUME RestartVolumes PROVE VolumeType'
  BY <1>17 DEF RestartVolumes, VolumeType, VolumePCs, VolumeOps, SameRecord, Inside, Using
<1>18. CASE UNCHANGED volumeVars
  BY Zenon, <1>18 DEF volumeVars, VolumeType, VolumePCs, VolumeOps, SameRecord, Inside, Using
<1> QED
  BY Zenon, <1>1, <1>2, <1>3, <1>4, <1>5, <1>6, <1>7, <1>8, <1>9, <1>10, <1>11, <1>12, <1>13,
     <1>14,
     <1>15, <1>16, <1>17, <1>18 DEF VolumeNext, VolumeStep

(* Every step leaves a creation alone.                                     *)
LEMMA CreatedAloneStep ==
  ASSUME ~IdsReused, VolumeInv, [VolumeNext]_volumeVars
  PROVE  CreatedAlone'
<1> USE VolumeAssumption DEF NoVolume, NoLock, ReturnFrom, GoTo, VolumeIdle, CallActs, InUse
<1>1. ASSUME NEW t \in VolumeCalls, NEW op \in VolumeOps, NEW w \in VolumeOwners, BeginCall(t, op, w)
      PROVE  CreatedAlone'
  BY Zenon, <1>1 DEF BeginCall, VolumeInv, VolumeType, CreatedAlone, SameRecord, Creating,
     Inside, Using
<1>2. ASSUME NEW t \in VolumeCalls, NEW valid \in BOOLEAN, CreateDirectory(t, valid)
      PROVE  CreatedAlone'
  BY <1>2 DEF CreateDirectory, VolumeInv, VolumeType, CreatedAlone, SameRecord, Creating,
     Inside, Using
<1>3. ASSUME NEW t \in VolumeCalls, CreateVolume(t) PROVE CreatedAlone'
  BY <1>3 DEF CreateVolume, VolumeInv, VolumeType, CreatedAlone, SameRecord, Creating, Inside,
     Using
<1>4. ASSUME NEW t \in VolumeCalls, CreateLock(t) PROVE CreatedAlone'
  BY Zenon, <1>4 DEF CreateLock, VolumeInv, VolumeType, CreatedAlone, SameRecord, Creating,
     Inside, Using
<1>5. ASSUME NEW t \in VolumeCalls, GetVolumeLock(t) PROVE CreatedAlone'
  BY <1>5 DEF GetVolumeLock, VolumeInv, VolumeType, CreatedAlone, SameRecord, Creating, Inside,
     Using
<1>6. ASSUME NEW t \in VolumeCalls, StoreNewLock(t) PROVE CreatedAlone'
  BY Zenon, <1>6 DEF StoreNewLock, VolumeInv, VolumeType, CreatedAlone, SameRecord, Creating,
     Inside,
     Using
<1>7. ASSUME NEW t \in VolumeCalls, LockVolume(t) PROVE CreatedAlone'
  BY Zenon, <1>7 DEF LockVolume, VolumeInv, VolumeType, CreatedAlone, SameRecord, Creating,
     Inside, Using
<1>8. ASSUME NEW t \in VolumeCalls, validateWorkloadAccess(t) PROVE CreatedAlone'
  BY <1>8 DEF validateWorkloadAccess, VolumeInv, VolumeType, CreatedAlone, SameRecord,
     Creating, Inside, Using
<1>9. ASSUME NEW t \in VolumeCalls, GetVolume(t) PROVE CreatedAlone'
  BY <1>9 DEF GetVolume, VolumeInv, VolumeType, CreatedAlone, SameRecord, Creating, Inside, Using
<1>10. ASSUME NEW t \in VolumeCalls, MountVolume(t) PROVE CreatedAlone'
  BY Zenon, <1>10 DEF MountVolume, VolumeInv, VolumeType, CreatedAlone, SameRecord, Creating,
     Inside,
     Using
<1>11. ASSUME NEW t \in VolumeCalls, UnmountVolume(t) PROVE CreatedAlone'
  BY Zenon, <1>11 DEF UnmountVolume, VolumeInv, VolumeType, CreatedAlone, SameRecord, Creating,
     Inside, Using
<1>12. ASSUME NEW t \in VolumeCalls, CreateSnapshot(t) PROVE CreatedAlone'
  BY Zenon, <1>12 DEF CreateSnapshot, VolumeInv, VolumeType, CreatedAlone, SameRecord, Creating,
     Inside, Using
<1>13. ASSUME NEW t \in VolumeCalls, NEW accepted \in BOOLEAN, TouchVolume(t, accepted)
      PROVE  CreatedAlone'
  BY Zenon, <1>13 DEF TouchVolume, VolumeInv, VolumeType, CreatedAlone, SameRecord, Creating,
     Inside,
     Using
<1>14. ASSUME NEW t \in VolumeCalls, NEW removed \in BOOLEAN, DeleteVolume(t, removed)
      PROVE  CreatedAlone'
  BY <1>14 DEF DeleteVolume, VolumeInv, VolumeType, CreatedAlone, SameRecord, Creating, Inside,
     Using
<1>15. ASSUME NEW t \in VolumeCalls, DeleteEntry(t) PROVE CreatedAlone'
  BY Zenon, <1>15 DEF DeleteEntry, VolumeInv, VolumeType, CreatedAlone, SameRecord, Creating,
     Inside,
     Using
<1>16. ASSUME NEW t \in VolumeCalls, DeleteLock(t) PROVE CreatedAlone'
  BY Zenon, <1>16 DEF DeleteLock, VolumeInv, VolumeType, CreatedAlone, SameRecord, Creating,
     Inside,
     Using
<1>17. ASSUME RestartVolumes PROVE CreatedAlone'
  BY Zenon, <1>17 DEF RestartVolumes, VolumeInv, VolumeType, CreatedAlone, SameRecord, Creating,
     Inside, Using
<1>18. CASE UNCHANGED volumeVars
  BY Zenon, <1>18 DEF volumeVars, VolumeInv, VolumeType, CreatedAlone, SameRecord, Creating,
     Inside,
     Using
<1> QED
  BY Zenon, <1>1, <1>2, <1>3, <1>4, <1>5, <1>6, <1>7, <1>8, <1>9, <1>10, <1>11, <1>12, <1>13,
     <1>14,
     <1>15, <1>16, <1>17, <1>18 DEF VolumeNext, VolumeStep

(* Every step keeps the calls on one lock.                                 *)
LEMMA OneLockStep ==
  ASSUME ~IdsReused, VolumeInv, [VolumeNext]_volumeVars
  PROVE  OneLock'
<1> USE VolumeAssumption DEF NoVolume, NoLock, ReturnFrom, GoTo, VolumeIdle, CallActs, InUse,
   HoldersOf
<1>1. ASSUME NEW t \in VolumeCalls, NEW op \in VolumeOps, NEW w \in VolumeOwners, BeginCall(t, op, w)
      PROVE  OneLock'
  BY <1>1 DEF BeginCall, VolumeInv, VolumeType, CreatedAlone, OneLock, SameRecord, Creating,
     Inside, Using
<1>2. ASSUME NEW t \in VolumeCalls, NEW valid \in BOOLEAN, CreateDirectory(t, valid)
      PROVE  OneLock'
  BY <1>2 DEF CreateDirectory, VolumeInv, VolumeType, CreatedAlone, OneLock, SameRecord,
     Creating, Inside, Using
<1>3. ASSUME NEW t \in VolumeCalls, CreateVolume(t) PROVE OneLock'
  BY <1>3 DEF CreateVolume, VolumeInv, VolumeType, CreatedAlone, OneLock, SameRecord, Creating,
     Inside, Using
<1>4. ASSUME NEW t \in VolumeCalls, CreateLock(t) PROVE OneLock'
  BY <1>4 DEF CreateLock, VolumeInv, VolumeType, CreatedAlone, OneLock, SameRecord, Creating,
     Inside, Using
<1>5. ASSUME NEW t \in VolumeCalls, GetVolumeLock(t) PROVE OneLock'
  BY <1>5 DEF GetVolumeLock, VolumeInv, VolumeType, CreatedAlone, OneLock, SameRecord,
     Creating, Inside, Using
<1>6. ASSUME NEW t \in VolumeCalls, StoreNewLock(t) PROVE OneLock'
  BY Zenon, <1>6 DEF StoreNewLock, VolumeInv, VolumeType, CreatedAlone, OneLock, SameRecord,
     Creating,
     Inside, Using
<1>7. ASSUME NEW t \in VolumeCalls, LockVolume(t) PROVE OneLock'
  <2>1. /\ UNCHANGED <<volume, volumeLock>> /\ volumeCall[t].pc = "wait"
        /\ volumeCall'[t] = [volumeCall[t] EXCEPT !.pc = IF volumeCall[t].op = "snapshot" THEN "act" ELSE "check"]
        /\ \A u \in VolumeCalls \ {t} : volumeCall'[u] = volumeCall[u]
    BY Zenon, <1>7 DEF LockVolume, VolumeInv, VolumeType
  <2>2. /\ volumeCall'[t].op = volumeCall[t].op /\ volumeCall'[t].lock = volumeCall[t].lock
        /\ volumeCall'[t].pc \in {"act", "check"}
    BY <2>1 DEF VolumeInv, VolumeType
  <2>3. Using(volumeCall[t])
    BY Zenon, <2>1 DEF VolumeInv, VolumeType, CreatedAlone, Creating, Using
  <2>4. ASSUME volume # NoVolume, NEW u \in VolumeCalls \ {t}, Inside(volumeCall[u]), Inside(volumeCall'[t])
        PROVE  FALSE
    <3>1. volumeCall[u].lock = volumeCall[t].lock
      BY Zenon, <2>1, <2>3, <2>4 DEF VolumeInv, OneLock, Inside
    <3>2. u \in HoldersOf(volumeCall[t].lock)
      BY Zenon, <2>4, <3>1 DEF Inside
    <3> QED
      BY Zenon, <1>7, <2>4, <3>2 DEF LockVolume, Inside
  <2>5. \A u \in VolumeCalls : Creating(volumeCall'[u]) <=> Creating(volumeCall[u])
    BY Zenon, <2>1, <2>2 DEF Creating
  <2>6. ASSUME volume # NoVolume, NEW u \in VolumeCalls
        PROVE  /\ Using(volumeCall'[u]) /\ volumeCall'[u].pc # "begin" =>
                    volumeCall'[u].lock = volumeLock /\ volumeCall'[u].pc \notin {"newlock", "lock"}
               /\ Inside(volumeCall'[u]) => \A v \in VolumeCalls \ {u} : ~Inside(volumeCall'[v])
    <3>1. CASE u = t
      BY Zenon, <2>1, <2>2, <2>3, <2>4, <2>6, <3>1 DEF VolumeInv, OneLock
    <3>2. CASE u # t
      <4>1. Inside(volumeCall[u]) => \A v \in VolumeCalls \ {u} : ~Inside(volumeCall'[v])
        BY Zenon, <2>1, <2>4, <2>6, <3>2 DEF VolumeInv, OneLock
      <4> QED
        BY Zenon, <2>1, <2>6, <3>2, <4>1 DEF VolumeInv, OneLock
    <3> QED
      BY Zenon, <3>1, <3>2
  <2> QED
    BY Zenon, <2>1, <2>5, <2>6 DEF VolumeInv, OneLock
<1>8. ASSUME NEW t \in VolumeCalls, validateWorkloadAccess(t) PROVE OneLock'
  BY <1>8 DEF validateWorkloadAccess, VolumeInv, VolumeType, CreatedAlone, OneLock, SameRecord,
     Creating, Inside, Using
<1>9. ASSUME NEW t \in VolumeCalls, GetVolume(t) PROVE OneLock'
  BY <1>9 DEF GetVolume, VolumeInv, VolumeType, CreatedAlone, OneLock, SameRecord, Creating,
     Inside, Using
<1>10. ASSUME NEW t \in VolumeCalls, MountVolume(t) PROVE OneLock'
  BY Zenon, <1>10 DEF MountVolume, VolumeInv, VolumeType, CreatedAlone, OneLock, SameRecord,
     Creating,
     Inside, Using
<1>11. ASSUME NEW t \in VolumeCalls, UnmountVolume(t) PROVE OneLock'
  BY Zenon, <1>11 DEF UnmountVolume, VolumeInv, VolumeType, CreatedAlone, OneLock, SameRecord,
     Creating, Inside, Using
<1>12. ASSUME NEW t \in VolumeCalls, CreateSnapshot(t) PROVE OneLock'
  BY Zenon, <1>12 DEF CreateSnapshot, VolumeInv, VolumeType, CreatedAlone, OneLock, SameRecord,
     Creating, Inside, Using
<1>13. ASSUME NEW t \in VolumeCalls, NEW accepted \in BOOLEAN, TouchVolume(t, accepted)
      PROVE  OneLock'
  BY Zenon, <1>13 DEF TouchVolume, VolumeInv, VolumeType, CreatedAlone, OneLock, SameRecord,
     Creating,
     Inside, Using
<1>14. ASSUME NEW t \in VolumeCalls, NEW removed \in BOOLEAN, DeleteVolume(t, removed)
      PROVE  OneLock'
  BY <1>14 DEF DeleteVolume, VolumeInv, VolumeType, CreatedAlone, OneLock, SameRecord,
     Creating, Inside, Using
<1>15. ASSUME NEW t \in VolumeCalls, DeleteEntry(t) PROVE OneLock'
  BY Zenon, <1>15 DEF DeleteEntry, VolumeInv, VolumeType, CreatedAlone, OneLock, SameRecord,
     Creating,
     Inside, Using
<1>16. ASSUME NEW t \in VolumeCalls, DeleteLock(t) PROVE OneLock'
  BY Zenon, <1>16 DEF DeleteLock, VolumeInv, VolumeType, CreatedAlone, OneLock, SameRecord,
     Creating,
     Inside, Using
<1>17. ASSUME RestartVolumes PROVE OneLock'
  BY <1>17 DEF RestartVolumes, VolumeInv, VolumeType, CreatedAlone, OneLock, SameRecord,
     Creating, Inside, Using
<1>18. CASE UNCHANGED volumeVars
  BY Zenon, <1>18 DEF volumeVars, VolumeInv, VolumeType, CreatedAlone, OneLock, SameRecord,
     Creating,
     Inside, Using
<1> QED
  BY Zenon, <1>1, <1>2, <1>3, <1>4, <1>5, <1>6, <1>7, <1>8, <1>9, <1>10, <1>11, <1>12, <1>13,
     <1>14,
     <1>15, <1>16, <1>17, <1>18 DEF VolumeNext, VolumeStep

(* Every step keeps the calls on the record of the map.                    *)
LEMMA SameRecordStep ==
  ASSUME ~IdsReused, VolumeInv, [VolumeNext]_volumeVars
  PROVE  SameRecord'
<1> USE VolumeAssumption DEF NoVolume, NoLock, ReturnFrom, GoTo, VolumeIdle, CallActs, InUse
<1>1. ASSUME NEW t \in VolumeCalls, NEW op \in VolumeOps, NEW w \in VolumeOwners, BeginCall(t, op, w)
      PROVE  SameRecord'
  BY <1>1 DEF BeginCall, VolumeInv, VolumeType, CreatedAlone, OneLock, SameRecord, Creating,
     Inside, Using
<1>2. ASSUME NEW t \in VolumeCalls, NEW valid \in BOOLEAN, CreateDirectory(t, valid)
      PROVE  SameRecord'
  BY <1>2 DEF CreateDirectory, VolumeInv, VolumeType, CreatedAlone, OneLock, SameRecord,
     Creating, Inside, Using
<1>3. ASSUME NEW t \in VolumeCalls, CreateVolume(t) PROVE SameRecord'
  BY <1>3 DEF CreateVolume, VolumeInv, VolumeType, CreatedAlone, OneLock, SameRecord, Creating,
     Inside, Using
<1>4. ASSUME NEW t \in VolumeCalls, CreateLock(t) PROVE SameRecord'
  BY Zenon, <1>4 DEF CreateLock, VolumeInv, VolumeType, CreatedAlone, OneLock, SameRecord,
     Creating,
     Inside, Using
<1>5. ASSUME NEW t \in VolumeCalls, GetVolumeLock(t) PROVE SameRecord'
  BY <1>5 DEF GetVolumeLock, VolumeInv, VolumeType, CreatedAlone, OneLock, SameRecord,
     Creating, Inside, Using
<1>6. ASSUME NEW t \in VolumeCalls, StoreNewLock(t) PROVE SameRecord'
  BY <1>6 DEF StoreNewLock, VolumeInv, VolumeType, CreatedAlone, OneLock, SameRecord, Creating,
     Inside, Using
<1>7. ASSUME NEW t \in VolumeCalls, LockVolume(t) PROVE SameRecord'
  BY <1>7 DEF LockVolume, VolumeInv, VolumeType, CreatedAlone, OneLock, SameRecord, Creating,
     Inside, Using
<1>8. ASSUME NEW t \in VolumeCalls, validateWorkloadAccess(t) PROVE SameRecord'
  BY <1>8 DEF validateWorkloadAccess, VolumeInv, VolumeType, CreatedAlone, OneLock, SameRecord,
     Creating, Inside, Using
<1>9. ASSUME NEW t \in VolumeCalls, GetVolume(t) PROVE SameRecord'
  BY <1>9 DEF GetVolume, VolumeInv, VolumeType, CreatedAlone, OneLock, SameRecord, Creating,
     Inside, Using
<1>10. ASSUME NEW t \in VolumeCalls, MountVolume(t) PROVE SameRecord'
  BY Zenon, <1>10 DEF MountVolume, VolumeInv, VolumeType, CreatedAlone, OneLock, SameRecord,
     Creating,
     Inside, Using
<1>11. ASSUME NEW t \in VolumeCalls, UnmountVolume(t) PROVE SameRecord'
  BY Zenon, <1>11 DEF UnmountVolume, VolumeInv, VolumeType, CreatedAlone, OneLock, SameRecord,
     Creating, Inside, Using
<1>12. ASSUME NEW t \in VolumeCalls, CreateSnapshot(t) PROVE SameRecord'
  BY Zenon, <1>12 DEF CreateSnapshot, VolumeInv, VolumeType, CreatedAlone, OneLock, SameRecord,
     Creating, Inside, Using
<1>13. ASSUME NEW t \in VolumeCalls, NEW accepted \in BOOLEAN, TouchVolume(t, accepted)
      PROVE  SameRecord'
  BY Zenon, <1>13 DEF TouchVolume, VolumeInv, VolumeType, CreatedAlone, OneLock, SameRecord,
     Creating,
     Inside, Using
<1>14. ASSUME NEW t \in VolumeCalls, NEW removed \in BOOLEAN, DeleteVolume(t, removed)
      PROVE  SameRecord'
  BY <1>14 DEF DeleteVolume, VolumeInv, VolumeType, CreatedAlone, OneLock, SameRecord,
     Creating, Inside, Using
<1>15. ASSUME NEW t \in VolumeCalls, DeleteEntry(t) PROVE SameRecord'
  BY <1>15 DEF DeleteEntry, VolumeInv, VolumeType, CreatedAlone, OneLock, SameRecord, Creating,
     Inside, Using
<1>16. ASSUME NEW t \in VolumeCalls, DeleteLock(t) PROVE SameRecord'
  BY Zenon, <1>16 DEF DeleteLock, VolumeInv, VolumeType, CreatedAlone, OneLock, SameRecord,
     Creating,
     Inside, Using
<1>17. ASSUME RestartVolumes PROVE SameRecord'
  BY Zenon, <1>17 DEF RestartVolumes, VolumeInv, VolumeType, CreatedAlone, OneLock, SameRecord,
     Creating, Inside, Using
<1>18. CASE UNCHANGED volumeVars
  BY Zenon, <1>18 DEF volumeVars, VolumeInv, VolumeType, CreatedAlone, OneLock, SameRecord,
     Creating,
     Inside, Using
<1> QED
  BY Zenon, <1>1, <1>2, <1>3, <1>4, <1>5, <1>6, <1>7, <1>8, <1>9, <1>10, <1>11, <1>12, <1>13,
     <1>14,
     <1>15, <1>16, <1>17, <1>18 DEF VolumeNext, VolumeStep

(* Every step keeps the directory with the entry.                          *)
LEMMA DirectoryStep ==
  ASSUME ~IdsReused, VolumeInv, [VolumeNext]_volumeVars
  PROVE  DirectoryKept'
<1> USE VolumeAssumption DEF NoVolume, NoLock, ReturnFrom, GoTo, VolumeIdle, CallActs, InUse
<1>1. ASSUME NEW t \in VolumeCalls, NEW op \in VolumeOps, NEW w \in VolumeOwners, BeginCall(t, op, w)
      PROVE  DirectoryKept'
  BY <1>1 DEF BeginCall, VolumeInv, VolumeType, CreatedAlone, OneLock, SameRecord,
     DirectoryKept, Creating, Inside, Using, Removing
<1>2. ASSUME NEW t \in VolumeCalls, NEW valid \in BOOLEAN, CreateDirectory(t, valid)
      PROVE  DirectoryKept'
  BY <1>2 DEF CreateDirectory, VolumeInv, VolumeType, CreatedAlone, OneLock, SameRecord,
     DirectoryKept, Creating, Inside, Using, Removing
<1>3. ASSUME NEW t \in VolumeCalls, CreateVolume(t) PROVE DirectoryKept'
  BY <1>3 DEF CreateVolume, VolumeInv, VolumeType, CreatedAlone, OneLock, SameRecord,
     DirectoryKept, Creating, Inside, Using, Removing
<1>4. ASSUME NEW t \in VolumeCalls, CreateLock(t) PROVE DirectoryKept'
  BY Zenon, <1>4 DEF CreateLock, VolumeInv, VolumeType, CreatedAlone, OneLock, SameRecord,
     DirectoryKept, Creating, Inside, Using, Removing
<1>5. ASSUME NEW t \in VolumeCalls, GetVolumeLock(t) PROVE DirectoryKept'
  BY <1>5 DEF GetVolumeLock, VolumeInv, VolumeType, CreatedAlone, OneLock, SameRecord,
     DirectoryKept, Creating, Inside, Using, Removing
<1>6. ASSUME NEW t \in VolumeCalls, StoreNewLock(t) PROVE DirectoryKept'
  BY Zenon, <1>6 DEF StoreNewLock, VolumeInv, VolumeType, CreatedAlone, OneLock, SameRecord,
     DirectoryKept, Creating, Inside, Using, Removing
<1>7. ASSUME NEW t \in VolumeCalls, LockVolume(t) PROVE DirectoryKept'
  BY <1>7 DEF LockVolume, VolumeInv, VolumeType, CreatedAlone, OneLock, SameRecord,
     DirectoryKept, Creating, Inside, Using, Removing
<1>8. ASSUME NEW t \in VolumeCalls, validateWorkloadAccess(t) PROVE DirectoryKept'
  BY <1>8 DEF validateWorkloadAccess, VolumeInv, VolumeType, CreatedAlone, OneLock, SameRecord,
     DirectoryKept, Creating, Inside, Using, Removing
<1>9. ASSUME NEW t \in VolumeCalls, GetVolume(t) PROVE DirectoryKept'
  BY <1>9 DEF GetVolume, VolumeInv, VolumeType, CreatedAlone, OneLock, SameRecord,
     DirectoryKept, Creating, Inside, Using, Removing
<1>10. ASSUME NEW t \in VolumeCalls, MountVolume(t) PROVE DirectoryKept'
  BY <1>10 DEF MountVolume, VolumeInv, VolumeType, CreatedAlone, OneLock, SameRecord,
     DirectoryKept, Creating, Inside, Using, Removing
<1>11. ASSUME NEW t \in VolumeCalls, UnmountVolume(t) PROVE DirectoryKept'
  BY Zenon, <1>11 DEF UnmountVolume, VolumeInv, VolumeType, CreatedAlone, OneLock, SameRecord,
     DirectoryKept, Creating, Inside, Using, Removing
<1>12. ASSUME NEW t \in VolumeCalls, CreateSnapshot(t) PROVE DirectoryKept'
  BY Zenon, <1>12 DEF CreateSnapshot, VolumeInv, VolumeType, CreatedAlone, OneLock, SameRecord,
     DirectoryKept, Creating, Inside, Using, Removing
<1>13. ASSUME NEW t \in VolumeCalls, NEW accepted \in BOOLEAN, TouchVolume(t, accepted)
      PROVE  DirectoryKept'
  BY Zenon, <1>13 DEF TouchVolume, VolumeInv, VolumeType, CreatedAlone, OneLock, SameRecord,
     DirectoryKept, Creating, Inside, Using, Removing
<1>14. ASSUME NEW t \in VolumeCalls, NEW removed \in BOOLEAN, DeleteVolume(t, removed)
      PROVE  DirectoryKept'
  BY <1>14 DEF DeleteVolume, VolumeInv, VolumeType, CreatedAlone, OneLock, SameRecord,
     DirectoryKept, Creating, Inside, Using, Removing
<1>15. ASSUME NEW t \in VolumeCalls, DeleteEntry(t) PROVE DirectoryKept'
  BY <1>15 DEF DeleteEntry, VolumeInv, VolumeType, CreatedAlone, OneLock, SameRecord,
     DirectoryKept, Creating, Inside, Using, Removing
<1>16. ASSUME NEW t \in VolumeCalls, DeleteLock(t) PROVE DirectoryKept'
  BY Zenon, <1>16 DEF DeleteLock, VolumeInv, VolumeType, CreatedAlone, OneLock, SameRecord,
     DirectoryKept, Creating, Inside, Using, Removing
<1>17. ASSUME RestartVolumes PROVE DirectoryKept'
  BY <1>17 DEF RestartVolumes, VolumeInv, VolumeType, CreatedAlone, OneLock, SameRecord,
     DirectoryKept, Creating, Inside, Using, Removing
<1>18. CASE UNCHANGED volumeVars
  BY Zenon, <1>18 DEF volumeVars, VolumeInv, VolumeType, CreatedAlone, OneLock, SameRecord,
     DirectoryKept, Creating, Inside, Using, Removing
<1> QED
  BY Zenon, <1>1, <1>2, <1>3, <1>4, <1>5, <1>6, <1>7, <1>8, <1>9, <1>10, <1>11, <1>12, <1>13,
     <1>14,
     <1>15, <1>16, <1>17, <1>18 DEF VolumeNext, VolumeStep

(* The entry of a volume in the manager's map and its directory come and   *)
(* go together, whatever calls run on the volume at once and wherever the  *)
(* process ends, once no call that creates or deletes it is under way      *)
(* (CreateVolume, DeleteVolume, getVolumeLock, loadVolumes): for any number*)
(* of callers and owners, of a volume whose ID is not given to another one.*)
THEOREM EntriesMatchDirectories ==
  ASSUME ~IdsReused
  PROVE  VolumeSpec => []EntryMatchesDirectory
<1>1. VolumeInv /\ [VolumeNext]_volumeVars => VolumeInv'
  BY Zenon, VolumeTypeStep, CreatedAloneStep, OneLockStep, SameRecordStep,
     DirectoryStep DEF VolumeInv
<1>2. VolumeInv => EntryMatchesDirectory
  BY Zenon DEF VolumeInv, CreatedAlone, DirectoryKept, EntryMatchesDirectory, Creating, Removing
<1> QED
  BY <1>1, <1>2, VolumeInitInv, PTL DEF VolumeSpec

-----------------------------------------------------------------------------
(* The containers and their health monitor.                                *)

(* The log of restarts is in order, its last entry is the time the monitor *)
(* keeps, and the counter counts its last entries: the one before them, if *)
(* any, came more than a window earlier.                                   *)
LogOrdered(log) ==
  /\ \A i \in 1..Len(log) : log[i] <= now
  /\ \A i, j \in 1..Len(log) : i <= j => log[i] <= log[j]

CounterMatches(c) ==
  LET n == Len(restartLog[c])  a == attempts[c] IN
    /\ n = 0 => a = 0 /\ lastRestart[c] = Never
    /\ n > 0 => a \in 1..n /\ lastRestart[c] = restartLog[c][n]
    /\ a < n => restartLog[c][n - a + 1] - restartLog[c][n - a] > RestartWindow

WithinRate(log) ==
  \A i \in 1..(Len(log) - MaxRestarts) : log[i + MaxRestarts] - log[i] > RestartWindow

LimitOK == \A c \in Containers :
  LogOrdered(restartLog[c]) /\ CounterMatches(c) /\ WithinRate(restartLog[c])

(* A restart under way is still allowed when it completes: time only makes *)
(* it more so, and nobody else restarts the container.                     *)
RestartAllowed == monitor.pc \in {"stop", "start"} => shouldRestart(monitor.c)

IInv == TypeOK /\ LimitOK /\ RestartAllowed

(* The initial state is well typed.                                        *)
LEMMA TypeInit == Init => TypeOK
  <1> SUFFICES ASSUME Init PROVE TypeOK
    BY Zenon
  <1> USE ConfigAssumption DEF Init
  <1>1. WorkerTypeOK
    BY Zenon DEF WorkerTypeOK, RuntimeStates, WorkerRec, WorkerPCs, Idle, Ops
  <1>2. ProbeTypeOK
    BY DEF ProbeTypeOK, NoResult
  <1>3. MonitorTypeOK
    BY DEF MonitorTypeOK
  <1>4. ReportTypeOK
    BY Zenon DEF ReportTypeOK, Flag
  <1> QED BY Zenon, <1>1, <1>2, <1>3, <1>4 DEF TypeOK

(* The types of a part survive a step that leaves the part alone.          *)
LEMMA WorkerStutter == WorkerTypeOK /\ UNCHANGED workerVars => WorkerTypeOK'
  BY Zenon DEF WorkerTypeOK, workerVars

(* The same for the probes.                                                *)
LEMMA ProbeStutter == ProbeTypeOK /\ UNCHANGED probeVars => ProbeTypeOK'
  BY Zenon DEF ProbeTypeOK, probeVars

(* The same for the health monitor.                                        *)
LEMMA MonitorStutter ==
  MonitorTypeOK /\ UNCHANGED <<registered, monitor, limitVars, now>> => MonitorTypeOK'
  BY Zenon DEF MonitorTypeOK, limitVars

(* The same for the reports.                                               *)
LEMMA ReportStutter == ReportTypeOK /\ UNCHANGED reportVars => ReportTypeOK'
  BY Zenon DEF ReportTypeOK, reportVars

(* The calls of the runtime keep the containers' states well typed.        *)
LEMMA RuntimeType ==
  ASSUME WorkerTypeOK, NEW c \in Containers, NEW ok \in BOOLEAN,
         CreateContainer(c, ok) \/ StartContainer(c, ok) \/ StopContainer(c, ok)
           \/ DeleteContainer(c, ok)
  PROVE  container' \in [Containers -> RuntimeStates]
  BY Zenon DEF WorkerTypeOK, RuntimeStates, CreateContainer, StartContainer, StopContainer,
         DeleteContainer

(* A worker goes to its next step or returns.                              *)
LEMMA WorkerMoves ==
  ASSUME WorkerTypeOK, NEW w \in Workers, worker[w].op # "idle",
         container' \in [Containers -> RuntimeStates],
         Return(w) \/ ReturnStop(w) \/ \E pc \in WorkerPCs : Goto(w, pc)
  PROVE  WorkerTypeOK'
  <1>1. CASE Return(w)
    BY Zenon, <1>1 DEF WorkerTypeOK, Return, Idle, WorkerRec, WorkerPCs, Ops
  <1>2. ASSUME NEW pc \in WorkerPCs, Goto(w, pc) PROVE WorkerTypeOK'
    BY <1>2 DEF WorkerTypeOK, Goto, WorkerRec
  <1>3. CASE ReturnStop(w)
    BY Zenon, <1>1, <1>2, <1>3 DEF ReturnStop, WorkerPCs
  <1> QED BY Zenon, <1>1, <1>2, <1>3

(* Every step of a worker keeps the types.                                 *)
LEMMA WorkerSteps ==
  ASSUME TypeOK, NEW w \in Workers, NEW ok \in BOOLEAN, NEW ip \in BOOLEAN,
         \/ RunCreate(w, ok) \/ RunStart(w, ok, ip) \/ RunProbe(w)
         \/ RegisterContainer(w) \/ StopFind(w, ok) \/ UnregisterContainer(w)
         \/ ClearProbeResults(w) \/ WorkerStop(w, ok) \/ WorkerDelete(w, ok)
  PROVE  TypeOK'
  <1> USE DEF TypeOK, At
  <1>0. worker[w].op # "idle" /\ worker[w].c \in Containers
    BY ZenonT(60) DEF RunCreate, RunStart, RunProbe, RegisterContainer, StopFind,
       UnregisterContainer,
           ClearProbeResults, WorkerStop, WorkerDelete, WorkerTypeOK
  <1>1. CASE RunCreate(w, ok)
    BY ZenonT(60), <1>0, <1>1, RuntimeType, WorkerMoves, ProbeStutter, MonitorStutter,
       ReportStutter
    DEF RunCreate, WorkerPCs
  <1>2. CASE RunStart(w, ok, ip)
    BY Zenon, <1>0, <1>2, RuntimeType, WorkerMoves, ProbeStutter, MonitorStutter, ReportStutter
    DEF RunStart, WorkerPCs
  <1>3. CASE RunProbe(w)
    <2>1. WorkerTypeOK'
      BY Zenon, <1>0, <1>3, WorkerMoves DEF RunProbe, WorkerPCs, WorkerTypeOK
    <2>2. ProbeTypeOK'
      BY Zenon, <1>0, <1>3 DEF RunProbe, ProbeTypeOK
    <2> QED BY Zenon, <1>3, <2>1, <2>2, MonitorStutter, ReportStutter DEF RunProbe
  <1>4. CASE RegisterContainer(w)
    <2>1. WorkerTypeOK'
      BY ZenonT(60), <1>0, <1>4, WorkerMoves DEF RegisterContainer, WorkerTypeOK
    <2>2. MonitorTypeOK'
      BY Zenon, <1>0, <1>4 DEF RegisterContainer, MonitorTypeOK, limitVars
    <2> QED BY Zenon, <1>4, <2>1, <2>2, ProbeStutter, ReportStutter DEF RegisterContainer
  <1>5. CASE StopFind(w, ok)
    <2>1. WorkerTypeOK'
      BY Zenon, <1>0, <1>5, WorkerMoves DEF StopFind, WorkerPCs, WorkerTypeOK
    <2> QED BY Zenon, <1>5, <2>1, ProbeStutter, MonitorStutter, ReportStutter DEF StopFind
  <1>6. CASE UnregisterContainer(w)
    <2>1. WorkerTypeOK'
      BY ZenonT(60), <1>0, <1>6, WorkerMoves DEF UnregisterContainer, WorkerPCs, WorkerTypeOK
    <2>2. MonitorTypeOK'
      BY ZenonT(60), <1>0, <1>6 DEF UnregisterContainer, MonitorTypeOK, limitVars
    <2>3. ReportTypeOK'
      BY Zenon, <1>0, <1>6 DEF UnregisterContainer, ReportTypeOK, Flag
    <2> QED BY Zenon, <1>6, <2>1, <2>2, <2>3, ProbeStutter DEF UnregisterContainer
  <1>7. CASE ClearProbeResults(w)
    <2>1. WorkerTypeOK'
      BY ZenonT(60), <1>0, <1>7, WorkerMoves DEF ClearProbeResults, WorkerPCs, WorkerTypeOK
    <2>2. ProbeTypeOK'
      BY SMTT(30), <1>0, <1>7, ConfigAssumption DEF ClearProbeResults, ProbeTypeOK, NoResult
    <2> QED BY Zenon, <1>7, <2>1, <2>2, MonitorStutter, ReportStutter DEF ClearProbeResults
  <1>8. CASE WorkerStop(w, ok)
    BY ZenonT(60), <1>0, <1>8, RuntimeType, WorkerMoves, ProbeStutter, MonitorStutter,
       ReportStutter
    DEF WorkerStop, WorkerPCs
  <1>9. CASE WorkerDelete(w, ok)
    BY Zenon, <1>0, <1>9, RuntimeType, WorkerMoves, ProbeStutter, MonitorStutter, ReportStutter
    DEF WorkerDelete
  <1> QED BY Zenon, <1>1, <1>2, <1>3, <1>4, <1>5, <1>6, <1>7, <1>8, <1>9

(* Every step of the probe worker and of the monitor, and a step of a      *)
(* container or the clock, keeps the types; the counter needs the limit.   *)
LEMMA TypeStep == TypeOK /\ RestartAllowed /\ [Next]_vars => TypeOK'
  <1> SUFFICES ASSUME TypeOK, RestartAllowed, [Next]_vars PROVE TypeOK'
    BY Zenon
  <1> USE ConfigAssumption DEF TypeOK
  <1>0. CASE UNCHANGED vars
    BY Zenon, <1>0, WorkerStutter, ProbeStutter, MonitorStutter, ReportStutter DEF vars
  <1>1. ASSUME NEW c \in Containers, Exit(c) PROVE TypeOK'
    <2>1. WorkerTypeOK'
      BY Zenon, <1>1 DEF Exit, WorkerTypeOK, RuntimeStates
    <2> QED BY Zenon, <1>1, <2>1, ProbeStutter, MonitorStutter, ReportStutter DEF Exit
  <1>2. ASSUME NEW w \in Workers, NEW op \in Assignments, NEW c \in Containers,
               Assign(w, op, c)
        PROVE  TypeOK'
    <2>1. WorkerTypeOK'
      BY Zenon, <1>2 DEF Assign, WorkerTypeOK, FirstStep, WorkerRec, WorkerPCs, Ops
    <2> QED BY Zenon, <1>2, <2>1, ProbeStutter, MonitorStutter, ReportStutter DEF Assign
  <1>3. ASSUME NEW w \in Workers, NEW ok \in BOOLEAN, NEW ip \in BOOLEAN,
               \/ RunCreate(w, ok) \/ RunStart(w, ok, ip) \/ RunProbe(w)
               \/ RegisterContainer(w) \/ StopFind(w, ok) \/ UnregisterContainer(w)
               \/ ClearProbeResults(w) \/ WorkerStop(w, ok) \/ WorkerDelete(w, ok)
        PROVE  TypeOK'
    BY Zenon, <1>3, WorkerSteps
  <1>4. ASSUME NEW c \in Containers, NEW p \in ProbeTypes, ProbeBegin(c, p) PROVE TypeOK'
    <2>1. ProbeTypeOK'
      BY <1>4 DEF ProbeBegin, ProbeTypeOK, NoResult, Types
    <2> QED BY Zenon, <1>4, <2>1, WorkerStutter, MonitorStutter, ReportStutter DEF ProbeBegin
  <1>5. ASSUME NEW success \in BOOLEAN, ProbeEnd(success) PROVE TypeOK'
    <2>1. probe \in [c : Containers, type : Types, failures : 0..FailureThreshold]
      BY Zenon, <1>5 DEF ProbeEnd, ProbeTypeOK
    <2>2. ProbeTypeOK'
      BY <1>5, <2>1 DEF ProbeEnd, ProbeTypeOK, NoResult
    <2> QED BY Zenon, <1>5, <2>2, WorkerStutter, MonitorStutter, ReportStutter DEF ProbeEnd
  <1>6. CASE BeginPass
    <2>1. MonitorTypeOK'
      BY <1>6 DEF BeginPass, MonitorTypeOK, limitVars
    <2> QED BY Zenon, <1>6, <2>1, WorkerStutter, ProbeStutter, ReportStutter DEF BeginPass
  <1>7. CASE CheckLiveness
    <2>1. monitor \in [todo : SUBSET Containers, c : Containers,
                       pc : {"liveness", "stop", "start", "readiness"}]
      BY <1>7 DEF CheckLiveness, MonitorTypeOK, NoPass
    <2>2. MonitorTypeOK'
      BY Zenon, <1>7, <2>1 DEF CheckLiveness, MonitorTypeOK, limitVars
    <2>3. ReportTypeOK'
      BY <1>7, <2>1 DEF CheckLiveness, reportLiveness, ReportTypeOK, Flag
    <2> QED BY Zenon, <1>7, <2>2, <2>3, WorkerStutter, ProbeStutter DEF CheckLiveness
  <1>8. ASSUME NEW ok \in BOOLEAN, RestartStop(ok) PROVE TypeOK'
    <2>1. monitor \in [todo : SUBSET Containers, c : Containers,
                       pc : {"liveness", "stop", "start", "readiness"}]
      BY <1>8 DEF RestartStop, MonitorTypeOK, NoPass
    <2>2. MonitorTypeOK'
      BY Zenon, <1>8, <2>1 DEF RestartStop, MonitorTypeOK, limitVars
    <2>3. WorkerTypeOK'
      BY Zenon, <1>8, <2>1, RuntimeType DEF RestartStop, WorkerTypeOK
    <2> QED BY Zenon, <1>8, <2>2, <2>3, ProbeStutter, ReportStutter DEF RestartStop
  <1>9. ASSUME NEW ok \in BOOLEAN, RestartStart(ok) PROVE TypeOK'
    <2>1. monitor \in [todo : SUBSET Containers, c : Containers,
                       pc : {"liveness", "stop", "start", "readiness"}]
      BY <1>9 DEF RestartStart, MonitorTypeOK, NoPass
    <2>2. shouldRestart(monitor.c)
      BY Zenon, <1>9 DEF RestartStart, RestartAllowed
    <2>3. monitor' = [monitor EXCEPT !.pc = "readiness"] /\ registered' = registered /\ now' = now
      BY Zenon, <1>9 DEF RestartStart
    <2>4. ASSUME recordRestart(monitor.c) PROVE MonitorTypeOK'
      <3>1. PICK c \in Containers : c = monitor.c
        BY Zenon, <2>1
      <3>2. attempts' \in [Containers -> 0..MaxRestarts]
        BY SMTT(30), <2>2, <2>4, <3>1 DEF MonitorTypeOK, recordRestart, shouldRestart
      <3>3. /\ lastRestart' \in [Containers -> Nat \cup {Never}]
            /\ restartLog' \in [Containers -> Seq(Nat)]
        BY <2>4, <3>1 DEF MonitorTypeOK, recordRestart
      <3>4. monitor' \in [todo : SUBSET Containers, c : Containers,
                          pc : {"liveness", "stop", "start", "readiness"}]
        BY Zenon, <2>1, <2>3
      <3> QED BY Zenon, <2>3, <3>2, <3>3, <3>4 DEF MonitorTypeOK
    <2>5. ASSUME UNCHANGED limitVars PROVE MonitorTypeOK'
      BY Zenon, <2>1, <2>3, <2>5 DEF MonitorTypeOK, limitVars
    <2>6. MonitorTypeOK'
      BY Zenon, <1>9, <2>4, <2>5 DEF RestartStart
    <2>7. WorkerTypeOK'
      BY Zenon, <1>9, <2>1, RuntimeType DEF RestartStart, WorkerTypeOK
    <2>8. ReportTypeOK'
      BY <1>9, <2>1 DEF RestartStart, reportLiveness, ReportTypeOK, Flag
    <2> QED BY Zenon, <1>9, <2>6, <2>7, <2>8, ProbeStutter DEF RestartStart
  <1>10. CASE CheckReadiness
    <2>1. monitor \in [todo : SUBSET Containers, c : Containers,
                       pc : {"liveness", "stop", "start", "readiness"}]
      BY SMTT(30), <1>10 DEF CheckReadiness, MonitorTypeOK, NoPass
    <2>2. MonitorTypeOK'
      BY SMTT(30), <1>10, <2>1 DEF CheckReadiness, NextContainer, MonitorTypeOK, limitVars
    <2>3. ReportTypeOK'
      BY <1>10, <2>1 DEF CheckReadiness, reportReadiness, Ready, ReportTypeOK, Flag, reportVars
    <2> QED BY Zenon, <1>10, <2>2, <2>3, WorkerStutter, ProbeStutter DEF CheckReadiness
  <1>11. CASE Tick
    <2>1. MonitorTypeOK'
      BY SMTT(30), <1>11 DEF Tick, MonitorTypeOK, limitVars
    <2> QED BY Zenon, <1>11, <2>1, WorkerStutter, ProbeStutter, ReportStutter DEF Tick
  <1> QED
    BY Zenon, <1>0, <1>1, <1>2, <1>3, <1>4, <1>5, <1>6, <1>7, <1>8, <1>9, <1>10, <1>11 DEF Next

(* The restart that the monitor has decided on stays allowed.              *)
LEMMA AllowedStep == TypeOK /\ RestartAllowed /\ [Next]_vars => RestartAllowed'
  <1> SUFFICES ASSUME TypeOK, RestartAllowed, [Next]_vars, monitor'.pc \in {"stop", "start"}
               PROVE  shouldRestart(monitor.c)'
    BY Zenon DEF RestartAllowed
  <1> USE ConfigAssumption DEF shouldRestart, OutsideWindow
  <1>1. CASE CheckLiveness
    <2>1. monitor.c = monitor'.c /\ shouldRestart(monitor.c)
      BY Zenon, <1>1 DEF CheckLiveness, TypeOK, MonitorTypeOK, NoPass
    <2> QED BY Zenon, <1>1, <2>1 DEF CheckLiveness, limitVars
  <1>2. ASSUME NEW ok \in BOOLEAN, RestartStop(ok) PROVE shouldRestart(monitor.c)'
    <2>1. monitor.c = monitor'.c /\ shouldRestart(monitor.c)
      BY Zenon, <1>2 DEF RestartStop, RestartAllowed, TypeOK, MonitorTypeOK, NoPass
    <2> QED BY Zenon, <1>2, <2>1 DEF RestartStop, limitVars
  <1>3. CASE Tick
    <2>1. monitor' = monitor /\ monitor.c \in Containers /\ shouldRestart(monitor.c)
      BY <1>3 DEF Tick, RestartAllowed, TypeOK, MonitorTypeOK, NoPass
    <2> QED BY SMTT(30), <1>3, <2>1 DEF Tick, limitVars, TypeOK, MonitorTypeOK, Never
  <1>4. ASSUME UNCHANGED <<monitor, limitVars, now>> PROVE shouldRestart(monitor.c)'
    BY Zenon, <1>4 DEF RestartAllowed, limitVars
  <1>5. ASSUME NEW ok \in BOOLEAN, RestartStart(ok) PROVE FALSE
    BY Zenon, <1>5 DEF RestartStart, TypeOK, MonitorTypeOK, NoPass
  <1>6. ASSUME BeginPass \/ CheckReadiness PROVE FALSE
    BY <1>6 DEF BeginPass, CheckReadiness, NextContainer, NoPass
  <1> QED
    BY Zenon, <1>1, <1>2, <1>3, <1>4, <1>5, <1>6
    DEF Next, vars, Exit, Assign, RunCreate, RunStart, RunProbe, RegisterContainer, StopFind,
        UnregisterContainer, ClearProbeResults, WorkerStop, WorkerDelete, ProbeBegin, ProbeEnd

(* Two facts about indexes: the last window of m + 1 entries of a log that *)
(* grew by one ends at the new entry, and starts before the last a.        *)
LEMMA LastWindow ==
  ASSUME NEW n \in Nat, NEW m \in Nat, NEW i \in 1..(n + 1 - m)
  PROVE  i + m <= n \/ i + m = n + 1
  OBVIOUS

(* An entry more than the counted ones back lies before all of them.       *)
LEMMA BeforeCounted ==
  ASSUME NEW n \in Nat, NEW m \in Nat, NEW a \in Nat, NEW i \in 1..n,
         i + m = n + 1, a < m, a > 0
  PROVE  a < n /\ n - a \in 1..n /\ n - a + 1 \in 1..n /\ i <= n - a
  OBVIOUS

(* A gap only grows when its ends move apart.                              *)
LEMMA WiderGap ==
  ASSUME NEW w \in Nat, NEW x \in Nat, NEW y \in Nat, NEW z \in Nat, NEW t \in Nat,
         x <= y, z <= t, z - y > w
  PROVE  t - x > w
  OBVIOUS

(* A log in order whose last a entries the counter counts keeps the rate   *)
(* when one more restart is appended that is outside the window of the     *)
(* last one, or that the counter does not yet count as the m + 1st.        *)
MayAppend(log, n, t, a, m, window) ==
  /\ n = Len(log) /\ a <= n /\ (n > 0 => a > 0) /\ m > 0
  /\ \A i \in 1..n : log[i] <= t
  /\ \A i, j \in 1..n : i <= j => log[i] <= log[j]
  /\ a < n => log[n - a + 1] - log[n - a] > window
  /\ \A i \in 1..(n - m) : log[i + m] - log[i] > window
  /\ a < m \/ (n > 0 => t - log[n] > window)

Appended(longer, n, t, m, window) ==
  /\ \A i \in 1..(n + 1) : longer[i] <= t
  /\ \A i, j \in 1..(n + 1) : i <= j => longer[i] <= longer[j]
  /\ \A i \in 1..(n + 1 - m) : longer[i + m] - longer[i] > window

(* A restart that the monitor allows keeps the log within the limit.       *)
LEMMA AppendKeepsRate ==
  ASSUME NEW log \in Seq(Nat), NEW n \in Nat, NEW t \in Nat, NEW a \in Nat,
         NEW m \in Nat, NEW window \in Nat, MayAppend(log, n, t, a, m, window)
  PROVE  Appended(Append(log, t), n, t, m, window)
  <1> USE DEF MayAppend
  <1>0. PICK longer : longer = Append(log, t)
    BY Zenon
  <1> USE <1>0
  <1>1. longer[n + 1] = t
    OBVIOUS
  <1>2. \A i \in 1..n : longer[i] = log[i] /\ log[i] \in Nat
    OBVIOUS
  <1>3. ASSUME NEW i \in 1..(n + 1 - m)
        PROVE  longer[i + m] - longer[i] > window
    <2>1. CASE i + m <= n
      BY <1>2, <2>1
    <2>2. CASE i + m = n + 1 /\ i <= n /\ n > 0 /\ t - log[n] > window
      <3>1. log[i] <= log[n] /\ log[i] \in Nat /\ log[n] \in Nat
        BY <1>2, <2>2
      <3> QED BY SMTT(30), <1>1, <1>2, <2>2, <3>1
    <2>3. CASE i + m = n + 1 /\ a < m
      <3>1. n > 0 /\ i \in 1..n
        BY SMTT(30), <2>3
      <3>2. a < n /\ n - a \in 1..n /\ n - a + 1 \in 1..n /\ i <= n - a
        BY Zenon, <2>3, <3>1, BeforeCounted
      <3>3. PICK k \in 1..n : k = n - a
        BY Zenon, <3>2
      <3>4. PICK l \in 1..n : l = n - a + 1
        BY ZenonT(60), <3>2
      <3>5. log[i] <= log[k]
        BY Zenon, <3>1, <3>2, <3>3
      <3>6. log[l] <= t
        BY Zenon
      <3>7. log[l] - log[k] > window
        BY Zenon, <3>2, <3>3, <3>4
      <3>8. longer[i] = log[i] /\ longer[i + m] = t
        BY Zenon, <1>1, <1>2, <2>3, <3>1
      <3>9. log[i] \in Nat /\ log[k] \in Nat /\ log[l] \in Nat
        BY Zenon, <1>2, <3>1
      <3>10. t - log[i] > window
        BY <3>5, <3>6, <3>7, <3>9, WiderGap, Zenon
      <3> QED BY <3>8, <3>10, Zenon
    <2>4. i + m <= n \/ i + m = n + 1
      BY LastWindow, Zenon
    <2>5. i + m = n + 1 => n > 0 /\ i <= n
      BY SMTT(30)
    <2> QED BY Zenon, <2>1, <2>2, <2>3, <2>4, <2>5
  <1>4. \A i \in 1..(n + 1) : longer[i] <= t
    BY <1>1, <1>2
  <1>5. \A i, j \in 1..(n + 1) : i <= j => longer[i] <= longer[j]
    BY SMTT(40), <1>1, <1>2
  <1> QED BY Zenon, <1>3, <1>4, <1>5 DEF Appended

(* A completed restart that was allowed keeps the rate and the counter.    *)
LEMMA RecordKeepsLimit ==
  ASSUME TypeOK, LimitOK, NEW c \in Containers, shouldRestart(c), recordRestart(c), now' = now
  PROVE  LogOrdered(restartLog[c])' /\ CounterMatches(c)' /\ WithinRate(restartLog[c])'
  <1> USE ConfigAssumption
  <1>1. PICK log \in Seq(Nat) : log = restartLog[c]
    BY Zenon DEF TypeOK, MonitorTypeOK
  <1>2. PICK n \in Nat : n = Len(log)
    BY <1>1
  <1>3. PICK a \in Nat : a = attempts[c] /\ a <= MaxRestarts
    BY DEF TypeOK, MonitorTypeOK
  <1>4. PICK t \in Nat : t = now
    BY Zenon DEF TypeOK, MonitorTypeOK
  <1>5. PICK longer : longer = Append(log, t)
    BY Zenon
  <1>6. longer \in Seq(Nat) /\ Len(longer) = n + 1
    BY <1>2, <1>5
  <1>7. restartLog'[c] = longer /\ lastRestart'[c] = t
    BY Zenon, <1>1, <1>4, <1>5 DEF recordRestart, TypeOK, MonitorTypeOK
  <1>8. attempts'[c] = IF OutsideWindow(c) THEN 1 ELSE a + 1
    BY Zenon, <1>3 DEF recordRestart, TypeOK, MonitorTypeOK
  <1>9. /\ \A i \in 1..n : log[i] <= t
        /\ \A i, j \in 1..n : i <= j => log[i] <= log[j]
        /\ \A i \in 1..(n - MaxRestarts) : log[i + MaxRestarts] - log[i] > RestartWindow
    BY ZenonT(60), <1>1, <1>2, <1>4 DEF LimitOK, LogOrdered, WithinRate
  <1>10. /\ n = 0 => a = 0 /\ lastRestart[c] = Never
         /\ n > 0 => a \in 1..n /\ lastRestart[c] = log[n]
         /\ a < n => log[n - a + 1] - log[n - a] > RestartWindow
    BY Zenon, <1>1, <1>2, <1>3 DEF LimitOK, CounterMatches
  <1>11. OutsideWindow(c) => (n > 0 => t - log[n] > RestartWindow)
    <2> SUFFICES ASSUME OutsideWindow(c), n > 0 PROVE t - log[n] > RestartWindow
      BY Zenon
    <2>1. lastRestart[c] = log[n] /\ log[n] \in Nat
      BY <1>2, <1>10
    <2> QED BY <1>4, <2>1 DEF OutsideWindow, Never
  <1>12. a < MaxRestarts \/ (n > 0 => t - log[n] > RestartWindow)
    BY Zenon, <1>3, <1>11 DEF shouldRestart
  <1>13. a <= n /\ (n > 0 => a > 0)
    BY <1>10
  <1>14. Appended(longer, n, t, MaxRestarts, RestartWindow)
    <2>1. MaxRestarts \in Nat /\ MaxRestarts > 0 /\ RestartWindow \in Nat
      OBVIOUS
    <2>2. a < n => log[n - a + 1] - log[n - a] > RestartWindow
      BY Zenon, <1>10
    <2>3. MayAppend(log, n, t, a, MaxRestarts, RestartWindow)
      BY <1>2, <1>9, <1>12, <1>13, <2>1, <2>2, Zenon DEF MayAppend
    <2> QED BY <1>5, <2>1, <2>3, AppendKeepsRate, Zenon
  <1>15. LogOrdered(restartLog[c])' /\ WithinRate(restartLog[c])'
    <2>1. Len(longer) = n + 1 /\ now' = t
      BY Zenon, <1>4, <1>6
    <2>2. LogOrdered(restartLog[c])'
      <3>1. /\ \A i \in 1..Len(longer) : longer[i] <= now'
            /\ \A i, j \in 1..Len(longer) : i <= j => longer[i] <= longer[j]
        BY <1>14, <2>1, Zenon DEF Appended
      <3> QED BY <1>7, <3>1, Zenon DEF LogOrdered
    <2>3. WithinRate(restartLog[c])'
      <3>1. \A i \in 1..(Len(longer) - MaxRestarts) :
              longer[i + MaxRestarts] - longer[i] > RestartWindow
        <4>1. Len(longer) - MaxRestarts = n + 1 - MaxRestarts
          BY <2>1
        <4> QED BY <1>14, <4>1, Zenon DEF Appended
      <3> QED BY <1>7, <3>1, Zenon DEF WithinRate
    <2> QED BY Zenon, <2>2, <2>3
  <1>16. longer[n + 1] = t /\ \A i \in 1..n : longer[i] = log[i]
    BY <1>2, <1>5
  <1>17. CASE OutsideWindow(c)
    <2>1. attempts'[c] = 1
      BY Zenon, <1>8, <1>17
    <2>2. 1 < n + 1 => longer[n + 1] - longer[n] > RestartWindow
      BY SMTT(30), <1>11, <1>16, <1>17
    <2>3. CounterMatches(c)'
      BY <1>6, <1>7, <1>16, <2>1, <2>2 DEF CounterMatches
    <2> QED BY Zenon, <1>15, <2>3
  <1>18. CASE ~OutsideWindow(c)
    <2>1. n > 0 /\ attempts'[c] = a + 1
      BY <1>8, <1>10, <1>18 DEF OutsideWindow
    <2>2. a + 1 < n + 1 => longer[n + 1 - (a + 1) + 1] - longer[n + 1 - (a + 1)] > RestartWindow
      <3> SUFFICES ASSUME a < n PROVE longer[n - a + 1] - longer[n - a] > RestartWindow
        OBVIOUS
      <3>1. n - a \in 1..n /\ n - a + 1 \in 1..n
        BY SMTT(30), <1>10, <2>1
      <3> QED BY Zenon, <1>10, <1>16, <3>1
    <2>3. Len(restartLog'[c]) = n + 1 /\ a + 1 \in 1..(n + 1) /\ n + 1 > 0
      BY <1>6, <1>7, <1>13
    <2>4. lastRestart'[c] = restartLog'[c][n + 1]
      BY Zenon, <1>7, <1>16
    <2>5. CounterMatches(c)'
      <3>1. PICK l \in Nat : l = n + 1
        OBVIOUS
      <3>2. PICK b \in Nat : b = a + 1
        OBVIOUS
      <3>3. Len(restartLog'[c]) = l /\ attempts'[c] = b
        BY Zenon, <2>1, <2>3, <3>1, <3>2
      <3>4. l > 0 /\ b \in 1..l /\ lastRestart'[c] = restartLog'[c][l]
        BY Zenon, <2>3, <2>4, <3>1, <3>2
      <3>5. b < l => restartLog'[c][l - b + 1] - restartLog'[c][l - b] > RestartWindow
        BY SMTT(30), <1>7, <2>2, <3>1, <3>2
      <3> QED BY <3>3, <3>4, <3>5 DEF CounterMatches
    <2> QED BY Zenon, <1>15, <2>5
  <1> QED BY Zenon, <1>17, <1>18

(* Every step keeps the log within the rate.                               *)
LEMMA LimitStep == TypeOK /\ LimitOK /\ RestartAllowed /\ [Next]_vars => LimitOK'
  <1> SUFFICES ASSUME TypeOK, LimitOK, RestartAllowed, [Next]_vars PROVE LimitOK'
    BY Zenon
  <1>1. ASSUME UNCHANGED limitVars, now' \in Nat, now' >= now PROVE LimitOK'
    <2> SUFFICES ASSUME NEW d \in Containers
                 PROVE  LogOrdered(restartLog[d])' /\ CounterMatches(d)' /\ WithinRate(restartLog[d])'
      BY Zenon DEF LimitOK
    <2>1. restartLog' = restartLog /\ attempts' = attempts /\ lastRestart' = lastRestart
      BY Zenon, <1>1 DEF limitVars
    <2>2. LogOrdered(restartLog[d]) /\ CounterMatches(d) /\ WithinRate(restartLog[d])
      BY Zenon DEF LimitOK
    <2>3. restartLog[d] \in Seq(Nat) /\ now \in Nat
      BY Zenon DEF TypeOK, MonitorTypeOK
    <2>4. LogOrdered(restartLog[d])'
      BY SMTT(30), <1>1, <2>1, <2>2, <2>3 DEF LogOrdered
    <2>5. CounterMatches(d)' /\ WithinRate(restartLog[d])'
      BY Zenon, <2>1, <2>2 DEF CounterMatches, WithinRate
    <2> QED BY Zenon, <2>4, <2>5
  <1>2. ASSUME NEW ok \in BOOLEAN, RestartStart(ok) PROVE LimitOK'
    <2>1. now' = now /\ now \in Nat
      BY Zenon, <1>2 DEF RestartStart, TypeOK, MonitorTypeOK
    <2>2. CASE ~ok
      BY <1>1, <1>2, <2>1, <2>2 DEF RestartStart
    <2>3. CASE ok
      <3>1. PICK c \in Containers : c = monitor.c
        BY <1>2 DEF RestartStart, TypeOK, MonitorTypeOK, NoPass
      <3>2. shouldRestart(c) /\ recordRestart(c)
        BY Zenon, <1>2, <2>3, <3>1 DEF RestartStart, RestartAllowed
      <3> SUFFICES ASSUME NEW d \in Containers
                   PROVE  LogOrdered(restartLog[d])' /\ CounterMatches(d)'
                            /\ WithinRate(restartLog[d])'
        BY Zenon DEF LimitOK
      <3>3. CASE d = c
        BY ZenonT(60), <2>1, <3>2, <3>3, RecordKeepsLimit
      <3>4. CASE d # c
        <4>1. /\ restartLog'[d] = restartLog[d] /\ attempts'[d] = attempts[d]
              /\ lastRestart'[d] = lastRestart[d]
          BY Zenon, <3>2, <3>4 DEF recordRestart, TypeOK, MonitorTypeOK
        <4> QED BY Zenon, <2>1, <4>1 DEF LimitOK, LogOrdered, CounterMatches, WithinRate
      <3> QED BY Zenon, <3>3, <3>4
    <2> QED BY Zenon, <2>2, <2>3
  <1>3. CASE Tick
    BY <1>1, <1>3 DEF Tick, TypeOK, MonitorTypeOK
  <1>4. ASSUME UNCHANGED <<limitVars, now>> PROVE LimitOK'
    BY <1>1, <1>4 DEF TypeOK, MonitorTypeOK
  <1> QED
    BY Zenon, <1>2, <1>3, <1>4
    DEF Next, vars, Exit, Assign, RunCreate, RunStart, RunProbe, RegisterContainer, StopFind,
        UnregisterContainer, ClearProbeResults, WorkerStop, WorkerDelete, ProbeBegin, ProbeEnd,
        BeginPass, CheckLiveness, RestartStop, CheckReadiness

(* The invariant holds when the agent starts.                              *)
LEMMA InvInit == Init => IInv
  <1> SUFFICES ASSUME Init PROVE IInv
    BY Zenon
  <1>1. TypeOK
    BY Zenon, TypeInit
  <1>2. LimitOK
    <2> SUFFICES ASSUME NEW c \in Containers
                 PROVE  LogOrdered(restartLog[c]) /\ CounterMatches(c) /\ WithinRate(restartLog[c])
      BY Zenon DEF LimitOK
    <2>1. restartLog[c] = << >> /\ attempts[c] = 0 /\ lastRestart[c] = Never
      BY ZenonT(60) DEF Init
    <2>2. Len(restartLog[c]) = 0
      BY Zenon, <2>1
    <2>3. LogOrdered(restartLog[c])
      BY <2>2 DEF LogOrdered
    <2>4. CounterMatches(c)
      BY <2>1, <2>2 DEF CounterMatches
    <2>5. WithinRate(restartLog[c])
      BY <2>2, ConfigAssumption DEF WithinRate
    <2> QED BY Zenon, <2>3, <2>4, <2>5
  <1>3. RestartAllowed
    BY Zenon DEF Init, RestartAllowed, NoPass
  <1> QED BY Zenon, <1>1, <1>2, <1>3 DEF IInv

(* Every step keeps the invariant.                                         *)
LEMMA InvStep == IInv /\ [Next]_vars => IInv'
  BY Zenon, TypeStep, AllowedStep, LimitStep DEF IInv

(* The invariant holds in every reachable state.                           *)
LEMMA Invariance == Spec => []IInv
  BY InvInit, InvStep, PTL DEF Spec

(* Every reachable state of the agent is well typed; in particular no      *)
(* container's counter passes MaxRestarts.                                 *)
THEOREM TypeCorrect == Spec => []TypeOK
  BY Invariance, PTL DEF IInv

(* The health monitor restarts no container more than MaxRestarts times in *)
(* a restart window, for every limit and window, whatever the probes say,  *)
(* the runtime's calls return and the assignments do meanwhile.            *)
THEOREM RestartsAreLimited == Spec => []RestartRate
  <1>1. IInv => RestartRate
    BY Zenon DEF IInv, LimitOK, WithinRate, RestartRate
  <1> QED BY <1>1, Invariance, PTL

(* The heartbeat reports the readiness the monitor last saw, for every     *)
(* interleaving of passes, probes and assignments.                         *)
THEOREM ReadinessIsReported == Spec => []ReadinessReported
  <1>1. Init => ReadinessReported
    BY Zenon DEF Init, ReadinessReported
  <1>2. TypeOK /\ ReadinessReported /\ [Next]_vars => ReadinessReported'
    <2> SUFFICES ASSUME TypeOK, ReadinessReported, [Next]_vars PROVE ReadinessReported'
      BY Zenon
    <2> USE DEF TypeOK, ReportTypeOK
    <2>1. ASSUME NEW w \in Workers, UnregisterContainer(w) PROVE ReadinessReported'
      BY Zenon, <2>1 DEF UnregisterContainer, ReadinessReported
    <2>2. CASE CheckLiveness
      BY Zenon, <2>2 DEF CheckLiveness, reportLiveness, ReadinessReported, Flag
    <2>3. ASSUME NEW ok \in BOOLEAN, RestartStart(ok) PROVE ReadinessReported'
      BY ZenonT(60), <2>3 DEF RestartStart, reportLiveness, ReadinessReported, Flag
    <2>4. CASE CheckReadiness
      BY ZenonT(60), <2>4 DEF CheckReadiness, readinessChanged, reportReadiness,
         ReadinessReported, reportVars
    <2>5. ASSUME UNCHANGED reportVars PROVE ReadinessReported'
      BY Zenon, <2>5 DEF reportVars, ReadinessReported
    <2> QED
      BY Zenon, <2>1, <2>2, <2>3, <2>4, <2>5
      DEF Next, vars, Exit, Assign, RunCreate, RunStart, RunProbe, RegisterContainer, StopFind,
          ClearProbeResults, WorkerStop, WorkerDelete, ProbeBegin, ProbeEnd, BeginPass,
          RestartStop, Tick
  <1> QED BY <1>1, <1>2, TypeCorrect, PTL DEF Spec

=============================================================================
