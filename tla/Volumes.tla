------------------------------ MODULE Volumes ------------------------------
(***************************************************************************)
(* The node-local volumes of a storage agent (pkg/storage/volume.go behind *)
(* pkg/agent/storage.go), one volume ID: the sync.Map entry with its       *)
(* *Volume record, the directory, the per-volume lock that a second        *)
(* sync.Map holds, concurrent calls, and the restart that rebuilds the     *)
(* entries from the directories.                                           *)
(*                                                                         *)
(* Every call locks whatever lock the map holds, or puts a new one there.  *)
(* CreateVolume replaces that lock and DeleteVolume removes it, so two     *)
(* calls on one ID may hold different locks.  With IdsReused = FALSE the   *)
(* calls keep to the discipline under which that cannot happen: an ID is   *)
(* created once, and is used only after CreateVolume returned.             *)
(***************************************************************************)
EXTENDS Naturals, FiniteSets

CONSTANTS
  VolumeCalls,      \* concurrent callers
  VolumeOwners,     \* workload IDs
  IdsReused,        \* may an ID be used before, or created again after, its life?
  MaxVolumes,       \* bound: *Volume records allocated
  MaxVolumeLocks,   \* bound: locks allocated
  MaxVolumeRestarts \* bound: restarts in a behaviour

ASSUME VolumeAssumption ==
  /\ IdsReused \in BOOLEAN /\ VolumeOwners # {}
  /\ MaxVolumes \in Nat \ {0} /\ MaxVolumeLocks \in Nat \ {0} /\ MaxVolumeRestarts \in Nat

NoVolume == 0
NoLock == 0
NoOwner == "none"  \* the WorkloadID of an entry rebuilt from its directory

VARIABLES
  volume,         \* vm.volumes: the record of the ID, or NoVolume
  owner,          \* [1..MaxVolumes -> WorkloadID]
  mounted,        \* [1..MaxVolumes -> BOOLEAN]: State = VolumeStateMounted
  allocatedVolumes,
  directory,      \* does the volume's directory exist?
  volumeLock,     \* vm.volumeLock: the lock of the ID, or NoLock
  allocatedLocks,
  volumeCall,     \* [VolumeCalls -> what each caller is doing]
  volumeRestarts

volumeVars == <<volume, owner, mounted, allocatedVolumes, directory, volumeLock, allocatedLocks,
                volumeCall, volumeRestarts>>

VolumeIdle == [op |-> "none", pc |-> "none", caller |-> NoOwner, lock |-> NoLock, vol |-> NoVolume]
HoldersOf(l) == {u \in VolumeCalls : volumeCall[u].lock = l /\ volumeCall[u].pc \in {"check", "load", "act", "entry", "lock"}}
vm_muFree == \A t \in VolumeCalls : ~(volumeCall[t].op \in {"create", "delete"} /\ volumeCall[t].pc # "begin")
InUse == {t \in VolumeCalls : volumeCall[t].op # "none"}

VolumeInit ==
  /\ volume = NoVolume
  /\ owner = [v \in 1..MaxVolumes |-> NoOwner]
  /\ mounted = [v \in 1..MaxVolumes |-> FALSE]
  /\ allocatedVolumes = 0
  /\ directory = FALSE
  /\ volumeLock = NoLock /\ allocatedLocks = 0
  /\ volumeCall = [t \in VolumeCalls |-> VolumeIdle]
  /\ volumeRestarts = 0

ReturnFrom(t) == volumeCall' = [volumeCall EXCEPT ![t] = VolumeIdle]
GoTo(t, pc) == volumeCall' = [volumeCall EXCEPT ![t].pc = pc]

VolumeOps == {"create", "mount", "unmount", "touch", "delete", "snapshot"}

(* A call starts.  Resize and UpdateVolumeUsage are "touch": they change   *)
(* sizes, which nothing below depends on, and store the record back.       *)
BeginCall(t, op, w) ==
  /\ volumeCall[t].op = "none"
  /\ IdsReused \/ (IF op = "create" THEN allocatedVolumes = 0 /\ InUse = {} ELSE
                   allocatedVolumes > 0 /\ \A u \in InUse : volumeCall[u].op # "create")
  /\ volumeCall' = [volumeCall EXCEPT ![t] =
       [VolumeIdle EXCEPT !.op = op, !.pc = "begin", !.caller = w]]
  /\ UNCHANGED <<volume, owner, mounted, allocatedVolumes, directory, volumeLock, allocatedLocks, volumeRestarts>>

(* CreateVolume, under vm.mu: a known ID or a size that is not positive is *)
(* an error.                                                               *)
CreateDirectory(t, valid) ==
  /\ volumeCall[t].op = "create" /\ volumeCall[t].pc = "begin" /\ vm_muFree
  /\ IF volume = NoVolume /\ valid
     THEN directory' = TRUE /\ GoTo(t, "entry")
     ELSE ReturnFrom(t) /\ UNCHANGED directory
  /\ UNCHANGED <<volume, owner, mounted, allocatedVolumes, volumeLock, allocatedLocks, volumeRestarts>>

CreateVolume(t) ==
  /\ volumeCall[t].op = "create" /\ volumeCall[t].pc = "entry" /\ allocatedVolumes < MaxVolumes
  /\ allocatedVolumes' = allocatedVolumes + 1
  /\ owner' = [owner EXCEPT ![allocatedVolumes'] = volumeCall[t].caller]
  /\ mounted' = [mounted EXCEPT ![allocatedVolumes'] = FALSE]
  /\ volume' = allocatedVolumes'
  /\ GoTo(t, "lock")
  /\ UNCHANGED <<directory, volumeLock, allocatedLocks, volumeRestarts>>

CreateLock(t) ==
  /\ volumeCall[t].op = "create" /\ volumeCall[t].pc = "lock" /\ allocatedLocks < MaxVolumeLocks
  /\ allocatedLocks' = allocatedLocks + 1
  /\ volumeLock' = allocatedLocks'
  /\ ReturnFrom(t)
  /\ UNCHANGED <<volume, owner, mounted, allocatedVolumes, directory, volumeRestarts>>

-----------------------------------------------------------------------------
(* getVolumeLock: the lock of the map, or a new one that is stored in a    *)
(* step of its own.  DeleteVolume has vm.mu by then, and CreateSnapshot has*)
(* loaded the record.                                                      *)
GetVolumeLock(t) ==
  /\ volumeCall[t].op \notin {"none", "create"} /\ volumeCall[t].pc = "begin"
  /\ volumeCall[t].op = "delete" => vm_muFree
  /\ IF volumeCall[t].op = "snapshot" /\ volume = NoVolume
     THEN ReturnFrom(t)
     ELSE volumeCall' = [volumeCall EXCEPT ![t].lock = volumeLock, ![t].vol = volume,
                           ![t].pc = IF volumeLock = NoLock THEN "newlock" ELSE "wait"]
  /\ UNCHANGED <<volume, owner, mounted, allocatedVolumes, directory, volumeLock, allocatedLocks, volumeRestarts>>

StoreNewLock(t) ==
  /\ volumeCall[t].pc = "newlock" /\ allocatedLocks < MaxVolumeLocks
  /\ allocatedLocks' = allocatedLocks + 1
  /\ volumeLock' = allocatedLocks'
  /\ volumeCall' = [volumeCall EXCEPT ![t].lock = allocatedLocks', ![t].pc = "wait"]
  /\ UNCHANGED <<volume, owner, mounted, allocatedVolumes, directory, volumeRestarts>>

(* Mutant of LockVolume: the lock is not waited for.                       *)
LockVolumeNoWait(t) ==
  /\ volumeCall[t].pc = "wait"
  /\ GoTo(t, IF volumeCall[t].op = "snapshot" THEN "act" ELSE "check")
  /\ UNCHANGED <<volume, owner, mounted, allocatedVolumes, directory, volumeLock, allocatedLocks, volumeRestarts>>

(* CreateSnapshot reads under RLock, the others hold the lock alone.       *)
LockVolume(t) ==
  /\ volumeCall[t].pc = "wait"
  /\ \A u \in HoldersOf(volumeCall[t].lock) : {volumeCall[t].op, volumeCall[u].op} = {"snapshot"}
  /\ GoTo(t, IF volumeCall[t].op = "snapshot" THEN "act" ELSE "check")
  /\ UNCHANGED <<volume, owner, mounted, allocatedVolumes, directory, volumeLock, allocatedLocks, volumeRestarts>>

validateWorkloadAccess(t) ==
  /\ volumeCall[t].pc = "check"
  /\ IF volume # NoVolume /\ owner[volume] = volumeCall[t].caller THEN GoTo(t, "load") ELSE ReturnFrom(t)
  /\ UNCHANGED <<volume, owner, mounted, allocatedVolumes, directory, volumeLock, allocatedLocks, volumeRestarts>>

GetVolume(t) ==
  /\ volumeCall[t].pc = "load"
  /\ IF volume # NoVolume
     THEN volumeCall' = [volumeCall EXCEPT ![t].vol = volume, ![t].pc = "act"]
     ELSE ReturnFrom(t)
  /\ UNCHANGED <<volume, owner, mounted, allocatedVolumes, directory, volumeLock, allocatedLocks, volumeRestarts>>

-----------------------------------------------------------------------------
CallActs(t, op) == volumeCall[t].op = op /\ volumeCall[t].pc = "act"

(* A volume that is already mounted is returned without a store.           *)
MountVolume(t) ==
  /\ CallActs(t, "mount")
  /\ IF mounted[volumeCall[t].vol] THEN UNCHANGED <<volume, mounted>>
     ELSE mounted' = [mounted EXCEPT ![volumeCall[t].vol] = TRUE] /\ volume' = volumeCall[t].vol
  /\ ReturnFrom(t)
  /\ UNCHANGED <<owner, allocatedVolumes, directory, volumeLock, allocatedLocks, volumeRestarts>>

UnmountVolume(t) ==
  /\ CallActs(t, "unmount")
  /\ IF ~mounted[volumeCall[t].vol] THEN UNCHANGED <<volume, mounted>>
     ELSE mounted' = [mounted EXCEPT ![volumeCall[t].vol] = FALSE] /\ volume' = volumeCall[t].vol
  /\ ReturnFrom(t)
  /\ UNCHANGED <<owner, allocatedVolumes, directory, volumeLock, allocatedLocks, volumeRestarts>>

(* A size below the used space, or usage that cannot be read, is an error. *)
TouchVolume(t, accepted) ==
  /\ CallActs(t, "touch")
  /\ volume' = IF accepted THEN volumeCall[t].vol ELSE volume
  /\ ReturnFrom(t)
  /\ UNCHANGED <<owner, mounted, allocatedVolumes, directory, volumeLock, allocatedLocks, volumeRestarts>>

(* CreateSnapshot copies the directory, or fails when it is gone.          *)
CreateSnapshot(t) ==
  /\ CallActs(t, "snapshot")
  /\ ReturnFrom(t)
  /\ UNCHANGED <<volume, owner, mounted, allocatedVolumes, directory, volumeLock, allocatedLocks, volumeRestarts>>

(* DeleteVolume: a mounted volume is an error, as is a directory that      *)
(* RemoveAll cannot remove.                                                *)
DeleteVolume(t, removed) ==
  /\ CallActs(t, "delete")
  /\ IF mounted[volumeCall[t].vol] \/ ~removed
     THEN ReturnFrom(t) /\ UNCHANGED directory
     ELSE directory' = FALSE /\ GoTo(t, "entry")
  /\ UNCHANGED <<volume, owner, mounted, allocatedVolumes, volumeLock, allocatedLocks, volumeRestarts>>

DeleteEntry(t) ==
  /\ volumeCall[t].op = "delete" /\ volumeCall[t].pc = "entry"
  /\ volume' = NoVolume
  /\ GoTo(t, "lock")
  /\ UNCHANGED <<owner, mounted, allocatedVolumes, directory, volumeLock, allocatedLocks, volumeRestarts>>

DeleteLock(t) ==
  /\ volumeCall[t].op = "delete" /\ volumeCall[t].pc = "lock"
  /\ volumeLock' = NoLock
  /\ ReturnFrom(t)
  /\ UNCHANGED <<volume, owner, mounted, allocatedVolumes, directory, allocatedLocks, volumeRestarts>>

-----------------------------------------------------------------------------
(* The process stops between any two steps, and loadVolumes makes an entry *)
(* for the directory it finds: not mounted, and of no workload.            *)
RestartVolumes ==
  /\ volumeRestarts < MaxVolumeRestarts
  /\ directory => allocatedVolumes < MaxVolumes /\ allocatedLocks < MaxVolumeLocks
  /\ volumeRestarts' = volumeRestarts + 1
  /\ volumeCall' = [t \in VolumeCalls |-> VolumeIdle]
  /\ IF directory
     THEN /\ allocatedVolumes' = allocatedVolumes + 1 /\ allocatedLocks' = allocatedLocks + 1
          /\ volume' = allocatedVolumes' /\ volumeLock' = allocatedLocks'
     ELSE /\ volume' = NoVolume /\ volumeLock' = NoLock
          /\ UNCHANGED <<allocatedVolumes, allocatedLocks>>
  /\ UNCHANGED <<owner, mounted, directory>>

VolumeStep(t) ==
  \/ \E op \in VolumeOps, w \in VolumeOwners : BeginCall(t, op, w)
  \/ \E valid \in BOOLEAN : CreateDirectory(t, valid)
  \/ CreateVolume(t) \/ CreateLock(t)
  \/ GetVolumeLock(t) \/ StoreNewLock(t) \/ LockVolume(t)
  \/ validateWorkloadAccess(t) \/ GetVolume(t)
  \/ MountVolume(t) \/ UnmountVolume(t) \/ CreateSnapshot(t)
  \/ \E accepted \in BOOLEAN : TouchVolume(t, accepted)
  \/ \E removed \in BOOLEAN : DeleteVolume(t, removed)
  \/ DeleteEntry(t) \/ DeleteLock(t)

VolumeNext == RestartVolumes \/ \E t \in VolumeCalls : VolumeStep(t)

VolumeSpec == VolumeInit /\ [][VolumeNext]_volumeVars

-----------------------------------------------------------------------------
(* A mounted volume has its directory, and outside the calls that create   *)
(* or delete them the entry and the directory exist together: however the  *)
(* calls interleave, DeleteVolume, MountVolume and the calls that store a  *)
(* record back leave no mounted volume whose files are gone, no directory  *)
(* without an entry and no entry without a directory.                      *)
EntryMatchesDirectory ==
  /\ volume # NoVolume /\ mounted[volume] => directory
  /\ (\A t \in VolumeCalls : volumeCall[t].pc \notin {"entry", "lock"}) => ((volume # NoVolume) <=> directory)
=============================================================================
