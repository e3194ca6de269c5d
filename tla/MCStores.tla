------------------------------ MODULE MCStores ------------------------------
(***************************************************************************)
(* Small instances of the four stores of a node that concurrent calls      *)
(* change: its containers, its chunks, the objects made of them, and its   *)
(* volumes.  They share no variable here; a behaviour has one of them in   *)
(* focus and leaves the others as they started.                            *)
(***************************************************************************)
EXTENDS AgentWorkloads, ChunkStore, ObjectStore, Volumes

CONSTANTS c1, b1, b2

SmallContents == {<<b1>>, <<b1, b2>>}

Symmetry == Permutations(StoreCalls)

VARIABLE focus  \* what the behaviour runs

MCInit ==
  /\ focus \in {"containers", "chunks", "objects", "uploads", "volumes"}
  /\ Init /\ ChunkInit /\ StoreInit /\ VolumeInit

(* The first container comes and goes, the second stays once it is there.  *)
Supervising ==
  /\ focus = "containers" /\ Next
  /\ \A w \in Workers : worker'[w].op = "stop" => worker'[w].c = c1

(* A behaviour ends when each chunk has met one of the events after which  *)
(* nothing is claimed of it.                                               *)
Chunking == focus = "chunks" /\ suspect # Chunks /\ ChunkNext

(* Objects without uploads; or uploads beside plain puts, reads and        *)
(* deletes.  A behaviour ends when a call has used what another has        *)
(* replaced, after which nothing is claimed.                               *)
Storing ==
  /\ ~staleUse /\ StoreNext
  /\ \/ focus = "objects" /\ ~upload'.open
     \/ /\ focus = "uploads"
        /\ \A t \in StoreCalls :
             storeCall'[t].op \notin {"cold", "encode", "get"} /\ storeCall'[t].pc # "size" /\ Len(storeCall'[t].content) < 2
        /\ Len(freeing') < 2

MCNext ==
  /\ \/ Supervising /\ UNCHANGED <<chunkVars, storeVars, volumeVars>>
     \/ Chunking /\ UNCHANGED <<vars, storeVars, volumeVars>>
     \/ Storing /\ UNCHANGED <<vars, chunkVars, volumeVars>>
     \/ focus = "volumes" /\ VolumeNext /\ UNCHANGED <<vars, chunkVars, storeVars>>
  /\ focus' = focus

MCSpec == MCInit /\ [][MCNext]_<<focus, vars, chunkVars, storeVars, volumeVars>>
=============================================================================
