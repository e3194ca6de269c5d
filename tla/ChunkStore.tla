----------------------------- MODULE ChunkStore -----------------------------
(***************************************************************************)
(* The content-addressed chunk store of a storage node                     *)
(* (pkg/storage/chunk.go): a sync.Map from chunk IDs to *Chunk records, one*)
(* file per chunk, concurrent WriteChunk, WriteChunkStream, DeleteChunk and*)
(* GarbageCollect calls, and the restart that rebuilds the map from the    *)
(* files.                                                                  *)
(*                                                                         *)
(* Writers take no lock and deleters look the record up before they take   *)
(* cs.mu, so a record is an object that a call may still change after the  *)
(* map has dropped it.  The chunk ID is the hash of the content, so a file *)
(* is absent, torn (its writer has not finished), or has the content, as is*)
(* or compressed.                                                          *)
(***************************************************************************)
EXTENDS Integers, FiniteSets

CONSTANTS
  ChunkCalls,       \* concurrent callers of the chunk store
  Chunks,           \* chunk IDs
  Compressible,     \* the chunks that EnableCompression makes smaller
  MaxChunkRecords,  \* bound: *Chunk records allocated between two restarts
  MaxHolders,       \* bound: content references to one chunk
  MaxChunkRestarts  \* bound: restarts in a behaviour

ASSUME ChunkAssumption ==
  /\ IsFiniteSet(ChunkCalls) /\ IsFiniteSet(Chunks) /\ Chunks # {} /\ Compressible \subseteq Chunks
  /\ Cardinality(Chunks) <= MaxChunkRecords
  /\ MaxChunkRecords \in Nat \ {0} /\ MaxHolders \in Nat \ {0} /\ MaxChunkRestarts \in Nat

NoRecord == 0
LowestCount == 0  \* bound: a record below it is not collected again
ChunkRecords == 1..MaxChunkRecords
Files == {"none", "torn", "plain", "gzip"}

VARIABLES
  record,         \* cs.chunks: [Chunks -> ChunkRecords or NoRecord]
  refCount,       \* [ChunkRecords -> Int]: Chunk.RefCount
  compressed,     \* [ChunkRecords -> BOOLEAN]: Chunk.Compressed
  allocatedChunks,
  file,           \* [Chunks -> Files]: the chunk's file
  call,           \* [ChunkCalls -> what each caller is doing]
  holders,        \* [Chunks -> Nat]: content references that have been acknowledged
  suspect,        \* history: the chunks that met one of the events listed at Suspect
  chunkRestarts

chunkVars == <<record, refCount, compressed, allocatedChunks, file, call, holders, suspect, chunkRestarts>>

NoCall == [op |-> "none", pc |-> "none", chunk |-> CHOOSE c \in Chunks : TRUE, rec |-> NoRecord, count |-> 0]
CallsOn(c) == {t \in ChunkCalls : call[t].op # "none" /\ call[t].chunk = c}
cs_muFree == \A t \in ChunkCalls : call[t].pc \notin {"store", "unlink", "drop"}
CallAt(t, op, pc) == call[t].op = op /\ call[t].pc = pc

ChunkInit ==
  /\ record = [c \in Chunks |-> NoRecord]
  /\ refCount = [r \in ChunkRecords |-> 0]
  /\ compressed = [r \in ChunkRecords |-> FALSE]
  /\ allocatedChunks = 0
  /\ file = [c \in Chunks |-> "none"]
  /\ call = [t \in ChunkCalls |-> NoCall]
  /\ holders = [c \in Chunks |-> 0]
  /\ suspect = {}
  /\ chunkRestarts = 0

(* ReadChunk: the record and the file exist, and the content that the      *)
(* record's flag makes of the file has the chunk's hash.                   *)
ReadChunk(c) ==
  /\ record[c] # NoRecord
  /\ file[c] = IF compressed[record[c]] THEN "gzip" ELSE "plain"

-----------------------------------------------------------------------------
(* A call on the chunk begins while a writer of it is at work, or is one.  *)
NoteOverlap(t, c, op) ==
  suspect' = suspect \cup
    (IF \E u \in CallsOn(c) \ {t} : {op, call[u].op} \cap {"write", "stream"} # {} THEN {c} ELSE {})

(* WriteChunk and WriteChunkStream: GetChunk decides between counting one  *)
(* more reference and writing a file.                                      *)
WriteChunkLookup(t, c, op) ==
  /\ call[t].op = "none" /\ holders[c] + Cardinality(CallsOn(c)) < MaxHolders
  /\ call' = [call EXCEPT ![t] =
       [op |-> op, pc |-> IF record[c] # NoRecord THEN "read" ELSE "open",
        chunk |-> c, rec |-> record[c], count |-> 0]]
  /\ NoteOverlap(t, c, op)
  /\ UNCHANGED <<record, refCount, compressed, allocatedChunks, file, holders, chunkRestarts>>

(* chunk.RefCount++, with no lock: a read and a write.                     *)
DedupRead(t) ==
  /\ call[t].pc = "read" /\ call[t].op \in {"write", "stream"}
  /\ call' = [call EXCEPT ![t].pc = "count", ![t].count = refCount[call[t].rec]]
  /\ UNCHANGED <<record, refCount, compressed, allocatedChunks, file, holders, suspect, chunkRestarts>>

(* Mutant of DedupStore: the second reference is not counted.              *)
DedupStoreUncounted(t) ==
  /\ call[t].pc = "count"
  /\ record' = [record EXCEPT ![call[t].chunk] = call[t].rec]
  /\ holders' = [holders EXCEPT ![call[t].chunk] = @ + 1]
  /\ call' = [call EXCEPT ![t] = NoCall]
  /\ UNCHANGED <<refCount, compressed, allocatedChunks, file, suspect, chunkRestarts>>

(* cs.chunks.Store puts the record back, whatever the map holds by then.   *)
DedupStore(t) ==
  /\ call[t].pc = "count"
  /\ refCount' = [refCount EXCEPT ![call[t].rec] = call[t].count + 1]
  /\ record' = [record EXCEPT ![call[t].chunk] = call[t].rec]
  /\ holders' = [holders EXCEPT ![call[t].chunk] = @ + 1]
  /\ call' = [call EXCEPT ![t] = NoCall]
  /\ UNCHANGED <<compressed, allocatedChunks, file, suspect, chunkRestarts>>

(* os.WriteFile truncates the file before it has the content; the temporary*)
(* file of a stream is renamed in one step.  Either may fail: the call     *)
(* returns an error, and a torn file stays.                                *)
OpenFile(t, ok) ==
  /\ call[t].pc = "open"
  /\ file' = IF call[t].op = "write" THEN [file EXCEPT ![call[t].chunk] = "torn"] ELSE file
  /\ call' = [call EXCEPT ![t] = IF ok THEN [@ EXCEPT !.pc = "fill"] ELSE NoCall]
  /\ suspect' = suspect \cup (IF ~ok /\ call[t].op = "write" THEN {call[t].chunk} ELSE {})
  /\ UNCHANGED <<record, refCount, compressed, allocatedChunks, holders, chunkRestarts>>

Encoding(op, c) == IF op = "write" /\ c \in Compressible THEN "gzip" ELSE "plain"

FillFile(t) ==
  /\ call[t].pc = "fill"
  /\ file' = [file EXCEPT ![call[t].chunk] = Encoding(call[t].op, call[t].chunk)]
  /\ call' = [call EXCEPT ![t].pc = "insert"]
  /\ UNCHANGED <<record, refCount, compressed, allocatedChunks, holders, suspect, chunkRestarts>>

InsertRecord(t) ==
  /\ call[t].pc = "insert" /\ allocatedChunks < MaxChunkRecords
  /\ allocatedChunks' = allocatedChunks + 1
  /\ refCount' = [refCount EXCEPT ![allocatedChunks'] = 1]
  /\ compressed' = [compressed EXCEPT ![allocatedChunks'] = (Encoding(call[t].op, call[t].chunk) = "gzip")]
  /\ record' = [record EXCEPT ![call[t].chunk] = allocatedChunks']
  /\ holders' = [holders EXCEPT ![call[t].chunk] = @ + 1]
  /\ call' = [call EXCEPT ![t] = NoCall]
  /\ UNCHANGED <<file, suspect, chunkRestarts>>

-----------------------------------------------------------------------------
(* DeleteChunk on behalf of a content that gives up its reference.  A chunk*)
(* that the map does not have is an error.                                 *)
DeleteChunkLookup(t, c) ==
  /\ call[t].op = "none" /\ holders[c] > 0
  /\ holders' = [holders EXCEPT ![c] = @ - 1]
  /\ call' = [call EXCEPT ![t] = IF record[c] = NoRecord THEN NoCall ELSE
       [op |-> "delete", pc |-> "read", chunk |-> c, rec |-> record[c], count |-> 0]]
  /\ NoteOverlap(t, c, "delete")
  /\ UNCHANGED <<record, refCount, compressed, allocatedChunks, file, chunkRestarts>>

(* GarbageCollect lists the records without references, then calls         *)
(* DeleteChunk for each of them.                                           *)
GarbageCollect(t, c) ==
  /\ call[t].op = "none"
  /\ record[c] # NoRecord /\ refCount[record[c]] \in LowestCount..0
  /\ call' = [call EXCEPT ![t] =
       [op |-> "gc", pc |-> "lookup", chunk |-> c, rec |-> NoRecord, count |-> 0]]
  /\ NoteOverlap(t, c, "delete")
  /\ UNCHANGED <<record, refCount, compressed, allocatedChunks, file, holders, chunkRestarts>>

CollectChunk(t) ==
  /\ CallAt(t, "gc", "lookup")
  /\ call' = [call EXCEPT ![t] = IF record[call[t].chunk] = NoRecord THEN NoCall
                                 ELSE [@ EXCEPT !.pc = "read", !.rec = record[call[t].chunk]]]
  /\ UNCHANGED <<record, refCount, compressed, allocatedChunks, file, holders, suspect, chunkRestarts>>

(* cs.mu.Lock; chunk.RefCount-- reads the count ...                        *)
LockChunk(t) ==
  /\ call[t].op \in {"delete", "gc"} /\ call[t].pc = "read" /\ cs_muFree
  /\ call' = [call EXCEPT ![t].pc = "store", ![t].count = refCount[call[t].rec]]
  /\ UNCHANGED <<record, refCount, compressed, allocatedChunks, file, holders, suspect, chunkRestarts>>

(* ... and writes it back; a chunk with references left is stored again.   *)
CountDown(t) ==
  /\ call[t].pc = "store"
  /\ refCount' = [refCount EXCEPT ![call[t].rec] = call[t].count - 1]
  /\ IF call[t].count - 1 <= 0
       THEN /\ call' = [call EXCEPT ![t].pc = "unlink"]
            /\ record' = record
       ELSE /\ record' = [record EXCEPT ![call[t].chunk] = call[t].rec]
            /\ call' = [call EXCEPT ![t] = NoCall]
  /\ UNCHANGED <<compressed, allocatedChunks, file, holders, suspect, chunkRestarts>>

(* os.Remove; an error leaves the record, with its lower count, in the map.*)
(* The collector's failure takes the count below zero.                     *)
Unlink(t, ok) ==
  /\ call[t].pc = "unlink"
  /\ file' = IF ok THEN [file EXCEPT ![call[t].chunk] = "none"] ELSE file
  /\ call' = [call EXCEPT ![t] = IF ok THEN [@ EXCEPT !.pc = "drop"] ELSE NoCall]
  /\ suspect' = IF ~ok /\ call[t].op = "gc" THEN suspect \cup {call[t].chunk} ELSE suspect
  /\ UNCHANGED <<record, refCount, compressed, allocatedChunks, holders, chunkRestarts>>

DropRecord(t) ==
  /\ call[t].pc = "drop"
  /\ record' = [record EXCEPT ![call[t].chunk] = NoRecord]
  /\ call' = [call EXCEPT ![t] = NoCall]
  /\ UNCHANGED <<refCount, compressed, allocatedChunks, file, holders, suspect, chunkRestarts>>

-----------------------------------------------------------------------------
(* The events after which the count or the content of a chunk may be wrong:*)
(* a write overlapped another call on the chunk; a write of its file failed*)
(* half way; the collector could not remove its file; the process ended    *)
(* during a call on it; or a restart read back a file that is compressed or*)
(* that several contents, or none, refer to.                               *)
Suspect(c) ==
  \/ CallsOn(c) # {}
  \/ file[c] = "gzip"
  \/ file[c] # "none" /\ holders[c] # 1

loadedRecord == CHOOSE f \in [Chunks -> 1..Cardinality(Chunks)] : \A c, d \in Chunks : f[c] = f[d] => c = d

(* NewChunkStore, after the process has ended at any point: loadChunks     *)
(* makes a record with one reference, not compressed, for every file.      *)
RestartStore ==
  /\ chunkRestarts < MaxChunkRestarts
  /\ record' = [c \in Chunks |-> IF file[c] = "none" THEN NoRecord ELSE loadedRecord[c]]
  /\ refCount' = [r \in ChunkRecords |-> IF \E c \in Chunks : record'[c] = r THEN 1 ELSE 0]
  /\ compressed' = [r \in ChunkRecords |-> FALSE]
  /\ allocatedChunks' = Cardinality(Chunks)
  /\ call' = [t \in ChunkCalls |-> NoCall]
  /\ suspect' = suspect \cup {c \in Chunks : Suspect(c)}
  /\ chunkRestarts' = chunkRestarts + 1
  /\ UNCHANGED <<file, holders>>

WriteStep(t) ==
  \/ \E c \in Chunks, op \in {"write", "stream"} : WriteChunkLookup(t, c, op)
  \/ DedupRead(t) \/ DedupStore(t)
  \/ \E ok \in BOOLEAN : OpenFile(t, ok)
  \/ FillFile(t) \/ InsertRecord(t)

DeleteStep(t) ==
  \/ \E c \in Chunks : DeleteChunkLookup(t, c) \/ GarbageCollect(t, c)
  \/ CollectChunk(t) \/ LockChunk(t) \/ CountDown(t) \/ DropRecord(t)
  \/ \E ok \in BOOLEAN : Unlink(t, ok)

ChunkNext == RestartStore \/ \E t \in ChunkCalls : WriteStep(t) \/ DeleteStep(t)

ChunkSpec == ChunkInit /\ [][ChunkNext]_chunkVars

-----------------------------------------------------------------------------
(* A chunk that contents refer to can be read, and its count is the number *)
(* of those contents.  A chunk that no content refers to is gone from the  *)
(* map and the disk, or has no reference left and waits for the next       *)
(* GarbageCollect after a failed removal of its file.  Only the events     *)
(* listed at Suspect end this: deduplication, deletion and collection lose *)
(* no chunk and leak no space in any other way.                            *)
ChunksAccounted ==
  \A c \in Chunks \ suspect :
    CallsOn(c) = {} =>
      IF holders[c] > 0 THEN ReadChunk(c) /\ refCount[record[c]] = holders[c]
      ELSE IF record[c] = NoRecord THEN file[c] = "none" ELSE refCount[record[c]] <= 0
=============================================================================
