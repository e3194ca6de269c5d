-------------------------- MODULE ChunkStoreProofs --------------------------
(***************************************************************************)
(* The accounts of the chunk store: the inductive invariant behind         *)
(* ChunksAccounted, what its parts say of a chunk, that the steps of the   *)
(* writes, of the deletions, of the collector and of a restart keep it,    *)
(* and the theorem.                                                        *)
(***************************************************************************)
EXTENDS ChunkStore, TLAPS

Writes == {"write", "stream"}
Critical == {"store", "unlink", "drop"}
ChunkPCs == {"none", "read", "count", "open", "fill", "insert", "lookup"} \cup Critical
CallStates ==
  [op : Writes \cup {"none", "delete", "gc"}, pc : ChunkPCs, chunk : Chunks, rec : Nat, count : Int]

(* Which steps belong to which call, and which of them have a record.      *)
CallShape(q) ==
  /\ q.op = "none" => q.pc = "none"
  /\ q.op \in Writes => q.pc \in {"read", "count", "open", "fill", "insert"}
  /\ q.op = "delete" => q.pc \in {"read"} \cup Critical
  /\ q.op = "gc" => q.pc \in {"lookup", "read"} \cup Critical
  /\ q.rec # NoRecord <=> q.pc \in {"read", "count"} \cup Critical

ChunkType ==
  /\ allocatedChunks \in Nat /\ allocatedChunks <= MaxChunkRecords
  /\ record \in [Chunks -> Nat] /\ \A c \in Chunks : record[c] <= allocatedChunks
  /\ refCount \in [ChunkRecords -> Int] /\ compressed \in [ChunkRecords -> BOOLEAN]
  /\ file \in [Chunks -> Files] /\ holders \in [Chunks -> Nat]
  /\ call \in [ChunkCalls -> CallStates]
  /\ \A t \in ChunkCalls : CallShape(call[t]) /\ call[t].rec <= allocatedChunks

(* A record belongs to one chunk, in the map and in the calls.             *)
Owned ==
  /\ \A c, d \in Chunks : record[c] # NoRecord /\ record[c] = record[d] => c = d
  /\ \A t \in ChunkCalls : call[t].rec # NoRecord =>
       /\ \A c \in Chunks : record[c] = call[t].rec => call[t].chunk = c
       /\ \A u \in ChunkCalls : call[u].rec = call[t].rec => call[u].chunk = call[t].chunk

(* One call holds cs.mu.                                                   *)
OneLocked == \A t, u \in ChunkCalls : call[t].pc \in Critical /\ call[u].pc \in Critical => t = u

(* What the accounting needs of Cardinality and of the records that        *)
(* loadChunks makes.  Both are shown at the end of the module, from the    *)
(* library's theorems on finite sets, which the proofs before do without.  *)
Counting ==
  \A S \in SUBSET ChunkCalls :
    /\ Cardinality(S) \in Nat /\ (S = {} <=> Cardinality(S) = 0)
    /\ \A t \in ChunkCalls \ S : Cardinality(S \cup {t}) = Cardinality(S) + 1
Loading ==
  /\ loadedRecord \in [Chunks -> 1..Cardinality(Chunks)]
  /\ \A c, d \in Chunks : loadedRecord[c] = loadedRecord[d] => c = d
  /\ Cardinality(Chunks) \in Nat

On(t, c) == call[t].op # "none" /\ call[t].chunk = c

(* The deletions that have not yet counted down, and the references that   *)
(* the count still has to show.                                            *)
Owing(c) == {t \in ChunkCalls : On(t, c) /\ call[t].op = "delete" /\ call[t].pc \in {"read", "store"}}
Owed(c) == holders[c] + Cardinality(Owing(c))

Alone(c) == \A t, u \in ChunkCalls : On(t, c) /\ On(u, c) /\ call[t].op \in Writes => t = u

(* A writer of the chunk found its record, or writes its first file.       *)
WriterAt(t, c) ==
  IF call[t].pc \in {"read", "count"}
  THEN /\ record[c] = call[t].rec /\ ReadChunk(c) /\ refCount[record[c]] = holders[c]
       /\ call[t].pc = "count" => call[t].count = refCount[record[c]]
  ELSE /\ record[c] = NoRecord /\ holders[c] = 0
       /\ call[t].pc = "open" => file[c] = "none"
       /\ call[t].pc = "fill" => file[c] = IF call[t].op = "write" THEN "torn" ELSE "none"
       /\ call[t].pc = "insert" => file[c] = Encoding(call[t].op, c)

(* References are left: the only calls are deletions that will count down. *)
Held(c) ==
  /\ ReadChunk(c) /\ refCount[record[c]] = Owed(c)
  /\ \A t \in ChunkCalls : On(t, c) =>
       /\ t \in Owing(c) /\ call[t].rec = record[c]
       /\ call[t].pc = "store" => call[t].count = refCount[record[c]]

(* A call on a chunk without references: its record is the one in the map, *)
(* or the map has dropped it.                                              *)
Spent(t, c) ==
  /\ call[t].pc = "drop" => file[c] = "none"
  /\ call[t].rec # NoRecord => record[c] \in {NoRecord, call[t].rec} /\ refCount[call[t].rec] <= 0
  /\ call[t].pc = "store" => call[t].count = refCount[call[t].rec]

(* No reference is left: the file and the record go, the file first.       *)
Given(c) ==
  /\ record[c] = NoRecord => file[c] = "none"
  /\ record[c] # NoRecord =>
       /\ refCount[record[c]] <= 0
       /\ (\A t \in ChunkCalls : On(t, c) => call[t].pc # "drop") => ReadChunk(c)
       /\ (\A t \in ChunkCalls : On(t, c) /\ call[t].op = "gc" => call[t].pc \notin {"unlink", "drop"}) =>
            refCount[record[c]] = 0
  /\ \A t \in ChunkCalls : On(t, c) => Spent(t, c)

Unwritten(c) == \A t \in ChunkCalls : On(t, c) => call[t].op \notin Writes

Accounted(c) ==
  /\ Alone(c)
  /\ \A t \in ChunkCalls : On(t, c) /\ call[t].op \in Writes => WriterAt(t, c)
  /\ Unwritten(c) => (Owed(c) > 0 => Held(c)) /\ (Owed(c) = 0 => Given(c))

ChunkInv == ChunkType /\ Owned /\ OneLocked /\ \A c \in Chunks \ suspect : Accounted(c)

-----------------------------------------------------------------------------
(* The state of a call that is not under way.                              *)
LEMMA IdleCall ==
  /\ NoCall \in CallStates /\ CallShape(NoCall) /\ NoCall.op = "none" /\ NoCall.pc = "none"
  /\ NoCall.rec = NoRecord
<1>1. (CHOOSE c \in Chunks : TRUE) \in Chunks
  BY Zenon, ChunkAssumption
<1> QED
  BY <1>1 DEF NoCall, CallStates, CallShape, ChunkPCs, Critical, Writes, NoRecord

(* The records of the map and of the calls are allocated.                  *)
LEMMA RecordsInRange ==
  ASSUME ChunkType
  PROVE  /\ \A c \in Chunks : record[c] # NoRecord => record[c] \in ChunkRecords /\ record[c] <= allocatedChunks
         /\ \A t \in ChunkCalls : call[t].rec # NoRecord =>
              call[t].rec \in ChunkRecords /\ call[t].rec <= allocatedChunks
<1>1. MaxChunkRecords \in Nat
  BY Zenon, ChunkAssumption
<1>2. allocatedChunks \in Nat /\ allocatedChunks <= MaxChunkRecords
  BY Zenon DEF ChunkType
<1>3. ASSUME NEW r \in Nat, r <= allocatedChunks, r # NoRecord PROVE r \in ChunkRecords
  BY <1>1, <1>2, <1>3 DEF ChunkRecords, NoRecord
<1>4. \A c \in Chunks : record[c] \in Nat /\ record[c] <= allocatedChunks
  BY Zenon DEF ChunkType
<1>5. \A t \in ChunkCalls : call[t].rec \in Nat /\ call[t].rec <= allocatedChunks
  BY Zenon DEF ChunkType, CallStates
<1> QED
  BY Zenon, <1>3, <1>4, <1>5

(* The deletions that owe a count of a chunk can be counted.               *)
LEMMA OwingCounted ==
  ASSUME Counting, NEW c
  PROVE  Cardinality(Owing(c)) \in Nat /\ (Owing(c) = {} <=> Cardinality(Owing(c)) = 0)
<1>1. Owing(c) \in SUBSET ChunkCalls
  BY Zenon DEF Owing
<1> QED
  BY Zenon, <1>1 DEF Counting

(* No call, no count.                                                      *)
LEMMA NoneOwing ==
  ASSUME Counting PROVE Cardinality({}) = 0
<1>1. {} \in SUBSET ChunkCalls
  BY Zenon
<1> QED
  BY Zenon, <1>1 DEF Counting

(* The invariant holds in an empty store.                                  *)
LEMMA ChunkInitInv ==
  ASSUME Counting, ChunkInit
  PROVE  ChunkInv
<1> USE IdleCall
<1>1. ChunkType
  BY ChunkAssumption DEF ChunkInit, ChunkType, Files, NoRecord
<1>2. Owned /\ OneLocked
  BY Zenon DEF ChunkInit, Owned, OneLocked, Critical, NoRecord
<1>3. ASSUME NEW c \in Chunks PROVE Accounted(c)
  <2>1. \A t \in ChunkCalls : ~On(t, c)
    BY Zenon DEF ChunkInit, On
  <2>2. Owing(c) = {}
    BY Zenon, <2>1 DEF Owing
  <2>3. Owed(c) = 0
    BY <2>2, NoneOwing DEF Owed, ChunkInit
  <2>4. Given(c)
    BY Zenon, <2>1 DEF Given, ChunkInit
  <2> QED
    BY <2>1, <2>3, <2>4 DEF Accounted, Alone
<1> QED
  BY Zenon, <1>1, <1>2, <1>3 DEF ChunkInv

-----------------------------------------------------------------------------
(* A step of a call on a chunk: what it leaves of the other chunks.        *)
StepOn(t, x) ==
  /\ \A u \in ChunkCalls \ {t} : call'[u] = call[u]
  /\ call[t].op # "none" => call[t].chunk = x
  /\ call'[t].op # "none" => call'[t].chunk = x
  /\ \A c \in Chunks \ {x} : record'[c] = record[c] /\ file'[c] = file[c] /\ holders'[c] = holders[c]
  /\ suspect \subseteq suspect'
  /\ allocatedChunks <= allocatedChunks'
  /\ \A r \in ChunkRecords : r <= allocatedChunks /\ r # call[t].rec =>
       refCount'[r] = refCount[r] /\ compressed'[r] = compressed[r]
  /\ record'[x] \in {record[x], NoRecord, call[t].rec} \/ (record'[x] > allocatedChunks /\ call'[t].rec = NoRecord)
  /\ call'[t].rec \in {NoRecord, call[t].rec, record[x]}

(* What is said of a chunk depends on its own calls and records.           *)
LEMMA OtherChunk ==
  ASSUME Counting, ChunkInv, ChunkType', NEW t \in ChunkCalls, NEW x \in Chunks, StepOn(t, x),
         NEW c \in Chunks, c # x, c \notin suspect'
  PROVE  Accounted(c)'
<1>0. ChunkType /\ Owned /\ Accounted(c) /\ c \notin suspect
  BY Zenon DEF ChunkInv, StepOn
<1>1. ~On(t, c) /\ ~On(t, c)' /\ (call[t].rec # NoRecord => call[t].chunk = x)
  <2>1. call[t].rec # NoRecord => call[t].chunk = x
    BY Zenon, <1>0 DEF ChunkType, CallShape, StepOn, Writes, Critical, CallStates
  <2> QED
    BY Zenon, <2>1 DEF On, StepOn
<1>2. \A u \in ChunkCalls : (On(u, c)' <=> On(u, c)) /\ (On(u, c) => call'[u] = call[u])
  BY Zenon, <1>1 DEF On, StepOn
<1>3. record'[c] = record[c] /\ file'[c] = file[c] /\ holders'[c] = holders[c]
  BY Zenon DEF StepOn
<1>4. record[c] # NoRecord => refCount'[record[c]] = refCount[record[c]] /\ compressed'[record[c]] = compressed[record[c]]
  <2>1. SUFFICES ASSUME record[c] # NoRecord
                 PROVE  record[c] \in ChunkRecords /\ record[c] <= allocatedChunks /\ record[c] # call[t].rec
    BY Zenon DEF StepOn
  <2>2. record[c] \in ChunkRecords /\ record[c] <= allocatedChunks
    BY Zenon, <1>0, <2>1, RecordsInRange
  <2>3. record[c] # call[t].rec
    BY Zenon, <1>0, <1>1, <2>1 DEF Owned
  <2> QED
    BY Zenon, <2>2, <2>3
<1>5. ASSUME NEW u \in ChunkCalls, On(u, c), call[u].rec # NoRecord
      PROVE  refCount'[call[u].rec] = refCount[call[u].rec]
  <2>1. call[u].rec \in ChunkRecords /\ call[u].rec <= allocatedChunks
    BY Zenon, <1>0, <1>5, RecordsInRange
  <2>2. call[u].rec # call[t].rec
    BY Zenon, <1>0, <1>1, <1>5 DEF Owned, On
  <2> QED
    BY Zenon, <2>1, <2>2 DEF StepOn
<1>6. Owing(c)' = Owing(c)
  BY Zenon, <1>2 DEF Owing
<1>7. Owed(c)' = Owed(c) /\ (Unwritten(c)' <=> Unwritten(c)) /\ Alone(c)'
  BY Zenon, <1>0, <1>2, <1>3, <1>6 DEF Owed, Unwritten, Alone, Accounted
<1>8. ReadChunk(c)' <=> ReadChunk(c)
  BY Zenon, <1>3, <1>4 DEF ReadChunk
<1>9. ASSUME NEW u \in ChunkCalls, On(u, c)', call'[u].op \in Writes PROVE WriterAt(u, c)'
  <2>1. WriterAt(u, c) /\ call'[u] = call[u]
    BY Zenon, <1>0, <1>2, <1>9 DEF Accounted
  <2> QED
    BY Zenon, <1>3, <1>4, <1>8, <2>1 DEF WriterAt, ReadChunk
<1>10. Held(c) => Held(c)'
  BY Zenon, <1>2, <1>3, <1>4, <1>6, <1>7, <1>8 DEF Held, ReadChunk
<1>11. Given(c) => Given(c)'
  BY <1>0, <1>2, <1>3, <1>4, <1>5, <1>8 DEF Given, Spent, ChunkType, CallShape, Critical
<1> QED
  BY Zenon, <1>0, <1>7, <1>9, <1>10, <1>11 DEF Accounted

(* A step on one chunk gives no record to a second chunk.                  *)
LEMMA OwnedKept ==
  ASSUME Counting, ChunkInv, ChunkType', NEW t \in ChunkCalls, NEW x \in Chunks, StepOn(t, x)
  PROVE  Owned'
<1>0. ChunkType /\ Owned
  BY Zenon DEF ChunkInv
<1>1. call[t].rec # NoRecord => call[t].chunk = x
  BY Zenon, <1>0 DEF ChunkType, CallShape, StepOn, Writes, Critical, CallStates
<1>2. call'[t].rec # NoRecord => call'[t].chunk = x
  BY Zenon DEF ChunkType, CallShape, StepOn, Writes, Critical, CallStates
<1>3. \A c, d \in Chunks : record'[c] # NoRecord /\ record'[c] = record'[d] => c = d
  BY <1>0, <1>1 DEF StepOn, Owned, ChunkType
<1>4. ASSUME NEW u \in ChunkCalls, call'[u].rec # NoRecord, NEW c \in Chunks, record'[c] = call'[u].rec
      PROVE  call'[u].chunk = c
  BY <1>0, <1>1, <1>2, <1>4 DEF StepOn, Owned, ChunkType
<1>5. ASSUME NEW u \in ChunkCalls, call'[u].rec # NoRecord, NEW v \in ChunkCalls, call'[v].rec = call'[u].rec
      PROVE  call'[v].chunk = call'[u].chunk
  BY SMTT(30), <1>0, <1>1, <1>2, <1>5 DEF StepOn, Owned, ChunkType
<1> QED
  BY Zenon, <1>3, <1>4, <1>5 DEF Owned
(* What a step of a call has to show.                                      *)
LEMMA Combined ==
  ASSUME Counting, ChunkInv, ChunkType', NEW t \in ChunkCalls, NEW x \in Chunks, StepOn(t, x), OneLocked',
         x \notin suspect' => Accounted(x)'
  PROVE  ChunkInv'
<1>1. Owned'
  BY Zenon, OwnedKept
<1>2. \A c \in Chunks : c \notin suspect' => Accounted(c)'
  BY Zenon, OtherChunk
<1> QED
  BY Zenon, <1>1, <1>2 DEF ChunkInv

-----------------------------------------------------------------------------
(* A chunk without calls: its count shows its references.                  *)
AtRest(c) ==
  /\ holders[c] > 0 => ReadChunk(c) /\ refCount[record[c]] = holders[c]
  /\ holders[c] = 0 => /\ record[c] = NoRecord => file[c] = "none"
                       /\ record[c] # NoRecord => ReadChunk(c) /\ refCount[record[c]] = 0

(* What the accounts of a chunk say when no call is on it.                 *)
LEMMA RestBefore ==
  ASSUME Counting, ChunkInv, NEW c \in Chunks, c \notin suspect, \A u \in ChunkCalls : ~On(u, c)
  PROVE  AtRest(c)
<1>1. Owing(c) = {} /\ Unwritten(c)
  BY Zenon DEF Owing, Unwritten
<1>2. Owed(c) = holders[c] /\ holders[c] \in Nat
  BY <1>1, NoneOwing DEF Owed, ChunkInv, ChunkType
<1> QED
  BY Zenon, <1>1, <1>2 DEF ChunkInv, Accounted, Held, Given, AtRest

(* A chunk that no call is on any more has its accounts right.             *)
LEMMA RestAfter ==
  ASSUME Counting, ChunkType', NEW c \in Chunks, \A u \in ChunkCalls : ~On(u, c)', AtRest(c)'
  PROVE  Accounted(c)'
<1>1. Owing(c)' = {} /\ Alone(c)'
  BY Zenon DEF Owing, Alone
<1>2. Owed(c)' = holders'[c] /\ holders'[c] \in Nat
  BY <1>1, NoneOwing DEF Owed, ChunkType
<1>3. Owed(c)' > 0 => Held(c)'
  BY Zenon, <1>2 DEF AtRest, Held
<1>4. Owed(c)' = 0 => Given(c)'
  BY <1>2 DEF AtRest, Given
<1> QED
  BY Zenon, <1>1, <1>3, <1>4 DEF Accounted

(* A call that begins on a chunk it leaves unsuspected overlaps no writer. *)
LEMMA NoOverlap ==
  ASSUME NEW t \in ChunkCalls, NEW c \in Chunks, NEW op, NoteOverlap(t, c, op), call[t].op = "none"
  PROVE  /\ suspect \subseteq suspect'
         /\ c \notin suspect' => c \notin suspect /\ Unwritten(c)
         /\ c \notin suspect' /\ op \in Writes => \A u \in ChunkCalls : ~On(u, c)
BY Zenon DEF NoteOverlap, CallsOn, On, Unwritten, Writes

(* WriteChunk and WriteChunkStream look the chunk up.                      *)
LEMMA LookupForWrite ==
  ASSUME Counting, ChunkInv, NEW t \in ChunkCalls, NEW c \in Chunks, NEW op \in Writes, WriteChunkLookup(t, c, op)
  PROVE  ChunkInv'
<1>0. ChunkType /\ OneLocked /\ call[t].op = "none"
  BY Zenon DEF ChunkInv, WriteChunkLookup
<1> DEFINE n == [op |-> op, pc |-> IF record[c] # NoRecord THEN "read" ELSE "open",
                 chunk |-> c, rec |-> record[c], count |-> 0]
<1>1. /\ call' = [call EXCEPT ![t] = n]
      /\ UNCHANGED <<record, refCount, compressed, allocatedChunks, file, holders>>
  BY Zenon DEF WriteChunkLookup
<1>2. record[c] \in Nat /\ record[c] <= allocatedChunks
  BY Zenon, <1>0 DEF ChunkType
<1>3. n \in CallStates /\ CallShape(n) /\ n.rec = record[c] /\ n.chunk = c /\ n.op = op
  BY <1>2 DEF CallStates, CallShape, ChunkPCs, Critical, Writes
<1>4. n.pc = IF record[c] # NoRecord THEN "read" ELSE "open"
  BY Zenon
<1>5. call[t] \in CallStates /\ call[t].rec = NoRecord /\ call'[t] = n /\ \A u \in ChunkCalls \ {t} : call'[u] = call[u]
  BY Zenon, <1>0, <1>1 DEF ChunkType, CallShape, Writes, Critical
<1> HIDE DEF n
<1>6. ChunkType'
  BY Zenon, <1>0, <1>1, <1>2, <1>3 DEF ChunkType
<1>7. suspect \subseteq suspect'
  BY Zenon, <1>0, NoOverlap DEF WriteChunkLookup
<1>8. StepOn(t, c)
  BY <1>0, <1>1, <1>3, <1>5, <1>7 DEF StepOn, ChunkType
<1>9. OneLocked'
  BY Zenon, <1>0, <1>4, <1>5 DEF OneLocked, Critical
<1>10. ASSUME c \notin suspect' PROVE Accounted(c)'
  <2>1. c \notin suspect /\ \A u \in ChunkCalls : ~On(u, c)
    BY Zenon, <1>0, <1>10, NoOverlap DEF WriteChunkLookup
  <2>2. AtRest(c) /\ holders[c] \in Nat
    BY Zenon, <1>0, <2>1, RestBefore DEF ChunkType
  <2>3. \A u \in ChunkCalls : On(u, c)' <=> u = t
    BY Zenon, <1>3, <1>5, <2>1 DEF On, Writes
  <2>4. WriterAt(t, c)'
    BY <1>1, <1>3, <1>4, <1>5, <2>2 DEF WriterAt, AtRest, ReadChunk
  <2> QED
    BY Zenon, <1>3, <1>5, <2>3, <2>4 DEF Accounted, Alone, Unwritten
<1> QED
  BY Zenon, <1>6, <1>8, <1>9, <1>10, Combined

(* A writer that stays at work or is done, on the only chunk it concerns.  *)
LEMMA WriterAlone ==
  ASSUME Counting, ChunkInv, NEW t \in ChunkCalls, call[t].op \in Writes, call[t].chunk \notin suspect
  PROVE  /\ call[t].chunk \in Chunks /\ WriterAt(t, call[t].chunk)
         /\ \A u \in ChunkCalls \ {t} : ~On(u, call[t].chunk)
<1>1. On(t, call[t].chunk) /\ call[t].chunk \in Chunks
  BY Zenon DEF On, ChunkInv, ChunkType, CallStates, Writes
<1> QED
  BY Zenon, <1>1 DEF ChunkInv, Accounted, Alone

(* The accounts of a chunk on which a write is left alone.                 *)
LEMMA WriterStays ==
  ASSUME ChunkType', NEW t \in ChunkCalls, NEW c \in Chunks,
         \A u \in ChunkCalls \ {t} : ~On(u, c)', On(t, c)', call'[t].op \in Writes, WriterAt(t, c)'
  PROVE  Accounted(c)'
BY Zenon DEF Accounted, Alone, Unwritten

(* The facts of a state that every step of a call starts from.             *)
LEMMA CallFacts ==
  ASSUME Counting, ChunkInv, NEW t \in ChunkCalls
  PROVE  /\ ChunkType /\ OneLocked /\ call[t] \in CallStates /\ CallShape(call[t])
         /\ call[t].chunk \in Chunks /\ call[t].rec \in Nat /\ call[t].rec <= allocatedChunks
         /\ call[t].rec # NoRecord => call[t].rec \in ChunkRecords
         /\ call[t].pc # "none" => call[t].op # "none"
<1>1. ChunkType /\ OneLocked
  BY Zenon DEF ChunkInv
<1>2. call[t] \in CallStates /\ CallShape(call[t]) /\ call[t].rec <= allocatedChunks
  BY Zenon, <1>1 DEF ChunkType
<1> QED
  BY Zenon, <1>1, <1>2, RecordsInRange DEF CallStates, CallShape

(* The write of a known chunk reads its reference count.                   *)
LEMMA DedupReadStep ==
  ASSUME Counting, ChunkInv, NEW t \in ChunkCalls, DedupRead(t)
  PROVE  ChunkInv'
<1>x. PICK x \in Chunks : x = call[t].chunk
  BY Zenon, CallFacts
<1> DEFINE n == [call[t] EXCEPT !.pc = "count", !.count = refCount[call[t].rec]]
<1>0. /\ ChunkType /\ OneLocked /\ call[t] \in CallStates /\ x \in Chunks
      /\ call[t].rec \in ChunkRecords /\ call[t].rec # NoRecord /\ call[t].rec <= allocatedChunks
      /\ call[t].op \in Writes /\ call[t].pc = "read"
  BY Zenon, CallFacts DEF DedupRead, CallShape, Writes
<1>1. /\ call' = [call EXCEPT ![t] = n]
      /\ UNCHANGED <<record, refCount, compressed, allocatedChunks, file, holders, suspect>>
  BY Zenon DEF DedupRead
<1>2. /\ n \in CallStates /\ n.op = call[t].op /\ n.pc = "count" /\ n.chunk = x /\ n.rec = call[t].rec
      /\ n.count = refCount[call[t].rec]
  BY Zenon, <1>x, <1>0 DEF CallStates, ChunkPCs, ChunkType
<1> HIDE DEF n
<1>3. CallShape(n)
  BY Zenon, <1>0, <1>2 DEF CallShape, Writes, Critical
<1>4. call'[t] = n /\ \A u \in ChunkCalls \ {t} : call'[u] = call[u]
  BY Zenon, <1>0, <1>1 DEF ChunkType
<1>5. ChunkType'
  BY Zenon, <1>0, <1>1, <1>2, <1>3 DEF ChunkType
<1>6. StepOn(t, x)
  BY <1>x, <1>0, <1>1, <1>2, <1>4 DEF StepOn, ChunkType
<1>7. OneLocked'
  BY Zenon, <1>0, <1>2, <1>4 DEF OneLocked, Critical
<1>8. ASSUME x \notin suspect' PROVE Accounted(x)'
  <2>1. WriterAt(t, x) /\ \A u \in ChunkCalls \ {t} : ~On(u, x)
    BY Zenon, <1>x, <1>0, <1>1, <1>8, WriterAlone
  <2>2. (\A u \in ChunkCalls \ {t} : ~On(u, x)') /\ call'[t].op # "none" /\ call'[t].chunk = x
    BY Zenon, <1>0, <1>2, <1>4, <2>1 DEF On, Writes
  <2>3. WriterAt(t, x)'
    BY Zenon, <1>0, <1>1, <1>2, <1>4, <2>1 DEF WriterAt, ReadChunk
  <2> QED
    BY Zenon, <1>0, <1>2, <1>4, <1>5, <2>2, <2>3 DEF Accounted, Alone, Unwritten, On
<1> QED
  BY Zenon, <1>0, <1>5, <1>6, <1>7, <1>8, Combined

(* The write of a known chunk stores the count that it read, plus one.     *)
LEMMA DedupStoreStep ==
  ASSUME Counting, ChunkInv, NEW t \in ChunkCalls, DedupStore(t)
  PROVE  ChunkInv'
<1>x. PICK x \in Chunks : x = call[t].chunk
  BY Zenon, CallFacts
<1>r. PICK r \in Nat : r = call[t].rec
  BY Zenon, CallFacts
<1>0. /\ ChunkType /\ OneLocked /\ call[t] \in CallStates /\ x \in Chunks
      /\ r \in ChunkRecords /\ r \in Nat /\ r # NoRecord /\ r <= allocatedChunks
      /\ call[t].op \in Writes /\ call[t].pc = "count" /\ call[t].count \in Int
  BY Zenon, <1>x, <1>r, CallFacts DEF DedupStore, CallShape, Writes, Critical, CallStates
<1>1. /\ refCount' = [refCount EXCEPT ![r] = call[t].count + 1]
      /\ record' = [record EXCEPT ![x] = r] /\ holders' = [holders EXCEPT ![x] = holders[x] + 1]
      /\ call' = [call EXCEPT ![t] = NoCall] /\ UNCHANGED <<compressed, allocatedChunks, file, suspect>>
  BY Zenon, <1>x, <1>r DEF DedupStore
<1>2. call'[t] = NoCall /\ \A u \in ChunkCalls \ {t} : call'[u] = call[u]
  BY Zenon, <1>0, <1>1 DEF ChunkType
<1>3. ChunkType'
  BY <1>0, <1>1, IdleCall DEF ChunkType, NoRecord
<1>4. StepOn(t, x)
  BY <1>x, <1>r, <1>0, <1>1, <1>2, IdleCall DEF StepOn, ChunkType
<1>5. OneLocked'
  BY Zenon, <1>0, <1>2, IdleCall DEF OneLocked, Critical
<1>6. ASSUME x \notin suspect' PROVE Accounted(x)'
  <2>1. WriterAt(t, x) /\ \A u \in ChunkCalls \ {t} : ~On(u, x)
    BY Zenon, <1>x, <1>r, <1>0, <1>1, <1>6, WriterAlone
  <2>2. \A u \in ChunkCalls : ~On(u, x)'
    BY Zenon, <1>2, <2>1, IdleCall DEF On
  <2>3. record[x] = r /\ ReadChunk(x) /\ call[t].count = holders[x]
    BY Zenon, <1>x, <1>r, <1>0, <2>1 DEF WriterAt
  <2>4. /\ record'[x] = r /\ holders'[x] = holders[x] + 1 /\ holders[x] \in Nat
        /\ refCount'[r] = holders[x] + 1
    BY Zenon, <1>0, <1>1, <2>3 DEF ChunkType
  <2>5. ReadChunk(x)'
    BY Zenon, <1>0, <1>1, <2>3, <2>4 DEF ReadChunk
  <2>6. AtRest(x)'
    BY <2>4, <2>5 DEF AtRest
  <2> QED
    BY Zenon, <1>0, <1>3, <2>2, <2>6, RestAfter
<1> QED
  BY Zenon, <1>0, <1>3, <1>4, <1>5, <1>6, Combined

(* The write of a new chunk creates or truncates its file.                 *)
LEMMA OpenFileStep ==
  ASSUME Counting, ChunkInv, NEW t \in ChunkCalls, NEW ok \in BOOLEAN, OpenFile(t, ok)
  PROVE  ChunkInv'
<1>x. PICK x \in Chunks : x = call[t].chunk
  BY Zenon, CallFacts
<1> DEFINE n == IF ok THEN [call[t] EXCEPT !.pc = "fill"] ELSE NoCall
<1>0. /\ ChunkType /\ OneLocked /\ call[t] \in CallStates /\ x \in Chunks
      /\ call[t].rec = NoRecord /\ call[t].op \in Writes /\ call[t].pc = "open"
  BY Zenon, CallFacts DEF OpenFile, CallShape, Writes, Critical, CallStates
<1>1. /\ file' = IF call[t].op = "write" THEN [file EXCEPT ![x] = "torn"] ELSE file
      /\ call' = [call EXCEPT ![t] = n]
      /\ UNCHANGED <<record, refCount, compressed, allocatedChunks, holders>>
      /\ suspect \subseteq suspect' /\ (x \notin suspect' => x \notin suspect /\ (ok \/ call[t].op # "write"))
  BY Zenon, <1>x DEF OpenFile
<1>2. /\ n \in CallStates /\ CallShape(n) /\ n.rec = NoRecord
      /\ ok => n.op = call[t].op /\ n.pc = "fill" /\ n.chunk = x
      /\ ~ok => n = NoCall
  BY Zenon, <1>x, <1>0, IdleCall DEF CallStates, ChunkPCs, CallShape, Writes, Critical
<1> HIDE DEF n
<1>3. call'[t] = n /\ \A u \in ChunkCalls \ {t} : call'[u] = call[u]
  BY Zenon, <1>0, <1>1 DEF ChunkType
<1>4. ChunkType'
  BY Zenon, <1>0, <1>1, <1>2 DEF ChunkType, Files, NoRecord
<1>5. StepOn(t, x)
  BY <1>x, <1>0, <1>1, <1>2, <1>3, IdleCall DEF StepOn, ChunkType
<1>6. OneLocked'
  BY Zenon, <1>0, <1>2, <1>3, IdleCall DEF OneLocked, Critical
<1>7. ASSUME x \notin suspect' PROVE Accounted(x)'
  <2>1. WriterAt(t, x) /\ \A u \in ChunkCalls \ {t} : ~On(u, x)
    BY Zenon, <1>x, <1>0, <1>1, <1>7, WriterAlone
  <2>2. record[x] = NoRecord /\ holders[x] = 0 /\ file[x] = "none"
    BY Zenon, <1>0, <2>1 DEF WriterAt
  <2>3. \A u \in ChunkCalls \ {t} : ~On(u, x)'
    BY Zenon, <1>3, <2>1 DEF On
  <2>4. CASE ok
    <3>1. WriterAt(t, x)'
      BY Zenon, <1>0, <1>1, <1>2, <1>3, <2>2, <2>4 DEF WriterAt, ChunkType
    <3>2. On(t, x)' /\ call'[t].op \in Writes
      BY Zenon, <1>0, <1>2, <1>3, <2>4 DEF On, Writes
    <3> QED
      BY Zenon, <1>4, <2>3, <3>1, <3>2, WriterStays
  <2>5. CASE ~ok
    <3>1. \A u \in ChunkCalls : ~On(u, x)'
      BY Zenon, <1>2, <1>3, <2>3, <2>5, IdleCall DEF On
    <3>2. file' = file
      BY Zenon, <1>1, <1>7, <2>5
    <3>3. AtRest(x)'
      BY <1>1, <2>2, <3>2 DEF AtRest
    <3> QED
      BY Zenon, <1>0, <1>4, <3>1, <3>3, RestAfter
  <2> QED
    BY Zenon, <2>4, <2>5
<1> QED
  BY Zenon, <1>0, <1>4, <1>5, <1>6, <1>7, Combined

(* The write of a new chunk fills its file.                                *)
LEMMA FillFileStep ==
  ASSUME Counting, ChunkInv, NEW t \in ChunkCalls, FillFile(t)
  PROVE  ChunkInv'
<1>x. PICK x \in Chunks : x = call[t].chunk
  BY Zenon, CallFacts
<1> DEFINE n == [call[t] EXCEPT !.pc = "insert"]
<1>0. /\ ChunkType /\ OneLocked /\ call[t] \in CallStates /\ x \in Chunks
      /\ call[t].rec = NoRecord /\ call[t].op \in Writes /\ call[t].pc = "fill"
  BY Zenon, CallFacts DEF FillFile, CallShape, Writes, Critical, CallStates
<1>1. /\ file' = [file EXCEPT ![x] = Encoding(call[t].op, x)] /\ call' = [call EXCEPT ![t] = n]
      /\ UNCHANGED <<record, refCount, compressed, allocatedChunks, holders, suspect>>
  BY Zenon, <1>x DEF FillFile
<1>2. /\ n \in CallStates /\ CallShape(n) /\ n.rec = NoRecord
      /\ n.op = call[t].op /\ n.pc = "insert" /\ n.chunk = x
  BY Zenon, <1>x, <1>0 DEF CallStates, ChunkPCs, CallShape, Writes, Critical
<1> HIDE DEF n
<1>3. call'[t] = n /\ \A u \in ChunkCalls \ {t} : call'[u] = call[u]
  BY Zenon, <1>0, <1>1 DEF ChunkType
<1>4. ChunkType'
  BY Zenon, <1>0, <1>1, <1>2 DEF ChunkType, Files, NoRecord, Encoding
<1>5. StepOn(t, x)
  BY <1>x, <1>0, <1>1, <1>2, <1>3 DEF StepOn, ChunkType
<1>6. OneLocked'
  BY Zenon, <1>0, <1>2, <1>3 DEF OneLocked, Critical
<1>7. ASSUME x \notin suspect' PROVE Accounted(x)'
  <2>1. WriterAt(t, x) /\ \A u \in ChunkCalls \ {t} : ~On(u, x)
    BY Zenon, <1>x, <1>0, <1>1, <1>7, WriterAlone
  <2>2. record[x] = NoRecord /\ holders[x] = 0
    BY Zenon, <1>0, <2>1 DEF WriterAt
  <2>3. \A u \in ChunkCalls \ {t} : ~On(u, x)'
    BY Zenon, <1>3, <2>1 DEF On
  <2>4. WriterAt(t, x)'
    BY Zenon, <1>0, <1>1, <1>2, <1>3, <2>2 DEF WriterAt, ChunkType
  <2>5. On(t, x)' /\ call'[t].op \in Writes
    BY Zenon, <1>0, <1>2, <1>3 DEF On, Writes
  <2> QED
    BY Zenon, <1>4, <2>3, <2>4, <2>5, WriterStays
<1> QED
  BY Zenon, <1>0, <1>4, <1>5, <1>6, <1>7, Combined

(* The write of a new chunk puts its record into the map.                  *)
LEMMA InsertRecordStep ==
  ASSUME Counting, ChunkInv, NEW t \in ChunkCalls, InsertRecord(t)
  PROVE  ChunkInv'
<1>x. PICK x \in Chunks : x = call[t].chunk
  BY Zenon, CallFacts
<1> DEFINE r == allocatedChunks + 1
           gz == (Encoding(call[t].op, x) = "gzip")
<1>0. /\ ChunkType /\ OneLocked /\ call[t] \in CallStates /\ x \in Chunks
      /\ call[t].rec = NoRecord /\ call[t].op \in Writes /\ call[t].pc = "insert"
  BY Zenon, CallFacts DEF InsertRecord, CallShape, Writes, Critical, CallStates
<1>1. /\ allocatedChunks' = r /\ refCount' = [refCount EXCEPT ![r] = 1]
      /\ compressed' = [compressed EXCEPT ![r] = gz]
      /\ record' = [record EXCEPT ![x] = r] /\ holders' = [holders EXCEPT ![x] = holders[x] + 1]
      /\ call' = [call EXCEPT ![t] = NoCall] /\ UNCHANGED <<file, suspect>>
  BY Zenon, <1>x DEF InsertRecord
<1>2. /\ r \in Nat /\ r \in ChunkRecords /\ r <= MaxChunkRecords /\ allocatedChunks \in Nat
      /\ r > allocatedChunks /\ r # NoRecord
  <2>1. allocatedChunks \in Nat /\ allocatedChunks < MaxChunkRecords /\ MaxChunkRecords \in Nat
    BY Zenon, <1>0, ChunkAssumption DEF InsertRecord, ChunkType
  <2> QED
    BY <2>1 DEF ChunkRecords, NoRecord
<1>3. call'[t] = NoCall /\ \A u \in ChunkCalls \ {t} : call'[u] = call[u]
  BY Zenon, <1>0, <1>1 DEF ChunkType
<1>4. gz \in BOOLEAN
  BY Zenon
<1>5. /\ record'[x] = r /\ refCount'[r] = 1 /\ compressed'[r] = gz
      /\ holders'[x] = holders[x] + 1
      /\ \A c \in Chunks \ {x} : record'[c] = record[c] /\ holders'[c] = holders[c]
      /\ \A k \in ChunkRecords : k # r => refCount'[k] = refCount[k] /\ compressed'[k] = compressed[k]
  <2> HIDE DEF gz, r
  <2> QED
    BY Zenon, <1>0, <1>1, <1>2 DEF ChunkType
<1>6. ChunkType'
  <2>1. allocatedChunks' \in Nat /\ allocatedChunks' <= MaxChunkRecords
    BY Zenon, <1>1, <1>2
  <2>2. refCount' \in [ChunkRecords -> Int] /\ compressed' \in [ChunkRecords -> BOOLEAN]
    <3> HIDE DEF gz
    <3> QED
      BY <1>0, <1>1, <1>2, <1>4 DEF ChunkType
  <2>3. record' \in [Chunks -> Nat] /\ holders' \in [Chunks -> Nat] /\ file' \in [Chunks -> Files]
    BY <1>0, <1>1, <1>2 DEF ChunkType
  <2>4. \A c \in Chunks : record'[c] <= allocatedChunks'
    <3> TAKE c \in Chunks
    <3>1. record[c] \in Nat /\ record[c] <= allocatedChunks
      BY Zenon, <1>0 DEF ChunkType
    <3> QED
      BY <1>1, <1>2, <1>5, <3>1
  <2>5. call' \in [ChunkCalls -> CallStates]
    BY Zenon, <1>0, <1>1, IdleCall DEF ChunkType
  <2>6. \A u \in ChunkCalls : CallShape(call'[u]) /\ call'[u].rec <= allocatedChunks'
    <3> TAKE u \in ChunkCalls
    <3>1. CallShape(call[u]) /\ call[u].rec <= allocatedChunks /\ call[u].rec \in Nat
      BY Zenon, <1>0, CallFacts
    <3> QED
      BY <1>1, <1>2, <1>3, <3>1, IdleCall DEF NoRecord
  <2> QED
    BY Zenon, <2>1, <2>2, <2>3, <2>4, <2>5, <2>6 DEF ChunkType
<1>7. StepOn(t, x)
  <2> HIDE DEF gz
  <2>1. \A k \in ChunkRecords : k <= allocatedChunks => k # r
    BY <1>2 DEF ChunkRecords
  <2> HIDE DEF r
  <2>2. allocatedChunks <= allocatedChunks'
    BY <1>1, <1>2
  <2> QED
    BY Zenon, <1>x, <1>0, <1>1, <1>2, <1>3, <1>5, <2>1, <2>2, IdleCall DEF StepOn
<1>8. OneLocked'
  BY Zenon, <1>0, <1>3, IdleCall DEF OneLocked, Critical
<1>9. ASSUME x \notin suspect' PROVE Accounted(x)'
  <2>1. WriterAt(t, x) /\ \A u \in ChunkCalls \ {t} : ~On(u, x)
    BY Zenon, <1>x, <1>0, <1>1, <1>9, WriterAlone
  <2>2. holders[x] = 0 /\ file[x] = Encoding(call[t].op, x)
    BY Zenon, <1>0, <2>1 DEF WriterAt
  <2>3. \A u \in ChunkCalls : ~On(u, x)'
    BY Zenon, <1>3, <2>1, IdleCall DEF On
  <2>4. file'[x] = IF gz THEN "gzip" ELSE "plain"
    BY Zenon, <1>1, <2>2 DEF Encoding
  <2>5. ReadChunk(x)'
    <3> HIDE DEF gz
    <3> QED
      BY Zenon, <1>2, <1>4, <1>5, <2>4 DEF ReadChunk
  <2>6. AtRest(x)'
    BY <1>5, <2>2, <2>5 DEF AtRest
  <2> QED
    BY Zenon, <1>0, <1>6, <2>3, <2>6, RestAfter
<1> QED
  BY Zenon, <1>0, <1>6, <1>7, <1>8, <1>9, Combined

-----------------------------------------------------------------------------

(* Owing changes by one call.                                              *)
LEMMA OwingPlus ==
  ASSUME Counting, NEW t \in ChunkCalls, NEW c \in Chunks,
         \A u \in ChunkCalls \ {t} : call'[u] = call[u],
         t \notin Owing(c), t \in Owing(c)'
  PROVE  Cardinality(Owing(c)') = Cardinality(Owing(c)) + 1
<1>1. Owing(c)' = Owing(c) \cup {t}
  BY Zenon DEF Owing, On
<1> QED
  BY <1>1 DEF Counting, Owing

(* A deletion that has counted its chunk down owes one count less.         *)
LEMMA OwingMinus ==
  ASSUME Counting, NEW t \in ChunkCalls, NEW c \in Chunks,
         \A u \in ChunkCalls \ {t} : call'[u] = call[u],
         t \in Owing(c), t \notin Owing(c)'
  PROVE  Cardinality(Owing(c)') = Cardinality(Owing(c)) - 1
<1>1. Owing(c) = Owing(c)' \cup {t} /\ Owing(c)' \in SUBSET ChunkCalls
  BY Zenon DEF Owing, On
<1>2. Cardinality(Owing(c)') \in Nat /\ Cardinality(Owing(c)' \cup {t}) = Cardinality(Owing(c)') + 1
  BY Zenon, <1>1 DEF Counting
<1> QED
  BY <1>1, <1>2

(* A step that leaves what a call owes leaves the calls that owe.          *)
LEMMA OwingSame ==
  ASSUME NEW t \in ChunkCalls, NEW c \in Chunks, \A u \in ChunkCalls \ {t} : call'[u] = call[u],
         t \in Owing(c) <=> t \in Owing(c)'
  PROVE  Owing(c)' = Owing(c)
BY Zenon DEF Owing, On

(* A chunk that nobody writes, before and after.                           *)
LEMMA DeleteBefore ==
  ASSUME Counting, ChunkInv, NEW c \in Chunks, c \notin suspect, Unwritten(c)
  PROVE  /\ Owed(c) \in Nat /\ holders[c] \in Nat /\ Cardinality(Owing(c)) \in Nat
         /\ Owed(c) > 0 => Held(c)
         /\ Owed(c) = 0 => Given(c)
<1>1. holders[c] \in Nat /\ Cardinality(Owing(c)) \in Nat
  BY Zenon, OwingCounted DEF ChunkInv, ChunkType
<1> QED
  BY <1>1 DEF ChunkInv, Accounted, Owed

(* The accounts of a chunk that no write is on.                            *)
LEMMA DeleteAfter ==
  ASSUME NEW c \in Chunks, Unwritten(c)', Owed(c)' > 0 => Held(c)', Owed(c)' = 0 => Given(c)'
  PROVE  Accounted(c)'
BY Zenon DEF Accounted, Alone, Unwritten

(* DeleteChunk looks the chunk up.                                         *)
LEMMA LookupForDelete ==
  ASSUME Counting, ChunkInv, NEW t \in ChunkCalls, NEW c \in Chunks, DeleteChunkLookup(t, c)
  PROVE  ChunkInv'
<1> DEFINE d == [op |-> "delete", pc |-> "read", chunk |-> c, rec |-> record[c], count |-> 0]
           n == IF record[c] = NoRecord THEN NoCall ELSE d
<1>0. /\ ChunkType /\ OneLocked /\ call[t].op = "none" /\ call[t].rec = NoRecord /\ holders[c] > 0
      /\ record[c] \in Nat /\ record[c] <= allocatedChunks /\ holders[c] \in Nat
  BY Zenon, CallFacts DEF DeleteChunkLookup, CallShape, Writes, Critical, ChunkType
<1>1. /\ holders' = [holders EXCEPT ![c] = holders[c] - 1] /\ call' = [call EXCEPT ![t] = n]
      /\ UNCHANGED <<record, refCount, compressed, allocatedChunks, file>>
      /\ NoteOverlap(t, c, "delete")
  BY Zenon DEF DeleteChunkLookup
<1>2. /\ d \in CallStates /\ CallShape(d)
      /\ d.op = "delete" /\ d.pc = "read" /\ d.chunk = c /\ d.rec = record[c]
      \/ record[c] = NoRecord
  BY <1>0 DEF CallStates, ChunkPCs, CallShape, Writes, Critical
<1> HIDE DEF d
<1>3. n \in CallStates /\ CallShape(n) /\ n.rec \in {NoRecord, record[c]} /\ (n.op # "none" => n.chunk = c)
      /\ n.pc \notin Critical
  BY Zenon, <1>2, IdleCall DEF Critical
<1>4. call'[t] = n /\ \A u \in ChunkCalls \ {t} : call'[u] = call[u]
  BY Zenon, <1>0, <1>1 DEF ChunkType
<1>5. holders[c] - 1 \in Nat
  BY <1>0
<1>6. ChunkType'
  <2> HIDE DEF n
  <2> QED
    BY Zenon, <1>0, <1>1, <1>3, <1>5 DEF ChunkType, NoRecord
<1>7. suspect \subseteq suspect' /\ (c \notin suspect' => c \notin suspect /\ Unwritten(c))
  BY Zenon, <1>0, <1>1, NoOverlap
<1>8. StepOn(t, c)
  <2> HIDE DEF n
  <2> QED
    BY <1>0, <1>1, <1>3, <1>4, <1>7 DEF StepOn, ChunkType
<1>9. OneLocked'
  BY Zenon, <1>0, <1>3, <1>4 DEF OneLocked
<1>10. ASSUME c \notin suspect' PROVE Accounted(c)'
  <2>1. Unwritten(c) /\ c \notin suspect
    BY Zenon, <1>7, <1>10
  <2>2. Owed(c) > 0 /\ Held(c)
    BY <1>0, <2>1, DeleteBefore DEF Owed
  <2>3. record[c] # NoRecord /\ n = d
    BY Zenon, <2>2 DEF Held, ReadChunk
  <2>4. t \notin Owing(c) /\ On(t, c)' /\ t \in Owing(c)'
    BY Zenon, <1>0, <1>2, <1>4, <2>3 DEF Owing, On
  <2>5. Owed(c)' = Owed(c)
    <3>1. Cardinality(Owing(c)') = Cardinality(Owing(c)) + 1 /\ Cardinality(Owing(c)) \in Nat
      BY Zenon, <1>4, <2>4, OwingPlus, OwingCounted
    <3>2. holders'[c] = holders[c] - 1
      BY Zenon, <1>0, <1>1 DEF ChunkType
    <3> QED
      BY <1>0, <3>1, <3>2 DEF Owed
  <2>6. \A u \in ChunkCalls : On(u, c)' => u = t \/ (On(u, c) /\ call'[u] = call[u])
    BY Zenon, <1>4 DEF On
  <2>7. Unwritten(c)'
    BY Zenon, <1>2, <1>4, <2>1, <2>3, <2>6 DEF Unwritten, Writes
  <2>8. ReadChunk(c)' /\ refCount'[record'[c]] = Owed(c)'
    BY Zenon, <1>1, <2>2, <2>5 DEF Held, ReadChunk
  <2>9. ASSUME NEW u \in ChunkCalls, On(u, c)'
        PROVE  /\ u \in Owing(c)' /\ call'[u].rec = record'[c]
               /\ call'[u].pc = "store" => call'[u].count = refCount'[record'[c]]
    <3>1. CASE u = t
      BY Zenon, <1>1, <1>2, <1>4, <2>3, <2>4, <3>1
    <3>2. CASE u # t
      <4>1. On(u, c) /\ call'[u] = call[u]
        BY Zenon, <2>6, <2>9, <3>2
      <4>2. /\ u \in Owing(c) /\ call[u].rec = record[c]
            /\ call[u].pc = "store" => call[u].count = refCount[record[c]]
        BY Zenon, <2>2, <4>1 DEF Held
      <4> QED
        BY Zenon, <1>1, <2>9, <4>1, <4>2 DEF Owing
    <3> QED
      BY Zenon, <3>1, <3>2
  <2>10. Held(c)'
    BY Zenon, <2>8, <2>9 DEF Held
  <2>11. Owed(c)' > 0
    BY Zenon, <2>2, <2>5
  <2> QED
    BY <2>7, <2>10, <2>11, DeleteAfter
<1> QED
  BY Zenon, <1>6, <1>8, <1>9, <1>10, Combined

(* GarbageCollect picks a chunk whose count is zero or below.              *)
LEMMA GarbageCollectStep ==
  ASSUME Counting, ChunkInv, NEW t \in ChunkCalls, NEW c \in Chunks, GarbageCollect(t, c)
  PROVE  ChunkInv'
<1> DEFINE n == [op |-> "gc", pc |-> "lookup", chunk |-> c, rec |-> NoRecord, count |-> 0]
<1>0. /\ ChunkType /\ OneLocked /\ call[t].op = "none" /\ call[t].rec = NoRecord
      /\ record[c] # NoRecord /\ refCount[record[c]] \in LowestCount..0
  BY Zenon, CallFacts DEF GarbageCollect, CallShape, Writes, Critical
<1>1. /\ call' = [call EXCEPT ![t] = n] /\ NoteOverlap(t, c, "delete")
      /\ UNCHANGED <<record, refCount, compressed, allocatedChunks, file, holders>>
  BY Zenon DEF GarbageCollect
<1>2. n \in CallStates /\ CallShape(n) /\ n.op = "gc" /\ n.pc = "lookup" /\ n.chunk = c /\ n.rec = NoRecord
  BY DEF CallStates, ChunkPCs, CallShape, Writes, Critical, NoRecord
<1> HIDE DEF n
<1>3. call'[t] = n /\ \A u \in ChunkCalls \ {t} : call'[u] = call[u]
  BY Zenon, <1>0, <1>1 DEF ChunkType
<1>4. ChunkType'
  BY Zenon, <1>0, <1>1, <1>2 DEF ChunkType, NoRecord
<1>5. suspect \subseteq suspect' /\ (c \notin suspect' => c \notin suspect /\ Unwritten(c))
  BY Zenon, <1>0, <1>1, NoOverlap
<1>6. StepOn(t, c)
  BY <1>0, <1>1, <1>2, <1>3, <1>5 DEF StepOn, ChunkType
<1>7. OneLocked'
  BY Zenon, <1>0, <1>2, <1>3 DEF OneLocked, Critical
<1>8. ASSUME c \notin suspect' PROVE Accounted(c)'
  <2>1. Unwritten(c) /\ c \notin suspect
    BY Zenon, <1>5, <1>8
  <2>2. refCount[record[c]] = 0
    BY <1>0 DEF LowestCount
  <2>3. Owed(c) = 0 /\ Given(c)
    BY <2>1, <2>2, DeleteBefore DEF Held
  <2>4. Owed(c)' = 0
    <3>1. Owing(c)' = Owing(c)
      BY Zenon, <1>0, <1>2, <1>3, OwingSame DEF Owing
    <3> QED
      BY Zenon, <1>1, <2>3, <3>1 DEF Owed
  <2>5. \A u \in ChunkCalls : On(u, c)' => u = t \/ (On(u, c) /\ call'[u] = call[u])
    BY Zenon, <1>3 DEF On
  <2>6. Unwritten(c)'
    BY Zenon, <1>2, <1>3, <2>1, <2>5 DEF Unwritten, Writes
  <2>7. ASSUME NEW u \in ChunkCalls, On(u, c)' PROVE Spent(u, c)'
    BY Zenon, <1>1, <1>2, <1>3, <2>3, <2>5, <2>7 DEF Given, Spent
  <2>8. \A u \in ChunkCalls : On(u, c) => On(u, c)' /\ call'[u] = call[u]
    BY Zenon, <1>0, <1>3 DEF On
  <2>9. Given(c)'
    BY Zenon, <1>1, <2>2, <2>3, <2>7, <2>8 DEF Given, ReadChunk
  <2> QED
    BY <2>4, <2>6, <2>9, DeleteAfter
<1> QED
  BY Zenon, <1>4, <1>6, <1>7, <1>8, Combined

(* What a deletion or a collection under way says of its chunk.            *)
LEMMA DeleterFacts ==
  ASSUME Counting, ChunkInv, NEW t \in ChunkCalls, NEW c \in Chunks, c \notin suspect,
         call[t].op \in {"delete", "gc"}, call[t].chunk = c
  PROVE  /\ Unwritten(c) /\ On(t, c) /\ Owed(c) \in Nat /\ Cardinality(Owing(c)) \in Nat /\ holders[c] \in Nat
         /\ t \in Owing(c) => Owed(c) > 0 /\ Held(c)
         /\ t \notin Owing(c) => Owed(c) = 0 /\ Given(c)
<1>1. On(t, c)
  BY Zenon DEF On
<1>2. Unwritten(c)
  BY Zenon, <1>1 DEF ChunkInv, Accounted, Alone, Unwritten, Writes
<1>3. t \in Owing(c) => Cardinality(Owing(c)) # 0
  BY Zenon, OwingCounted
<1>4. /\ Owed(c) \in Nat /\ holders[c] \in Nat /\ Cardinality(Owing(c)) \in Nat
      /\ Owed(c) > 0 => Held(c)
      /\ Owed(c) = 0 => Given(c)
  BY Zenon, <1>2, DeleteBefore
<1>5. t \in Owing(c) => Owed(c) > 0
  BY <1>3, <1>4 DEF Owed
<1>6. t \notin Owing(c) => ~Held(c)
  BY Zenon, <1>1 DEF Held
<1> QED
  BY <1>1, <1>2, <1>4, <1>5, <1>6

(* The collector looks the picked chunk up again.                          *)
LEMMA CollectChunkStep ==
  ASSUME Counting, ChunkInv, NEW t \in ChunkCalls, CollectChunk(t)
  PROVE  ChunkInv'
<1>x. PICK x \in Chunks : x = call[t].chunk
  BY Zenon, CallFacts
<1> DEFINE g == [call[t] EXCEPT !.pc = "read", !.rec = record[x]]
           n == IF record[x] = NoRecord THEN NoCall ELSE g
<1>0. /\ ChunkType /\ OneLocked /\ call[t] \in CallStates /\ call[t].op = "gc" /\ call[t].pc = "lookup"
      /\ call[t].rec = NoRecord /\ record[x] \in Nat /\ record[x] <= allocatedChunks
  BY Zenon, CallFacts DEF CollectChunk, CallAt, CallShape, Critical, ChunkType
<1>1. /\ call' = [call EXCEPT ![t] = n]
      /\ UNCHANGED <<record, refCount, compressed, allocatedChunks, file, holders, suspect>>
  BY Zenon, <1>x DEF CollectChunk
<1>2. /\ g \in CallStates /\ g.op = "gc" /\ g.pc = "read" /\ g.chunk = x /\ g.rec = record[x]
      /\ record[x] # NoRecord => CallShape(g)
  BY Zenon, <1>x, <1>0 DEF CallStates, ChunkPCs, CallShape, Writes, Critical
<1> HIDE DEF g
<1>3. n \in CallStates /\ CallShape(n) /\ n.rec \in {NoRecord, record[x]} /\ (n.op # "none" => n.chunk = x)
      /\ n.pc \notin {"store", "unlink", "drop", "count"} /\ n.op \in {"none", "gc"}
  BY Zenon, <1>2, IdleCall
<1>4. call'[t] = n /\ \A u \in ChunkCalls \ {t} : call'[u] = call[u]
  BY Zenon, <1>0, <1>1 DEF ChunkType
<1> HIDE DEF n
<1>5. ChunkType'
  BY Zenon, <1>0, <1>1, <1>3 DEF ChunkType, NoRecord
<1>6. StepOn(t, x)
  BY <1>x, <1>0, <1>1, <1>3, <1>4 DEF StepOn, ChunkType
<1>7. OneLocked'
  BY Zenon, <1>0, <1>3, <1>4 DEF OneLocked, Critical
<1>8. ASSUME x \notin suspect' PROVE Accounted(x)'
  <2>1. t \notin Owing(x) /\ t \notin Owing(x)'
    BY Zenon, <1>0, <1>3, <1>4 DEF Owing
  <2>2. Unwritten(x) /\ On(t, x) /\ Owed(x) = 0 /\ Given(x)
    BY Zenon, <1>x, <1>0, <1>1, <1>8, <2>1, DeleterFacts
  <2>3. Owed(x)' = 0
    BY Zenon, <1>1, <1>4, <2>1, <2>2, OwingSame DEF Owed
  <2>4. \A u \in ChunkCalls : On(u, x)' => On(u, x) /\ (u # t => call'[u] = call[u])
    BY Zenon, <1>4, <2>2 DEF On
  <2>5. Unwritten(x)'
    BY Zenon, <1>3, <1>4, <2>2, <2>4 DEF Unwritten, Writes
  <2>6. /\ record[x] # NoRecord => n = g
        /\ record[x] = NoRecord => ~On(t, x)'
    BY Zenon, <1>4, IdleCall DEF n, On
  <2>7. ASSUME NEW u \in ChunkCalls, On(u, x)' PROVE Spent(u, x)'
    <3>1. CASE u = t
      <4>1. record[x] # NoRecord /\ call'[t] = g
        BY Zenon, <1>4, <2>6, <2>7, <3>1
      <4> QED
        BY Zenon, <1>1, <1>2, <2>2, <3>1, <4>1 DEF Given, Spent
    <3>2. CASE u # t
      BY Zenon, <1>1, <2>2, <2>4, <2>7, <3>2 DEF Given, Spent
    <3> QED
      BY Zenon, <3>1, <3>2
  <2>8. \A u \in ChunkCalls : On(u, x) => u = t \/ (On(u, x)' /\ call'[u] = call[u])
    BY Zenon, <1>4 DEF On
  <2>9. Given(x)'
    BY Zenon, <1>0, <1>1, <2>2, <2>7, <2>8 DEF Given, ReadChunk
  <2> QED
    BY <2>3, <2>5, <2>9, DeleteAfter
<1> QED
  BY Zenon, <1>5, <1>6, <1>7, <1>8, Combined

(* A deletion or the collector takes the lock of the chunk.                *)
LEMMA LockChunkStep ==
  ASSUME Counting, ChunkInv, NEW t \in ChunkCalls, LockChunk(t)
  PROVE  ChunkInv'
<1>x. PICK x \in Chunks : x = call[t].chunk
  BY Zenon, CallFacts
<1> DEFINE n == [call[t] EXCEPT !.pc = "store", !.count = refCount[call[t].rec]]
<1>0. /\ ChunkType /\ OneLocked /\ call[t] \in CallStates /\ call[t].op \in {"delete", "gc"} /\ call[t].pc = "read"
      /\ call[t].rec # NoRecord /\ call[t].rec \in ChunkRecords /\ call[t].rec <= allocatedChunks
  BY Zenon, CallFacts DEF LockChunk, CallShape, Critical
<1> \A u \in ChunkCalls : call[u].pc \notin Critical
  BY Zenon DEF LockChunk, cs_muFree, Critical
<1>1. /\ call' = [call EXCEPT ![t] = n]
      /\ UNCHANGED <<record, refCount, compressed, allocatedChunks, file, holders, suspect>>
  BY Zenon DEF LockChunk
<1>2. /\ n \in CallStates /\ n.op = call[t].op /\ n.pc = "store" /\ n.chunk = x /\ n.rec = call[t].rec
      /\ n.count = refCount[call[t].rec]
  BY Zenon, <1>x, <1>0 DEF CallStates, ChunkPCs, ChunkType, Critical
<1> HIDE DEF n
<1>3. CallShape(n)
  BY Zenon, <1>0, <1>2 DEF CallShape, Writes, Critical
<1>4. call'[t] = n /\ \A u \in ChunkCalls \ {t} : call'[u] = call[u]
  BY Zenon, <1>0, <1>1 DEF ChunkType
<1>5. ChunkType'
  BY Zenon, <1>0, <1>1, <1>2, <1>3 DEF ChunkType
<1>6. StepOn(t, x)
  BY <1>x, <1>0, <1>1, <1>2, <1>4 DEF StepOn, ChunkType
<1>7. OneLocked'
  BY Zenon, <1>0, <1>2, <1>4 DEF OneLocked
<1>8. ASSUME x \notin suspect' PROVE Accounted(x)'
  <2>1. \A u \in ChunkCalls : (On(u, x)' <=> On(u, x)) /\ (u # t => call'[u] = call[u])
    BY Zenon, <1>x, <1>0, <1>2, <1>4 DEF On
  <2>2. t \in Owing(x) <=> t \in Owing(x)'
    BY Zenon, <1>x, <1>0, <1>2, <1>4 DEF Owing, On
  <2>3. Owing(x)' = Owing(x) /\ Owed(x)' = Owed(x)
    BY Zenon, <1>1, <1>4, <2>2, OwingSame DEF Owed
  <2>4. Unwritten(x)
    BY Zenon, <1>x, <1>0, <1>1, <1>8, DeleterFacts
  <2>5. Unwritten(x)'
    BY Zenon, <1>2, <1>4, <2>1, <2>4 DEF Unwritten
  <2>6. CASE t \in Owing(x)
    <3>1. Owed(x) > 0 /\ Held(x)
      BY Zenon, <1>x, <1>0, <1>1, <1>8, <2>6, DeleterFacts
    <3>2. Held(x)'
      BY <1>1, <1>2, <1>4, <2>1, <2>3, <3>1 DEF Held, ReadChunk
    <3>3. Owed(x)' > 0
      BY Zenon, <2>3, <3>1
    <3> QED
      BY <2>5, <3>2, <3>3, DeleteAfter
  <2>7. CASE t \notin Owing(x)
    <3>1. Owed(x) = 0 /\ Given(x)
      BY ZenonT(60), <1>x, <1>0, <1>1, <1>8, <2>7, DeleterFacts
    <3>2. ASSUME NEW u \in ChunkCalls, On(u, x)' PROVE Spent(u, x)'
      BY SMTT(30), <1>0, <1>1, <1>2, <1>4, <2>1, <3>1, <3>2 DEF Given, Spent
    <3>3. Given(x)'
      BY Zenon, <1>0, <1>1, <1>2, <1>4, <2>1, <3>1, <3>2 DEF Given, ReadChunk
    <3>4. Owed(x)' = 0
      BY Zenon, <2>3, <3>1
    <3> QED
      BY <2>5, <3>3, <3>4, DeleteAfter
  <2> QED
    BY Zenon, <2>6, <2>7
<1> QED
  BY Zenon, <1>5, <1>6, <1>7, <1>8, Combined

(* A deletion or the collector counts the chunk down.                      *)
LEMMA CountDownStep ==
  ASSUME Counting, ChunkInv, NEW t \in ChunkCalls, CountDown(t)
  PROVE  ChunkInv'
<1>x. PICK x \in Chunks : x = call[t].chunk
  BY Zenon, CallFacts
<1>r. PICK r \in Nat : r = call[t].rec
  BY Zenon, CallFacts
<1>k. PICK k \in Int : k = call[t].count
  BY Zenon, CallFacts DEF CallStates
<1> DEFINE n == IF k - 1 <= 0 THEN [call[t] EXCEPT !.pc = "unlink"] ELSE NoCall
<1>0. /\ ChunkType /\ OneLocked /\ call[t] \in CallStates /\ call[t].op \in {"delete", "gc"} /\ call[t].pc = "store"
      /\ r # NoRecord /\ r \in ChunkRecords /\ r <= allocatedChunks /\ CallShape(call[t])
  BY Zenon, <1>x, <1>r, <1>k, CallFacts DEF CountDown, CallShape, Critical, Writes, CallStates
<1>1. /\ refCount' = [refCount EXCEPT ![r] = k - 1]
      /\ record' = IF k - 1 <= 0 THEN record ELSE [record EXCEPT ![x] = r]
      /\ UNCHANGED <<compressed, allocatedChunks, file, holders, suspect>>
  BY Zenon, <1>x, <1>r, <1>k DEF CountDown
<1>2. call' = [call EXCEPT ![t] = n]
  BY Zenon, <1>x, <1>r, <1>k DEF CountDown
<1>3. /\ n \in CallStates /\ CallShape(n) /\ n.rec \in {NoRecord, r} /\ (n.op # "none" => n.chunk = x)
      /\ k - 1 <= 0 => n.op = call[t].op /\ n.pc = "unlink" /\ n.rec = r /\ n.chunk = x
      /\ ~(k - 1 <= 0) => n = NoCall
  BY Zenon, <1>x, <1>r, <1>k, <1>0, IdleCall DEF CallStates, ChunkPCs, CallShape, Writes, Critical
<1> HIDE DEF n
<1>4. call'[t] = n /\ \A u \in ChunkCalls \ {t} : call'[u] = call[u]
  BY Zenon, <1>0, <1>2 DEF ChunkType
<1>5. k - 1 \in Int /\ refCount'[r] = k - 1 /\ \A j \in ChunkRecords \ {r} : refCount'[j] = refCount[j]
  BY <1>0, <1>1 DEF ChunkType
<1>6. record'[x] \in {record[x], r} /\ \A c \in Chunks \ {x} : record'[c] = record[c]
  BY Zenon, <1>0, <1>1 DEF ChunkType
<1>7. ChunkType'
  BY SMTT(30), <1>0, <1>1, <1>2, <1>3, <1>5 DEF ChunkType, NoRecord
<1>8. StepOn(t, x)
  BY <1>x, <1>r, <1>k, <1>0, <1>1, <1>3, <1>4, <1>5, <1>6 DEF StepOn, ChunkType
<1>9. OneLocked'
  BY Zenon, <1>0, <1>4 DEF OneLocked, Critical
<1>10. ASSUME x \notin suspect' PROVE Accounted(x)'
  <2>1. \A u \in ChunkCalls : On(u, x)' => On(u, x) /\ (u # t => call'[u] = call[u])
    BY Zenon, <1>x, <1>r, <1>k, <1>0, <1>3, <1>4 DEF On
  <2>2. Unwritten(x) /\ On(t, x) /\ Owed(x) \in Nat /\ Cardinality(Owing(x)) \in Nat /\ holders[x] \in Nat
    BY Zenon, <1>x, <1>r, <1>k, <1>0, <1>1, <1>10, DeleterFacts
  <2>3. Unwritten(x)'
    BY Zenon, <1>0, <1>3, <1>4, <2>1, <2>2, IdleCall DEF Unwritten, Writes
  <2>4. \A u \in ChunkCalls \ {t} : call[u].pc \notin Critical
    BY Zenon, <1>0 DEF OneLocked, Critical
  <2>5. t \notin Owing(x)'
    BY Zenon, <1>3, <1>4, IdleCall DEF Owing, On
  <2>6. CASE t \in Owing(x)
    <3>1. Held(x) /\ k = Owed(x) /\ record[x] = r /\ ReadChunk(x)
      BY Zenon, <1>x, <1>r, <1>k, <1>0, <1>1, <1>10, <2>2, <2>6, DeleterFacts DEF Held
    <3>2. Cardinality(Owing(x)') = Cardinality(Owing(x)) - 1
      BY Zenon, <1>4, <2>5, <2>6, OwingMinus
    <3>3. Owed(x)' = k - 1
      BY SMTT(30), <1>1, <2>2, <3>1, <3>2 DEF Owed
    <3>4. record'[x] = r /\ ReadChunk(x)'
      BY Zenon, <1>0, <1>1, <1>6, <3>1 DEF ReadChunk
    <3>5. CASE k - 1 <= 0
      <4>1. Owed(x)' = 0 /\ k - 1 = 0
        BY SMTT(30), <1>x, <1>r, <1>k, <2>2, <3>1, <3>3, <3>5, <2>6, DeleterFacts, <1>0, <1>1,
           <1>10
      <4>2. holders'[x] \in Nat /\ Cardinality(Owing(x)') \in Nat /\ Owing(x)' \subseteq ChunkCalls
        BY Zenon, <1>1, <2>2, OwingCounted DEF Owing, Counting
      <4>3. Cardinality(Owing(x)') = 0
        BY <4>1, <4>2 DEF Owed
      <4>4. Owing(x)' = {}
        BY Zenon, <4>2, <4>3 DEF Counting
      <4>5. \A u \in ChunkCalls : On(u, x)' => u = t
        BY <2>1, <3>1, <4>4 DEF Held, Owing
      <4>6. Given(x)'
        BY <1>0, <1>3, <1>4, <1>5, <3>4, <3>5, <4>1, <4>5 DEF Given, Spent, On
      <4> QED
        BY SMTT(30), <2>3, <4>1, <4>6, DeleteAfter
    <3>6. CASE ~(k - 1 <= 0)
      <4>1. Owed(x)' > 0
        BY <3>3, <3>6
      <4>2. \A u \in ChunkCalls : On(u, x)' => u # t /\ On(u, x) /\ call'[u] = call[u] /\ call[u].pc # "store"
        BY Zenon, <1>3, <1>4, <2>1, <2>4, <3>6, IdleCall DEF On, Critical
      <4>3. \A u \in ChunkCalls : On(u, x)' => u \in Owing(x)' /\ call'[u].rec = r
        BY <3>1, <4>2 DEF Held, Owing
      <4>4. Held(x)'
        BY Zenon, <1>5, <3>3, <3>4, <4>2, <4>3 DEF Held
      <4> QED
        BY <2>3, <4>1, <4>4, DeleteAfter
    <3> QED
      BY Zenon, <3>5, <3>6
  <2>7. CASE t \notin Owing(x)
    <3>1. Owed(x) = 0 /\ Given(x)
      BY ZenonT(60), <1>x, <1>r, <1>k, <1>0, <1>1, <1>10, <2>7, DeleterFacts
    <3>2. k = refCount[r] /\ refCount[r] <= 0 /\ record[x] \in {NoRecord, r} /\ call[t].op = "gc"
      BY Zenon, <1>x, <1>r, <1>k, <1>0, <2>2, <2>7, <3>1 DEF Given, Spent, Owing
    <3>3. k - 1 <= 0 /\ k - 1 \in Int
      BY SMTT(30), <3>2
    <3>4. Owed(x)' = 0
      BY Zenon, <1>1, <1>4, <2>5, <2>7, <3>1, OwingSame DEF Owed
    <3>5. n.op = "gc" /\ n.pc = "unlink" /\ n.rec = r /\ n.chunk = x /\ record' = record
      BY Zenon, <1>1, <1>3, <3>2, <3>3
    <3>6. \A j \in ChunkRecords : refCount[j] <= 0 => refCount'[j] <= 0
      BY Zenon, <1>5, <3>3
    <3>7. ASSUME NEW u \in ChunkCalls, On(u, x)' PROVE Spent(u, x)'
      <4>1. CASE u = t
        BY Zenon, <1>4, <1>5, <3>2, <3>3, <3>5, <4>1 DEF Spent
      <4>2. CASE u # t
        <5>1. On(u, x) /\ call'[u] = call[u] /\ call[u].pc \notin Critical
          BY Zenon, <2>1, <2>4, <3>7, <4>2
        <5>2. call[u].rec # NoRecord => call[u].rec \in ChunkRecords
          BY Zenon, CallFacts
        <5> QED
          BY Zenon, <1>1, <3>1, <3>5, <3>6, <5>1, <5>2 DEF Given, Spent, Critical
      <4> QED
        BY Zenon, <4>1, <4>2
    <3>8. record'[x] = NoRecord => file'[x] = "none"
      BY Zenon, <1>1, <3>1, <3>5 DEF Given
    <3>9. ASSUME record'[x] # NoRecord
          PROVE  /\ refCount'[record'[x]] <= 0
                 /\ (\A u \in ChunkCalls : On(u, x)' => call'[u].pc # "drop") => ReadChunk(x)'
                 /\ ~(\A u \in ChunkCalls : On(u, x)' /\ call'[u].op = "gc" => call'[u].pc \notin {"unlink", "drop"})
      <4>1. record[x] = r /\ record'[x] = r
        BY Zenon, <3>2, <3>5, <3>9
      <4>2. On(t, x)' /\ call'[t].op = "gc" /\ call'[t].pc = "unlink"
        BY Zenon, <1>4, <3>5 DEF On
      <4>3. \A u \in ChunkCalls : On(u, x) => call[u].pc # "drop"
        BY Zenon, <1>0, <2>4 DEF Critical
      <4>4. ReadChunk(x)'
        BY Zenon, <1>1, <3>1, <3>5, <4>1, <4>3, <1>0 DEF Given, ReadChunk
      <4> QED
        BY Zenon, <1>5, <3>3, <4>1, <4>2, <4>4
    <3>10. Given(x)'
      BY Zenon, <3>7, <3>8, <3>9 DEF Given
    <3> QED
      BY SMTT(30), <2>3, <3>4, <3>10, DeleteAfter
  <2> QED
    BY Zenon, <2>6, <2>7
<1> QED
  BY Zenon, <1>7, <1>8, <1>9, <1>10, Combined

(* A deletion or the collector removes the file.                           *)
LEMMA UnlinkStep ==
  ASSUME Counting, ChunkInv, NEW t \in ChunkCalls, NEW ok \in BOOLEAN, Unlink(t, ok)
  PROVE  ChunkInv'
<1>x. PICK x \in Chunks : x = call[t].chunk
  BY Zenon, CallFacts
<1>r. PICK r \in Nat : r = call[t].rec
  BY Zenon, CallFacts
<1> DEFINE n == IF ok THEN [call[t] EXCEPT !.pc = "drop"] ELSE NoCall
<1>0. /\ ChunkType /\ OneLocked /\ call[t] \in CallStates /\ call[t].op \in {"delete", "gc"} /\ call[t].pc = "unlink"
      /\ r # NoRecord /\ r \in ChunkRecords /\ r <= allocatedChunks /\ CallShape(call[t])
  BY Zenon, <1>x, <1>r, CallFacts DEF Unlink, CallShape, Critical, Writes, CallStates
<1>1. /\ file' = IF ok THEN [file EXCEPT ![x] = "none"] ELSE file
      /\ suspect' = IF ~ok /\ call[t].op = "gc" THEN suspect \cup {x} ELSE suspect
      /\ UNCHANGED <<record, refCount, compressed, allocatedChunks, holders>>
  BY Zenon, <1>x, <1>r DEF Unlink
<1>2. call' = [call EXCEPT ![t] = n]
  BY Zenon DEF Unlink
<1>3. /\ n \in CallStates /\ CallShape(n) /\ n.rec \in {NoRecord, r} /\ (n.op # "none" => n.chunk = x)
      /\ ok => n.op = call[t].op /\ n.pc = "drop" /\ n.rec = r /\ n.chunk = x
      /\ ~ok => n = NoCall
  BY Zenon, <1>x, <1>r, <1>0, IdleCall DEF CallStates, ChunkPCs, CallShape, Writes, Critical
<1> HIDE DEF n
<1>4. call'[t] = n /\ \A u \in ChunkCalls \ {t} : call'[u] = call[u]
  BY Zenon, <1>0, <1>2 DEF ChunkType
<1>5. file'[x] = (IF ok THEN "none" ELSE file[x]) /\ \A c \in Chunks \ {x} : file'[c] = file[c]
  BY Zenon, <1>0, <1>1 DEF ChunkType
<1>6. file' \in [Chunks -> Files]
  BY Zenon, <1>0, <1>1 DEF ChunkType, Files
<1>7. ChunkType'
  BY SMTT(30), <1>0, <1>1, <1>2, <1>3, <1>6 DEF ChunkType, NoRecord
<1>8. StepOn(t, x)
  BY SMTT(30), <1>x, <1>r, <1>0, <1>1, <1>3, <1>4, <1>5 DEF StepOn, ChunkType
<1>9. OneLocked'
  BY Zenon, <1>0, <1>4 DEF OneLocked, Critical
<1>10. ASSUME x \notin suspect' PROVE Accounted(x)'
  <2>1. \A u \in ChunkCalls : On(u, x)' => On(u, x) /\ (u # t => call'[u] = call[u])
    BY Zenon, <1>x, <1>r, <1>0, <1>3, <1>4 DEF On
  <2>2. t \notin Owing(x) /\ t \notin Owing(x)' /\ x \notin suspect
    BY Zenon, <1>0, <1>1, <1>3, <1>4, <1>10, IdleCall DEF Owing
  <2>3. Unwritten(x) /\ On(t, x) /\ Owed(x) = 0 /\ Given(x)
    BY ZenonT(60), <1>x, <1>r, <1>0, <2>2, DeleterFacts
  <2>4. Unwritten(x)'
    BY Zenon, <1>0, <1>3, <1>4, <2>1, <2>3, IdleCall DEF Unwritten, Writes
  <2>5. \A u \in ChunkCalls \ {t} : call[u].pc \notin Critical
    BY Zenon, <1>0 DEF OneLocked, Critical
  <2>6. Owed(x)' = 0
    BY Zenon, <1>1, <1>4, <2>2, <2>3, OwingSame DEF Owed
  <2>7. CASE ok
    <3>1. /\ On(t, x)' /\ call'[t].pc = "drop" /\ call'[t].op = call[t].op
          /\ call'[t].rec = call[t].rec /\ file'[x] = "none"
      BY Zenon, <1>x, <1>r, <1>3, <1>4, <1>5, <2>3, <2>7 DEF On
    <3>2. ASSUME NEW u \in ChunkCalls, On(u, x)' PROVE Spent(u, x)'
      <4>1. Spent(u, x) /\ call'[u].rec = call[u].rec /\ call'[u].pc # "store"
        BY ZenonT(60), <2>1, <2>3, <2>5, <3>1, <3>2 DEF Given, Critical
      <4> QED
        BY Zenon, <1>1, <3>1, <4>1 DEF Spent
    <3>3. record'[x] # NoRecord => refCount'[record'[x]] <= 0
      BY ZenonT(60), <1>1, <2>3 DEF Given
    <3>4. (\A u \in ChunkCalls : On(u, x)' /\ call'[u].op = "gc" => call'[u].pc \notin {"unlink", "drop"}) /\ record'[x] # NoRecord
            => refCount'[record'[x]] = 0
      BY Zenon, <1>0, <1>1, <2>3, <2>5, <3>1 DEF Given, Critical
    <3>5. Given(x)'
      BY Zenon, <3>1, <3>2, <3>3, <3>4 DEF Given
    <3> QED
      BY SMTT(30), <2>4, <2>6, <3>5, DeleteAfter
  <2>8. CASE ~ok
    <3>1. call[t].op = "delete" /\ ~On(t, x)' /\ file'[x] = file[x]
      BY Zenon, <1>0, <1>1, <1>3, <1>4, <1>5, <1>10, <2>8, IdleCall DEF On
    <3>2. \A u \in ChunkCalls : On(u, x)' => On(u, x) /\ u # t /\ call'[u] = call[u] /\ call[u].pc \notin Critical
      BY Zenon, <2>1, <2>5, <3>1
    <3>3. \A u \in ChunkCalls : On(u, x) => call[u].pc # "drop" /\ (call[u].op = "gc" => call[u].pc \notin {"unlink", "drop"})
      BY ZenonT(60), <1>0, <2>5, <3>1 DEF Critical
    <3>4. record[x] # NoRecord => ReadChunk(x) /\ refCount[record[x]] = 0
      BY Zenon, <2>3, <3>3 DEF Given
    <3>5. record'[x] # NoRecord => ReadChunk(x)' /\ refCount'[record'[x]] = 0
      BY ZenonT(60), <1>1, <3>1, <3>4 DEF ReadChunk
    <3>6. ASSUME NEW u \in ChunkCalls, On(u, x)' PROVE Spent(u, x)'
      BY ZenonT(60), <1>1, <2>3, <3>2, <3>6 DEF Given, Spent, Critical
    <3>7. record'[x] = NoRecord => file'[x] = "none"
      BY Zenon, <1>1, <2>3, <3>1 DEF Given
    <3>8. Given(x)'
      BY <3>5, <3>6, <3>7 DEF Given
    <3> QED
      BY SMTT(30), <2>4, <2>6, <3>8, DeleteAfter
  <2> QED
    BY Zenon, <2>7, <2>8
<1> QED
  BY Zenon, <1>7, <1>8, <1>9, <1>10, Combined

(* A deletion or the collector takes the record out of the map.            *)
LEMMA DropRecordStep ==
  ASSUME Counting, ChunkInv, NEW t \in ChunkCalls, DropRecord(t)
  PROVE  ChunkInv'
<1>x. PICK x \in Chunks : x = call[t].chunk
  BY Zenon, CallFacts
<1>0. /\ ChunkType /\ OneLocked /\ call[t] \in CallStates /\ call[t].op \in {"delete", "gc"} /\ call[t].pc = "drop"
      /\ CallShape(call[t]) /\ call[t].rec # NoRecord
  BY Zenon, CallFacts DEF DropRecord, CallShape, Critical, Writes, CallStates
<1>1. /\ record' = [record EXCEPT ![x] = NoRecord] /\ call' = [call EXCEPT ![t] = NoCall]
      /\ UNCHANGED <<refCount, compressed, allocatedChunks, file, holders, suspect>>
  BY Zenon, <1>x DEF DropRecord
<1>2. call'[t] = NoCall /\ \A u \in ChunkCalls \ {t} : call'[u] = call[u]
  BY Zenon, <1>0, <1>1 DEF ChunkType
<1>3. record'[x] = NoRecord /\ \A c \in Chunks \ {x} : record'[c] = record[c]
  BY Zenon, <1>0, <1>1 DEF ChunkType
<1>4. ChunkType'
  BY <1>0, <1>1, IdleCall DEF ChunkType, NoRecord
<1>5. StepOn(t, x)
  BY SMTT(30), <1>x, <1>0, <1>1, <1>2, <1>3, IdleCall DEF StepOn, ChunkType
<1>6. OneLocked'
  BY Zenon, <1>0, <1>2, IdleCall DEF OneLocked, Critical
<1>7. ASSUME x \notin suspect' PROVE Accounted(x)'
  <2>1. \A u \in ChunkCalls : On(u, x)' => On(u, x) /\ u # t /\ call'[u] = call[u]
    BY Zenon, <1>2, IdleCall DEF On
  <2>2. t \notin Owing(x) /\ t \notin Owing(x)' /\ x \notin suspect
    BY Zenon, <1>0, <1>1, <1>2, <1>7, IdleCall DEF Owing
  <2>3. Unwritten(x) /\ On(t, x) /\ Owed(x) = 0 /\ Given(x)
    BY Zenon, <1>x, <1>0, <2>2, DeleterFacts
  <2>4. Unwritten(x)'
    BY Zenon, <2>1, <2>3 DEF Unwritten
  <2>5. Owed(x)' = 0
    BY Zenon, <1>1, <1>2, <2>2, <2>3, OwingSame DEF Owed
  <2>6. file[x] = "none"
    BY ZenonT(60), <1>0, <2>3 DEF Given, Spent
  <2>7. Given(x)'
    BY ZenonT(60), <1>1, <1>3, <2>1, <2>3, <2>6 DEF Given, Spent
  <2> QED
    BY SMTT(30), <2>4, <2>5, <2>7, DeleteAfter
<1> QED
  BY Zenon, <1>4, <1>5, <1>6, <1>7, Combined

-----------------------------------------------------------------------------
(* A restart: of the chunks that no call works on, the record read back has*)
(* the one reference that there is.                                        *)
LEMMA RestartStoreStep ==
  ASSUME Counting, Loading, ChunkInv, RestartStore
  PROVE  ChunkInv'
<1>0. ChunkType
  BY Zenon DEF ChunkInv
<1>1. /\ record' = [c \in Chunks |-> IF file[c] = "none" THEN NoRecord ELSE loadedRecord[c]]
      /\ refCount' = [r \in ChunkRecords |-> IF \E c \in Chunks : record'[c] = r THEN 1 ELSE 0]
      /\ compressed' = [r \in ChunkRecords |-> FALSE]
      /\ allocatedChunks' = Cardinality(Chunks) /\ file' = file /\ holders' = holders
      /\ suspect' = suspect \cup {c \in Chunks : Suspect(c)}
  BY Zenon DEF RestartStore
<1>2. \A t \in ChunkCalls : call'[t] = NoCall
  BY Zenon DEF RestartStore
<1> USE DEF Loading
<1>3. \A c \in Chunks : /\ loadedRecord[c] \in Nat /\ loadedRecord[c] <= Cardinality(Chunks)
                        /\ loadedRecord[c] # NoRecord /\ loadedRecord[c] \in ChunkRecords
  BY ChunkAssumption DEF NoRecord, ChunkRecords
<1>4. ChunkType'
  <2>1. record' \in [Chunks -> Nat] /\ \A c \in Chunks : record'[c] <= allocatedChunks'
    BY <1>1, <1>3 DEF NoRecord
  <2>2. refCount' \in [ChunkRecords -> Int] /\ compressed' \in [ChunkRecords -> BOOLEAN]
    BY <1>1
  <2>3. call' \in [ChunkCalls -> CallStates]
    BY Zenon, IdleCall DEF RestartStore
  <2>4. \A t \in ChunkCalls : CallShape(call'[t]) /\ call'[t].rec <= allocatedChunks'
    BY <1>1, <1>2, IdleCall DEF NoRecord
  <2>5. allocatedChunks' \in Nat /\ allocatedChunks' <= MaxChunkRecords
    BY Zenon, <1>1, ChunkAssumption
  <2> QED
    BY Zenon, <1>0, <1>1, <2>1, <2>2, <2>3, <2>4, <2>5 DEF ChunkType
<1>5. Owned' /\ OneLocked'
  BY Zenon, <1>1, <1>2, IdleCall DEF Owned, OneLocked, Critical
<1>6. ASSUME NEW c \in Chunks, c \notin suspect' PROVE Accounted(c)'
  <2>1. c \notin suspect /\ CallsOn(c) = {} /\ file[c] # "gzip" /\ (file[c] = "none" \/ holders[c] = 1)
    BY Zenon, <1>1, <1>6 DEF Suspect
  <2>2. \A u \in ChunkCalls : ~On(u, c) /\ ~On(u, c)'
    BY Zenon, <1>2, <2>1, IdleCall DEF On, CallsOn
  <2>3. AtRest(c) /\ holders[c] \in Nat
    BY Zenon, <1>0, <2>1, <2>2, RestBefore DEF ChunkType
  <2>4. CASE file[c] = "none"
    <3>1. record'[c] = NoRecord /\ ~ReadChunk(c) /\ file'[c] = "none"
      BY Zenon, <1>1, <2>4 DEF ReadChunk
    <3>2. holders'[c] = 0
      BY <1>1, <2>3, <3>1 DEF AtRest
    <3> QED
      BY <1>4, <2>2, <3>1, <3>2, RestAfter DEF AtRest
  <2>5. CASE file[c] # "none"
    <3>1. holders[c] = 1 /\ ReadChunk(c)
      BY <2>1, <2>3, <2>5 DEF AtRest
    <3>2. file'[c] = "plain" /\ holders'[c] = 1
      BY Zenon, <1>1, <2>1, <3>1 DEF ReadChunk
    <3>3. record'[c] = loadedRecord[c] /\ record'[c] \in ChunkRecords /\ record'[c] # NoRecord
      BY Zenon, <1>1, <1>3, <2>5
    <3>4. refCount'[record'[c]] = 1 /\ compressed'[record'[c]] = FALSE
      BY Zenon, <1>1, <3>3
    <3>5. AtRest(c)'
      BY Zenon, <3>2, <3>3, <3>4 DEF AtRest, ReadChunk
    <3> QED
      BY Zenon, <1>4, <2>2, <3>5, RestAfter
  <2> QED
    BY Zenon, <2>4, <2>5
<1> QED
  BY Zenon, <1>4, <1>5, <1>6 DEF ChunkInv

(* Every step keeps the invariant.                                         *)
LEMMA ChunkStep ==
  ASSUME Counting, Loading, ChunkInv, [ChunkNext]_chunkVars
  PROVE  ChunkInv'
<1>1. CASE RestartStore
  BY Zenon, <1>1, RestartStoreStep
<1>2. ASSUME NEW t \in ChunkCalls, WriteStep(t) PROVE ChunkInv'
  BY Zenon, <1>2, LookupForWrite, DedupReadStep, DedupStoreStep, OpenFileStep, FillFileStep,
     InsertRecordStep
  DEF WriteStep, Writes
<1>3. ASSUME NEW t \in ChunkCalls, DeleteStep(t) PROVE ChunkInv'
  BY Zenon, <1>3, LookupForDelete, GarbageCollectStep, CollectChunkStep, LockChunkStep,
     CountDownStep,
     UnlinkStep,
     DropRecordStep
  DEF DeleteStep
<1>4. CASE UNCHANGED chunkVars
  <2>1. ChunkType' /\ Owned' /\ OneLocked'
    BY Zenon, <1>4 DEF chunkVars, ChunkInv, ChunkType, Owned, OneLocked
  <2>2. ASSUME NEW c \in Chunks, c \notin suspect' PROVE Accounted(c)'
    <3>1. Accounted(c)
      BY Zenon, <1>4, <2>2 DEF ChunkInv, chunkVars
    <3> QED
      BY ZenonT(60), <1>4, <3>1 DEF chunkVars, Accounted, Alone, Unwritten, On, WriterAt, Owed,
         Owing, Held, Given, Spent,
         ReadChunk
  <2> QED
    BY Zenon, <2>1, <2>2 DEF ChunkInv
<1> QED
  BY Zenon, <1>1, <1>2, <1>3, <1>4 DEF ChunkNext

-----------------------------------------------------------------------------
INSTANCE FiniteSetTheorems

(* Sets of calls are finite, and counted one at a time.                    *)
LEMMA CallsCounted == Counting
<1> SUFFICES ASSUME NEW S \in SUBSET ChunkCalls
             PROVE  /\ Cardinality(S) \in Nat /\ (S = {} <=> Cardinality(S) = 0)
                    /\ \A t \in ChunkCalls \ S : Cardinality(S \cup {t}) = Cardinality(S) + 1
  BY Zenon DEF Counting
<1>1. IsFiniteSet(S)
  BY Zenon, ChunkAssumption, FS_Subset
<1> QED
  BY Zenon, <1>1, FS_CardinalityType, FS_EmptySet, FS_AddElement

(* loadChunks gives the files records of their own.                        *)
LEMMA LoadedRecords == Loading
<1>1. IsFiniteSet(Chunks) /\ Cardinality(Chunks) \in Nat
  BY Zenon, ChunkAssumption, FS_CardinalityType
<1>2. IsFiniteSet(1..Cardinality(Chunks)) /\ Cardinality(1..Cardinality(Chunks)) = Cardinality(Chunks)
  BY <1>1, FS_Interval
<1>3. ExistsBijection(Chunks, 1..Cardinality(Chunks))
  BY Zenon, <1>1, <1>2, FS_SameCardinalityBij
<1>4. \E f \in [Chunks -> 1..Cardinality(Chunks)] : \A c, d \in Chunks : f[c] = f[d] => c = d
  <2>1. PICK f : f \in Injection(Chunks, 1..Cardinality(Chunks))
    BY Zenon, <1>3 DEF ExistsBijection, Bijection
  <2> QED
    BY Zenon, <2>1 DEF Injection, IsInjective
<1>5. /\ loadedRecord \in [Chunks -> 1..Cardinality(Chunks)]
      /\ \A c, d \in Chunks : loadedRecord[c] = loadedRecord[d] => c = d
  BY Zenon, <1>4 DEF loadedRecord
<1> QED
  BY Zenon, <1>1, <1>5 DEF Loading

(* The chunk store loses no chunk that a content refers to and keeps none  *)
(* that no content refers to (chunk.go: WriteChunk, WriteChunkStream,      *)
(* DeleteChunk, GarbageCollect and loadChunks), for any number of callers, *)
(* chunks and restarts, except for the chunks that met one of the events   *)
(* listed at Suspect.                                                      *)
THEOREM ChunksStayAccounted == ChunkSpec => []ChunksAccounted
<1>1. ChunkInit => ChunkInv
  BY Zenon, CallsCounted, ChunkInitInv
<1>2. ChunkInv /\ [ChunkNext]_chunkVars => ChunkInv'
  BY Zenon, CallsCounted, LoadedRecords, ChunkStep
<1>3. ChunkInv => ChunksAccounted
  <2> SUFFICES ASSUME ChunkInv, NEW c \in Chunks \ suspect, CallsOn(c) = {}
               PROVE  IF holders[c] > 0 THEN ReadChunk(c) /\ refCount[record[c]] = holders[c]
                      ELSE IF record[c] = NoRecord THEN file[c] = "none" ELSE refCount[record[c]] <= 0
    BY Zenon DEF ChunksAccounted
  <2>1. \A u \in ChunkCalls : ~On(u, c)
    BY Zenon DEF CallsOn, On
  <2>2. AtRest(c) /\ holders[c] \in Nat
    BY Zenon, <2>1, CallsCounted, RestBefore DEF ChunkInv, ChunkType
  <2> QED
    BY <2>2 DEF AtRest
<1> QED
  BY <1>1, <1>2, <1>3, PTL DEF ChunkSpec
=============================================================================
