----------------------------- MODULE ObjectStore -----------------------------
(***************************************************************************)
(* The objects of one bucket on a storage node: ObjectStore (store.go),    *)
(* the metadata cache (metadata.go, one process), the content engine       *)
(* (content.go) and the cold-data manager with its erasure coder           *)
(* (cold_data.go, erasure.go), run by concurrent calls.                    *)
(*                                                                         *)
(* The metadata maps hold pointers.  Every operation on an object starts   *)
(* with metadata GetObject, which loads the pointer, sets its access time  *)
(* and stores it back with no lock held, and several operations change the *)
(* object through the pointer afterwards; objects are therefore a heap.    *)
(* Content is a sequence of blocks, one chunk each, named by the block; a  *)
(* shard of the erasure coder is a chunk of its own.  The chunk store is   *)
(* its reference counts: a chunk exists while its count is positive        *)
(* (ChunkStore models how calls on one chunk race below this level), and a *)
(* failed StoreContent, which removes what it wrote, changes nothing.      *)
(***************************************************************************)
EXTENDS Integers, Sequences, FiniteSets, Bags, SequencesExt, FiniteSetsExt, TLC

CONSTANTS
  StoreCalls,      \* concurrent calls
  Keys,            \* object keys
  Contents,        \* the contents that calls bring: sequences of blocks
  PartNumbers,     \* part numbers that UploadPart calls use
  UploadKey,       \* the key of the multipart upload
  Quota,           \* bucket.QuotaBytes, in blocks; 0 is no quota
  DataShards, ParityShards,
  MaxStored,       \* bound: objects allocated in a behaviour
  MaxCopies        \* bound: chunk references in the chunk store

ASSUME StoreAssumption ==
  /\ UploadKey \in Keys /\ Quota \in Nat /\ MaxStored \in Nat
  /\ DataShards \in Nat \ {0} /\ ParityShards \in Nat \ {0}

NoObj == 0
ObjIds == 1..MaxStored

VARIABLES
  object,      \* [ObjIds -> record]: the *Object structs
  stored,      \* how many of them exist
  current,     \* ms.objects: [Keys -> ObjIds or NoObj]
  bucket,      \* ms.buckets: [exists, used]
  refs,        \* the chunk store: a bag of chunk IDs
  upload,      \* the multipart upload: [open, parts, total]
  freeing,     \* the goroutines that delete content: a sequence of [obj, chunks]
  storeCall,   \* [StoreCalls -> what each call is doing]
  raftFailed,  \* history: a metadata write failed in RAFT
  quotaFailed, \* history: a metadata write was refused for the quota
  staleUse     \* history: see NoteStale

metaVars == <<object, stored, current, bucket>>
storeHist == <<raftFailed, quotaFailed, staleUse>>
storeVars == <<metaVars, refs, upload, freeing, storeCall, storeHist>>

NoStoreCall == [op |-> "none", pc |-> "none", key |-> UploadKey, obj |-> NoObj, content |-> <<>>, chunks |-> <<>>]
ClosedUpload == [open |-> FALSE, parts |-> [n \in {} |-> <<>>], total |-> 0]

StoreInit ==
  /\ object = [o \in ObjIds |-> [content |-> <<>>, chunks |-> <<>>, size |-> 0, ec |-> FALSE, cold |-> FALSE]]
  /\ stored = 0
  /\ current = [k \in Keys |-> NoObj]
  /\ bucket = [exists |-> FALSE, used |-> 0]
  /\ refs = EmptyBag
  /\ upload = ClosedUpload
  /\ freeing = <<>>
  /\ storeCall = [t \in StoreCalls |-> NoStoreCall]
  /\ raftFailed = FALSE /\ quotaFailed = FALSE /\ staleUse = FALSE

InCall(t, op, pc) == storeCall[t].op = op /\ storeCall[t].pc = pc
ToStep(t, pc) == storeCall' = [storeCall EXCEPT ![t].pc = pc]
EndCall(t) == storeCall' = [storeCall EXCEPT ![t] = NoStoreCall]

StoreContent(content) ==
  /\ BagCardinality(refs) + Len(content) <= MaxCopies
  /\ refs' = refs (+) ToBag(content)
DeleteContent(chunks) == refs' = refs (-) ToBag(chunks)
HasContent(chunks) == \A c \in ToSet(chunks) : BagIn(c, refs)

(* Encode splits the content into data shards and adds the parity shards.  *)
EncodeShards(content) == [i \in 1..(DataShards + ParityShards) |-> <<content, i>>]
CanReconstruct(available) == available >= DataShards

(* GetObject and DecodeFromEC return the content.                          *)
Readable(o) ==
  IF object[o].ec
    THEN CanReconstruct(Cardinality({i \in DOMAIN object[o].chunks : BagIn(object[o].chunks[i], refs)}))
    ELSE HasContent(object[o].chunks) /\ object[o].chunks = object[o].content

(* The upload once it has left the map: calls that looked it up before may *)
(* still lock it.                                                          *)
LeaveMap(t) ==
  IF \E u \in StoreCalls \ {t} : storeCall[u].pc = "lock" THEN [upload EXCEPT !.open = FALSE] ELSE ClosedUpload

(* A call acts on an object or an upload that is no longer the one it      *)
(* looked up, or loses the shards it has just made the object's content.   *)
NoteStale(condition) == staleUse' = (staleUse \/ condition)

WithinQuota(used) == Quota = 0 \/ used <= Quota
OldSize(k) == IF current[k] = NoObj THEN 0 ELSE object[current[k]].size
UsedAfter(k, size) == bucket.used - OldSize(k) + size

(* metadata PutObject, under ms.mu: the usage is changed through the bucket*)
(* pointer before the quota check and the RAFT write, and stays changed    *)
(* when either fails.                                                      *)
MetaPutSucceeds(k, size, raft) == bucket.exists /\ WithinQuota(UsedAfter(k, size)) /\ raft

(* Mutant of MetaPut: the size of the object replaced is not given back.   *)
MetaPutNoCredit(o, k, size, raft) ==
  /\ bucket' = IF bucket.exists THEN [bucket EXCEPT !.used = @ + size] ELSE bucket
  /\ current' = IF MetaPutSucceeds(k, size, raft) THEN [current EXCEPT ![k] = o] ELSE current
  /\ quotaFailed' = (quotaFailed \/ (bucket.exists /\ ~WithinQuota(UsedAfter(k, size))))
  /\ raftFailed' = (raftFailed \/ (bucket.exists /\ WithinQuota(UsedAfter(k, size)) /\ ~raft))

MetaPut(o, k, size, raft) ==
  /\ bucket' = IF bucket.exists THEN [bucket EXCEPT !.used = UsedAfter(k, size)] ELSE bucket
  /\ current' = IF MetaPutSucceeds(k, size, raft) THEN [current EXCEPT ![k] = o] ELSE current
  /\ quotaFailed' = (quotaFailed \/ (bucket.exists /\ ~WithinQuota(UsedAfter(k, size))))
  /\ raftFailed' = (raftFailed \/ (bucket.exists /\ WithinQuota(UsedAfter(k, size)) /\ ~raft))

NewObject(content, chunks, size) ==
  /\ stored < MaxStored
  /\ stored' = stored + 1
  /\ object' = [object EXCEPT ![stored'] =
       [content |-> content, chunks |-> chunks, size |-> size, ec |-> FALSE, cold |-> FALSE]]

-----------------------------------------------------------------------------
CreateBucket ==
  /\ ~bucket.exists
  /\ bucket' = [exists |-> TRUE, used |-> 0]
  /\ UNCHANGED <<object, stored, current, refs, upload, freeing, storeCall, storeHist>>

DeleteBucket ==
  /\ bucket.exists /\ \A k \in Keys : current[k] = NoObj
  /\ bucket' = [exists |-> FALSE, used |-> 0]
  /\ UNCHANGED <<object, stored, current, refs, upload, freeing, storeCall, storeHist>>

(* PutObject checks the quota, without the size of the object it replaces, *)
(* before it stores the content; PutObjectStream after.                    *)
PutObject(t, k, content) ==
  /\ storeCall[t].op = "none" /\ bucket.exists
  /\ WithinQuota(bucket.used + Len(content))
  /\ StoreContent(content)
  /\ storeCall' = [storeCall EXCEPT ![t] =
       [op |-> "put", pc |-> "commit", key |-> k, obj |-> NoObj, content |-> content, chunks |-> content]]
  /\ UNCHANGED <<metaVars, upload, freeing, storeHist>>

PutObjectStream(t, k, content) ==
  /\ storeCall[t].op = "none" /\ bucket.exists
  /\ StoreContent(content)
  /\ storeCall' = [storeCall EXCEPT ![t] =
       [op |-> "put", pc |-> "size", key |-> k, obj |-> NoObj, content |-> content, chunks |-> content]]
  /\ UNCHANGED <<metaVars, upload, freeing, storeHist>>

StreamQuota(t) ==
  /\ InCall(t, "put", "size")
  /\ IF WithinQuota(bucket.used + Len(storeCall[t].content))
       THEN ToStep(t, "commit") /\ refs' = refs
       ELSE EndCall(t) /\ DeleteContent(storeCall[t].chunks)
  /\ UNCHANGED <<metaVars, upload, freeing, storeHist>>

(* Mutant of PutFailed: the content is given up once for the replication   *)
(* and once for the metadata.                                              *)
PutFailedTwice(t) ==
  /\ refs' = (refs (-) ToBag(storeCall[t].chunks)) (-) ToBag(storeCall[t].chunks)
  /\ UNCHANGED <<object, stored>>

PutFailed(t) == DeleteContent(storeCall[t].chunks) /\ UNCHANGED <<object, stored>>

(* replicateChunks, then the metadata.  The object replaced keeps its      *)
(* chunks: nothing deletes them.                                           *)
PutCommit(t, replicated, raft) ==
  /\ InCall(t, "put", "commit") /\ stored < MaxStored
  /\ LET c == storeCall[t]
         size == Len(c.content) IN
       IF replicated
         THEN /\ MetaPut(stored + 1, c.key, size, raft)
              /\ IF MetaPutSucceeds(c.key, size, raft)
                   THEN NewObject(c.content, c.chunks, size) /\ refs' = refs
                   ELSE PutFailed(t)
         ELSE PutFailed(t) /\ UNCHANGED <<current, bucket, raftFailed, quotaFailed>>
  /\ EndCall(t)
  /\ UNCHANGED <<upload, freeing, staleUse>>

-----------------------------------------------------------------------------
(* metadata GetObject loads the pointer for a read, a delete, a transition *)
(* to the cold class or an erasure coding ...                              *)
LoadObject(t, k, op) ==
  /\ storeCall[t].op = "none" /\ current[k] # NoObj
  /\ storeCall' = [storeCall EXCEPT ![t] =
       [op |-> op, pc |-> "touch", key |-> k, obj |-> current[k], content |-> <<>>, chunks |-> <<>>]]
  /\ UNCHANGED <<metaVars, refs, upload, freeing, storeHist>>

(* ... and stores it back under the key.                                   *)
TouchObject(t) ==
  /\ storeCall[t].pc = "touch"
  /\ current' = [current EXCEPT ![storeCall[t].key] = storeCall[t].obj]
  /\ NoteStale(current[storeCall[t].key] # storeCall[t].obj)
  /\ IF storeCall[t].op = "get" THEN EndCall(t) ELSE ToStep(t, "act")
  /\ UNCHANGED <<object, stored, bucket, refs, upload, freeing, raftFailed, quotaFailed>>

(* DeleteObject: the metadata, whatever object it names by now, and then,  *)
(* in a goroutine, the chunks of the object it looked up.                  *)
DeleteObject(t, raft) ==
  /\ InCall(t, "delete", "act")
  /\ LET k == storeCall[t].key IN
       IF current[k] # NoObj /\ raft
         THEN /\ current' = [current EXCEPT ![k] = NoObj]
              /\ bucket' = IF bucket.exists THEN [bucket EXCEPT !.used = @ - object[current[k]].size] ELSE bucket
              /\ freeing' = Append(freeing, [obj |-> storeCall[t].obj, chunks |-> <<>>])
              /\ NoteStale(current[k] # storeCall[t].obj)
         ELSE UNCHANGED <<current, bucket, freeing, staleUse>>
  /\ EndCall(t)
  /\ UNCHANGED <<object, stored, refs, upload, raftFailed, quotaFailed>>

(* A goroutine of DeleteObject or AbortMultipartUpload; the chunk IDs of an*)
(* object are read when it runs.                                           *)
FreeContent(i) ==
  /\ DeleteContent(IF freeing[i].obj = NoObj THEN freeing[i].chunks ELSE object[freeing[i].obj].chunks)
  /\ freeing' = RemoveAt(freeing, i)
  /\ UNCHANGED <<metaVars, upload, storeCall, storeHist>>

-----------------------------------------------------------------------------
(* TransitionToCold changes the object it looked up and puts it again.     *)
TransitionToCold(t, raft) ==
  /\ InCall(t, "cold", "act")
  /\ LET c == storeCall[t] IN
       IF object[c.obj].cold
         THEN UNCHANGED <<object, current, bucket, storeHist>>
         ELSE /\ object' = [object EXCEPT ![c.obj].cold = TRUE]
              /\ MetaPut(c.obj, c.key, object[c.obj].size, raft)
              /\ NoteStale(current[c.key] # c.obj)
  /\ EndCall(t)
  /\ UNCHANGED <<stored, refs, upload, freeing>>

(* EncodeWithEC: an object that is coded already, or cannot be read, is    *)
(* left alone; otherwise its shards are written.                           *)
EncodeWithEC(t) ==
  /\ InCall(t, "encode", "act")
  /\ LET o == storeCall[t].obj IN
       IF object[o].ec \/ ~HasContent(object[o].chunks)
         THEN EndCall(t) /\ refs' = refs
         ELSE /\ StoreContent(EncodeShards(object[o].content))
              /\ storeCall' = [storeCall EXCEPT ![t].pc = "shards", ![t].chunks = EncodeShards(object[o].content)]
  /\ UNCHANGED <<metaVars, upload, freeing, storeHist>>

(* The object points to the shards before its metadata is saved; when that *)
(* fails the shards are removed and the object still points to them.       *)
EncodeCommit(t, raft) ==
  /\ InCall(t, "encode", "shards")
  /\ LET c == storeCall[t]
         size == object[c.obj].size IN
       /\ object' = [object EXCEPT ![c.obj].ec = TRUE, ![c.obj].chunks = c.chunks]
       /\ MetaPut(c.obj, c.key, size, raft)
       /\ IF MetaPutSucceeds(c.key, size, raft) THEN refs' = refs ELSE DeleteContent(c.chunks)
       /\ NoteStale(current[c.key] # c.obj \/ ~MetaPutSucceeds(c.key, size, raft))
  /\ EndCall(t)
  /\ UNCHANGED <<stored, upload, freeing>>

-----------------------------------------------------------------------------
InitiateMultipartUpload ==
  /\ ~upload.open /\ bucket.exists
  /\ \A t \in StoreCalls : storeCall[t].op \notin {"part", "complete", "abort"}
  /\ upload' = [ClosedUpload EXCEPT !.open = TRUE]
  /\ UNCHANGED <<metaVars, refs, freeing, storeCall, storeHist>>

(* UploadPart, CompleteMultipartUpload and AbortMultipartUpload look the   *)
(* upload up before they wait for its lock.                                *)
LoadUpload(t, op) ==
  /\ storeCall[t].op = "none" /\ upload.open
  /\ storeCall' = [storeCall EXCEPT ![t] = [NoStoreCall EXCEPT !.op = op, !.pc = "lock"]]
  /\ UNCHANGED <<metaVars, refs, upload, freeing, storeHist>>

(* A part sent again replaces the part, not its chunks, and counts twice in*)
(* the total.                                                              *)
UploadPart(t, n, content, replicated) ==
  /\ InCall(t, "part", "lock")
  /\ IF replicated
       THEN /\ StoreContent(content)
            /\ upload' = [upload EXCEPT !.parts = (n :> content) @@ @, !.total = @ + Len(content)]
       ELSE UNCHANGED <<refs, upload>>
  /\ NoteStale(~upload.open /\ replicated)
  /\ EndCall(t)
  /\ UNCHANGED <<metaVars, freeing, raftFailed, quotaFailed>>

Assembled == FlattenSeq([i \in 1..Cardinality(DOMAIN upload.parts) |-> upload.parts[i]])

(* Every part 1..n must be there and readable; the object's size is the    *)
(* upload's total.                                                         *)
CompleteMultipartUpload(t, raft) ==
  /\ InCall(t, "complete", "lock") /\ stored < MaxStored
  /\ LET size == upload.total
         complete == DOMAIN upload.parts = 1..Cardinality(DOMAIN upload.parts)
       IN IF /\ bucket.exists /\ WithinQuota(bucket.used + size)
             /\ complete /\ \A n \in DOMAIN upload.parts : HasContent(upload.parts[n])
            THEN /\ MetaPut(stored + 1, UploadKey, size, raft)
                 /\ IF MetaPutSucceeds(UploadKey, size, raft)
                      THEN /\ NewObject(Assembled, Assembled, size)
                           /\ upload' = LeaveMap(t)
                           /\ NoteStale(~upload.open)
                      ELSE UNCHANGED <<object, stored, upload, staleUse>>
            ELSE UNCHANGED <<metaVars, upload, storeHist>>
  /\ EndCall(t)
  /\ UNCHANGED <<refs, freeing>>

AbortMultipartUpload(t) ==
  /\ InCall(t, "abort", "lock")
  /\ freeing' = freeing \o [i \in 1..Cardinality(DOMAIN upload.parts) |->
       [obj |-> NoObj, chunks |-> upload.parts[SetToSeq(DOMAIN upload.parts)[i]]]]
  /\ upload' = LeaveMap(t)
  /\ NoteStale(~upload.open)
  /\ EndCall(t)
  /\ UNCHANGED <<metaVars, refs, raftFailed, quotaFailed>>

-----------------------------------------------------------------------------
RaftOutcomes == {TRUE, raftFailed}  \* bound: one failed RAFT write of an object

ObjectStep(t) ==
  \/ \E k \in Keys, content \in Contents : PutObject(t, k, content) \/ PutObjectStream(t, k, content)
  \/ StreamQuota(t)
  \/ \E replicated \in BOOLEAN, raft \in RaftOutcomes : PutCommit(t, replicated, raft)
  \/ \E k \in Keys, op \in {"get", "delete", "cold", "encode"} : LoadObject(t, k, op)
  \/ TouchObject(t) \/ EncodeWithEC(t)
  \/ \E raft \in RaftOutcomes : DeleteObject(t, raft) \/ TransitionToCold(t, raft) \/ EncodeCommit(t, raft)

UploadStep(t) ==
  \/ \E op \in {"part", "complete", "abort"} : LoadUpload(t, op)
  \/ \E n \in PartNumbers, content \in Contents, replicated \in BOOLEAN : UploadPart(t, n, content, replicated)
  \/ \E raft \in RaftOutcomes : CompleteMultipartUpload(t, raft)
  \/ AbortMultipartUpload(t)

StoreNext ==
  \/ CreateBucket \/ DeleteBucket \/ InitiateMultipartUpload
  \/ \E i \in DOMAIN freeing : FreeContent(i)
  \/ \E t \in StoreCalls : ObjectStep(t) \/ UploadStep(t)

StoreSpec == StoreInit /\ [][StoreNext]_storeVars

-----------------------------------------------------------------------------
(* The chunk sequences that something still needs: the objects' content,   *)
(* the parts of an upload, what a call has stored and not yet handed over, *)
(* and what is about to be deleted.                                        *)
Holding ==
  {<<"key", k, object[current[k]].chunks>> : k \in {k \in Keys : current[k] # NoObj}}
    \cup (IF upload.open THEN {<<"part", n, upload.parts[n]>> : n \in DOMAIN upload.parts} ELSE {})
    \cup {<<"call", t, storeCall[t].chunks>> : t \in StoreCalls}
    \cup {<<"free", i, IF freeing[i].obj = NoObj THEN freeing[i].chunks
                       ELSE object[freeing[i].obj].chunks>> : i \in DOMAIN freeing}

(* An object that the metadata names can be read back, through its chunks  *)
(* or, when it is erasure coded, through enough of its shards; and every   *)
(* chunk is counted at least once for each place that refers to it, so     *)
(* that no deletion takes a chunk away from another object, upload or      *)
(* call.  Rollbacks, replacement, deduplication, multipart uploads and     *)
(* erasure coding keep this, as long as no call has acted on an object or  *)
(* an upload that changed after it was looked up.                          *)
ObjectsReadable ==
  ~staleUse =>
    /\ \A k \in Keys : current[k] # NoObj => Readable(current[k])
    /\ \A c \in UNION {ToSet(h[3]) : h \in Holding} :
         CopiesIn(c, refs) >= MapThenSumSet(LAMBDA h : Quantify(DOMAIN h[3], LAMBDA i : h[3][i] = c), Holding)

(* bucket.UsedBytes is the size of the bucket's objects; a put that the    *)
(* metadata refuses for the quota leaves it too high, never too low, and   *)
(* only a failed RAFT write can leave it too low.                          *)
UsageCovered ==
  LET total == MapThenSumSet(LAMBDA k : OldSize(k), Keys)
  IN bucket.exists /\ ~staleUse /\ ~raftFailed =>
       IF quotaFailed THEN bucket.used >= total ELSE bucket.used = total
=============================================================================
