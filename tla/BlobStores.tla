---------------------------- MODULE BlobStores ----------------------------
(***************************************************************************)
(* The blob stores below the atomic put, get and delete that Vfs assumes:  *)
(* LocalFSBlobStore writes a file in place, S3BlobStore uploads an object  *)
(* whole, and CachedBlobStore puts a disk cache in front of either.  One   *)
(* content hash: calls on different hashes share nothing but the cache's   *)
(* size limit, which is Evict.                                             *)
(***************************************************************************)
EXTENDS Naturals, FiniteSets

CONSTANTS
    Calls,           \* concurrent put, get and delete calls
    NoFile,          \* no directory entry, no cache entry, nothing read
    Chunks,          \* a content is written in chunks 1 .. Chunks
    Backends         \* which inner stores to consider: "local", "s3"

ASSUME ConstantsAssumption ==
    /\ NoFile \notin Calls
    /\ \A part \in SUBSET (1 .. Chunks) : NoFile # part
    /\ Chunks \in Nat \ {0}
    /\ Backends \subseteq {"local", "s3"}

VARIABLES
    backend,         \* the inner store, from blob_store_uri
    cached,          \* is it wrapped, from blob_cache_enabled
    kind,            \* what each call does
    pc,              \* where it is
    fd,              \* the file it has open: the call that created it
    got,             \* the chunks it has read
    entry,           \* the file the blob's path refers to
    data,            \* the chunks in each file, by the call that created it
    cache,           \* the chunks of the cache entry
    before           \* history variable: the calls that had ended when it began

vars == <<backend, cached, kind, pc, fd, got, entry, data, cache, before>>
config == <<backend, cached, kind>>

Content == 1 .. Chunks
Data == SUBSET Content
Kinds == {"put", "get", "delete"}
Ended == {"done", "notfound", "oserror", "crashed"}
Steps == {"call", "inner", "open", "write", "read", "fill", "drop"} \cup Ended

Init ==
    /\ backend \in Backends
    /\ cached \in BOOLEAN
    /\ kind \in [Calls -> Kinds]
    /\ pc = [c \in Calls |-> "call"]
    /\ fd = [c \in Calls |-> NoFile]
    /\ got = [c \in Calls |-> NoFile]
    /\ entry = NoFile
    /\ data = [c \in Calls |-> {}]
    /\ cache = NoFile
    /\ before = [c \in Calls |-> {}]

At(c, k, step) == kind[c] = k /\ pc[c] = step
Goto(c, step) == pc' = [pc EXCEPT ![c] = step]

(* A call that has finished with the inner store updates the cache.        *)
AfterInner(step) == IF cached THEN step ELSE "done"

EndedCalls == {c \in Calls : pc[c] \in Ended}

(* The call begins; a cached get looks the blob up first.                  *)
Begin(c) ==
    /\ pc[c] = "call"
    /\ before' = [before EXCEPT ![c] = EndedCalls]
    /\ IF kind[c] = "get" /\ cached /\ cache # NoFile
       THEN got' = [got EXCEPT ![c] = cache] /\ Goto(c, "done")
       ELSE Goto(c, "inner") /\ UNCHANGED got
    /\ UNCHANGED <<config, fd, entry, data, cache>>

----------------------------------------------------------------------------
(* put                                                                     *)

(* p.exists(), or head_object: an existing blob is not written again.      *)
Present == entry # NoFile

PutCheck(c) ==
    /\ At(c, "put", "inner")
    /\ Goto(c, IF Present THEN AfterInner("fill") ELSE "open")
    /\ UNCHANGED <<config, fd, got, entry, data, cache, before>>

(* Mutant: the object is there before its body is complete.                *)
UploadPart(c) ==
    /\ backend = "s3" /\ At(c, "put", "open")
    /\ entry' = c
    /\ data' = [data EXCEPT ![c] = {1}]
    /\ Goto(c, AfterInner("fill"))
    /\ UNCHANGED <<config, fd, got, cache, before>>

(* put_object: the whole object, under whatever is there by now.           *)
UploadObject(c) ==
    /\ backend = "s3" /\ At(c, "put", "open")
    /\ entry' = c
    /\ data' = [data EXCEPT ![c] = Content]
    /\ Goto(c, AfterInner("fill"))
    /\ UNCHANGED <<config, fd, got, cache, before>>

(* open(p, "wb") creates the file, or truncates the one that is there.     *)
OpenFile(c) ==
    LET f == IF entry = NoFile THEN c ELSE entry IN
    /\ backend = "local" /\ At(c, "put", "open")
    /\ entry' = f
    /\ data' = [data EXCEPT ![f] = {}]
    /\ fd' = [fd EXCEPT ![c] = f]
    /\ Goto(c, "write")
    /\ UNCHANGED <<config, got, cache, before>>

(* What the call has yet to write: got counts the chunks it has written.   *)
Position(c) == IF got[c] = NoFile THEN 0 ELSE Cardinality(got[c])

(* Mutant: the last chunk stays in the buffer, as without a close.         *)
WriteButLast(c) == Position(c) + 1 < Chunks

MoreToWrite(c) == Position(c) < Chunks

(* The next chunk goes to the position after the last one, whether or not  *)
(* the file has been truncated or unlinked meanwhile.                      *)
WriteChunk(c) ==
    /\ At(c, "put", "write")
    /\ MoreToWrite(c)
    /\ data' = [data EXCEPT ![fd[c]] = @ \cup {Position(c) + 1}]
    /\ got' = [got EXCEPT ![c] = 1 .. Position(c) + 1]
    /\ UNCHANGED <<config, pc, fd, entry, cache, before>>

CloseFile(c) ==
    /\ At(c, "put", "write")
    /\ ~MoreToWrite(c)
    /\ Goto(c, AfterInner("fill"))
    /\ UNCHANGED <<config, fd, got, entry, data, cache, before>>

----------------------------------------------------------------------------
(* get                                                                     *)

(* p.exists() and the NotFoundError after it; get_object in one request.   *)
GetCheck(c) ==
    /\ At(c, "get", "inner")
    /\ \/ entry = NoFile /\ Goto(c, "notfound") /\ UNCHANGED got
       \/ /\ entry # NoFile /\ backend = "local"
          /\ Goto(c, "open") /\ UNCHANGED got
       \/ /\ entry # NoFile /\ backend = "s3"
          /\ got' = [got EXCEPT ![c] = data[entry]]
          /\ Goto(c, AfterInner("fill"))
    /\ UNCHANGED <<config, fd, entry, data, cache, before>>

(* open(p, "rb"): FileNotFoundError if the blob was deleted since.         *)
OpenForRead(c) ==
    /\ At(c, "get", "open")
    /\ fd' = [fd EXCEPT ![c] = entry]
    /\ Goto(c, IF entry = NoFile THEN "oserror" ELSE "read")
    /\ UNCHANGED <<config, got, entry, data, cache, before>>

ReadFile(c) ==
    /\ At(c, "get", "read")
    /\ got' = [got EXCEPT ![c] = data[fd[c]]]
    /\ Goto(c, AfterInner("fill"))
    /\ UNCHANGED <<config, fd, entry, data, cache, before>>

----------------------------------------------------------------------------
(* delete, and the cache                                                   *)

(* unlink(missing_ok=True), or delete_object.                              *)
DeleteInner(c) ==
    /\ At(c, "delete", "inner")
    /\ entry' = NoFile
    /\ Goto(c, AfterInner("drop"))
    /\ UNCHANGED <<config, fd, got, data, cache, before>>

(* cache.set with the data of the put, or with what the get has read.      *)
FillCache(c) ==
    /\ pc[c] = "fill"
    /\ cache' = IF kind[c] = "put" THEN Content ELSE got[c]
    /\ Goto(c, "done")
    /\ UNCHANGED <<config, fd, got, entry, data, before>>

(* Mutant: delete leaves the cache entry to the eviction policy.           *)
DropNothing(c) ==
    /\ pc[c] = "drop"
    /\ Goto(c, "done")
    /\ UNCHANGED <<config, fd, got, entry, data, cache, before>>

DropCache(c) ==
    /\ pc[c] = "drop"
    /\ cache' = NoFile
    /\ Goto(c, "done")
    /\ UNCHANGED <<config, fd, got, entry, data, before>>

(* The LRU policy makes room for blobs of other hashes.                    *)
Evict ==
    /\ cache # NoFile
    /\ cache' = NoFile
    /\ UNCHANGED <<config, pc, fd, got, entry, data, before>>

(* The process, or the coroutine, is gone; files and cache stay.           *)
Crash(c) ==
    /\ pc[c] \notin Ended
    /\ Goto(c, "crashed")
    /\ UNCHANGED <<config, fd, got, entry, data, cache, before>>

Step(c) ==
    \/ Begin(c)
    \/ PutCheck(c) \/ UploadObject(c) \/ OpenFile(c) \/ WriteChunk(c) \/ CloseFile(c)
    \/ GetCheck(c) \/ OpenForRead(c) \/ ReadFile(c)
    \/ DeleteInner(c) \/ FillCache(c) \/ DropCache(c)

Next == Evict \/ \E c \in Calls : Step(c) \/ Crash(c)

Spec == Init /\ [][Next]_vars
----------------------------------------------------------------------------
(* Properties.                                                             *)

Puts == {c \in Calls : kind[c] = "put"}
Gets == {c \in Calls : kind[c] = "get"}
Deletes == {c \in Calls : kind[c] = "delete"}

(* Call d had ended before c began, or has not begun.                      *)
Apart(d, c) == d \in before[c] \/ pc[d] = "call"

(* The put that has returned and since whose beginning nobody deletes: the *)
(* sweep deletes only what no version refers to.                           *)
Standing(p) == At(p, "put", "done") /\ \A d \in Deletes : Apart(d, p)

(* A file that lacks some of its content is being written, or was being    *)
(* written by a call that died: concurrent puts that truncate each other's *)
(* file leave it whole in the end.                                         *)
TornMeansWriter ==
    entry # NoFile /\ data[entry] # Content =>
        \E p \in Puts : fd[p] = entry /\ pc[p] \in {"write", "crashed"}

(* A blob that was put before a get began, and that nobody deletes, is     *)
(* returned in full: docstring of get, local_blob.py:35.                   *)
StoredBlobReadable ==
    \A c \in Gets : pc[c] \in Ended \ {"crashed"} /\ (\E p \in before[c] : Standing(p)) =>
        pc[c] = "done" /\ got[c] = Content

(* An object store keeps this promise, with or without the cache, and a get*)
(* during a put or a deletion returns the full blob or none.               *)
ObjectReadable ==
    backend = "s3" =>
        /\ StoredBlobReadable
        /\ \A c \in Gets : pc[c] = "done" => got[c] = Content

(* A get after a delete does not find the blob, in the store or in the     *)
(* cache, unless some put or get overlapped the delete.                    *)
DeletedIsGone ==
    \A c \in Gets : \A d \in before[c] \cap Deletes :
        /\ pc[d] = "done"
        /\ \A p \in Puts : Apart(p, d)
        /\ \A g \in Gets : Apart(g, d) \/ d \in before[g]
        => pc[c] # "done"
=============================================================================
