-------------------------------- MODULE Vfs --------------------------------
(***************************************************************************)
(* The versioned file operations of VirtualFileSystem (vfs.py) over a      *)
(* transactional SQL metadata store (sql_metadata.py) and a blob store.    *)
(*                                                                         *)
(* Every VFS method is a coroutine that awaits the stores several times    *)
(* and holds no lock between two awaits, so a method is a process of       *)
(* several steps, and the steps of different requests interleave.  One     *)
(* store operation - or one transaction() block, which holds the store's   *)
(* lock from its first statement to its commit - is one atomic step.       *)
(*                                                                         *)
(* A row of the `versions` table is the record below without its ULID,     *)
(* size and timestamps; the row of `files` is the number of the current    *)
(* version (0: no row) and the is_deleted flag.                            *)
(***************************************************************************)
EXTENDS Naturals, FiniteSets

CONSTANTS
    Requests,        \* the calls made to the VFS, each a coroutine that runs once
    Calls,           \* the calls a request may be: a finite set of Call records
    Paths,           \* canonical paths of one namespace
    Hashes,          \* BLAKE3 hashes of contents
    TextHashes,      \* those whose content decodes as UTF-8
    Empty,           \* content_hash "" (a tombstone has no content)
    NoCas,           \* expected_version is None
    MaxWriteRetries, \* _MAX_WRITE_RETRIES
    InitFiles,       \* the files table when the requests arrive ...
    InitVersions     \* ... and the versions table, both left by earlier calls

VARIABLES
    files,           \* [Paths -> pointer]: the files table
    versions,        \* the set of rows of the versions table
    blobs,           \* the hashes the blob store holds
    text,            \* the hashes with a row in search_text_artifacts
    audit,           \* the audit events written so far
    pc,              \* where each request's coroutine is
    call,            \* its arguments
    src,             \* the VersionMeta it has read (copy, move, rollback, read, reindex)
    seen,            \* the current_version_numbers it has read
    last,            \* move's _last_dst_attempt (0: None)
    skip,            \* move's dst_committed
    tries,           \* attempts that ended in VersionCollisionError
    won,             \* version_number of the version the request returns (0: none)
    first            \* history variable: the pointer its first get_file returned

stores == <<files, versions, blobs, text, audit>>
locals == <<pc, call, src, seen, last, skip, tries, won, first>>
vars   == <<stores, locals>>

Kinds == {"write", "delete", "copy", "move", "rollback", "read", "reindex"}

(* The arguments of a call.  `path` is the path a version is created at,   *)
(* `from` the path the content comes from, `target` a version number (0:   *)
(* the latest).  A kind ignores the fields its method does not take.       *)
Call == [kind : Kinds, path : Paths, from : Paths, hash : Hashes,
         expected : Nat \cup {NoCas}, target : Nat]

Version == [path : Paths, number : Nat \ {0}, hash : Hashes \cup {Empty},
            tombstone : BOOLEAN]
Pointer == [number : Nat, deleted : BOOLEAN]

(* A placeholder for a VersionMeta that has not been read yet.             *)
NoVersion == [path |-> Empty, number |-> 0, hash |-> Empty, tombstone |-> TRUE]

Failures  == {"notfound", "noblob", "conflict", "collision", "integrity"}
Terminal  == Failures \cup {"done", "crashed"}
Running   == {"putblob", "getsrc", "getfrom", "getfile", "commit", "getblob",
              "index", "audit"}
Locations == Running \cup Terminal

(* Mutant: write starts without putting its blob.                          *)
FirstStepUnput(kind) == IF kind \in {"write", "delete"} THEN "getfile" ELSE "getsrc"

(* The first await of each method after its permission check.              *)
FirstStep(kind) ==
    CASE kind = "write"  -> "putblob"
      [] kind = "delete" -> "getfile"
      [] OTHER           -> "getsrc"

----------------------------------------------------------------------------
(* The two tables.                                                         *)

(* The unique index on (namespace_id, file_path, version_number).          *)
Taken(rows, p, n) == \E v \in rows : v.path = p /\ v.number = n

(* get_version without a number: ORDER BY version_number DESC LIMIT 1,     *)
(* whatever the files row says.                                            *)
IsLatest(rows, p, v) ==
    /\ v \in rows
    /\ v.path = p
    /\ \A w \in rows : w.path = p => w.number <= v.number

(* get_version(path, n): the row a reader asks for; n = 0 is None.         *)
IsVersion(rows, p, n, v) ==
    IF n = 0 THEN IsLatest(rows, p, v)
             ELSE v \in rows /\ v.path = p /\ v.number = n

(* version_id is represented by the path and the number; a gc_run event    *)
(* names no version.                                                       *)
AuditEvent == [kind : Kinds \cup {"gc_run"}, path : Paths \cup {Empty}, number : Nat]

PointerTo(v) == [number |-> v.number, deleted |-> v.tombstone]

(* The two tables agree: the versions of a path are numbered 1 to its      *)
(* current_version_number without gaps or duplicates, and the file's flag  *)
(* is the one of its last version.                                         *)
Agree(f, rows) ==
    /\ \A v, w \in rows : v.path = w.path /\ v.number = w.number => v = w
    /\ \A v \in rows :
        /\ v.number <= f[v.path].number
        /\ v.number = f[v.path].number => f[v.path] = PointerTo(v)
    /\ \A p \in Paths : \A n \in 1 .. f[p].number : Taken(rows, p, n)

ASSUME CallAssumption == Calls \subseteq Call
ASSUME NoCasAssumption == NoCas \notin Nat
ASSUME HashAssumption == Empty \notin Hashes /\ TextHashes \subseteq Hashes
ASSUME RetryAssumption == MaxWriteRetries \in Nat \ {0}
ASSUME InitAssumption ==
    /\ InitVersions \subseteq Version
    /\ InitFiles \in [Paths -> Pointer]
    /\ Agree(InitFiles, InitVersions)

(* Mutant: the swap lets a file pass that is beyond the expected version.  *)
CasAtLeast(p, e) == e # NoCas => files[p].number > 0 /\ files[p].number >= e

(* put_version's compare-and-swap predicate: UPDATE files ... WHERE        *)
(* current_version_number = expected matches a row.                        *)
CasHolds(p, e) == e = NoCas \/ (files[p].number > 0 /\ files[p].number = e)

----------------------------------------------------------------------------
Init ==
    /\ files = InitFiles
    /\ versions = InitVersions
    /\ blobs = {v.hash : v \in InitVersions} \ {Empty}
    /\ text = {v.hash : v \in InitVersions} \cap TextHashes
    /\ audit = {}
    /\ call \in [Requests -> Calls]
    /\ pc = [r \in Requests |-> FirstStep(call[r].kind)]
    /\ src = [r \in Requests |-> NoVersion]
    /\ seen = [r \in Requests |-> [from |-> 0, path |-> 0]]
    /\ last = [r \in Requests |-> 0]
    /\ skip = [r \in Requests |-> FALSE]
    /\ tries = [r \in Requests |-> 0]
    /\ won = [r \in Requests |-> 0]
    /\ first = [r \in Requests |-> 0]

----------------------------------------------------------------------------
(* Steps of a request's coroutine.                                         *)

Goto(r, l) == pc' = [pc EXCEPT ![r] = l]

(* write: await self._blob.put(content_hash, content); no-op if present.   *)
PutBlob(r) ==
    /\ pc[r] = "putblob"
    /\ blobs' = blobs \cup {call[r].hash}
    /\ Goto(r, "getfile")
    /\ UNCHANGED <<files, versions, text, audit,
                   call, src, seen, last, skip, tries, won, first>>

(* The version a request starts from.  Rollback takes any row, a tombstone *)
(* included; the others want live content; reindex passes over a file that *)
(* has none.                                                               *)
AfterSource(r) ==
    CASE call[r].kind = "move" -> "getfrom"
      [] call[r].kind \in {"copy", "rollback"} -> "getfile"
      [] call[r].kind \in {"read", "reindex"} -> "getblob"

SourceNumber(r) == IF call[r].kind \in {"read", "rollback"} THEN call[r].target ELSE 0

Acceptable(r, v) ==
    /\ IsVersion(versions, call[r].from, SourceNumber(r), v)
    /\ call[r].kind # "rollback" => ~v.tombstone

GetSource(r) ==
    /\ pc[r] = "getsrc"
    /\ \E v \in versions :
        /\ Acceptable(r, v)
        /\ src' = [src EXCEPT ![r] = v]
    /\ Goto(r, AfterSource(r))
    /\ UNCHANGED <<stores, call, seen, last, skip, tries, won, first>>

SourceMissing(r) ==
    /\ pc[r] = "getsrc"
    /\ ~ \E v \in versions : Acceptable(r, v)
    /\ Goto(r, IF call[r].kind = "reindex" THEN "done" ELSE "notfound")
    /\ UNCHANGED <<stores, call, src, seen, last, skip, tries, won, first>>

(* move: src_file = await self._meta.get_file(namespace_id, src)           *)
GetFrom(r) ==
    /\ pc[r] = "getfrom"
    /\ seen' = [seen EXCEPT ![r].from = files[call[r].from].number]
    /\ Goto(r, "getfile")
    /\ UNCHANGED <<stores, call, src, last, skip, tries, won, first>>

(* Mutant: a retry of move always writes its destination again.            *)
DstCommittedNever(r) == FALSE

(* move: dst advanced to the number tried last, so dst "has committed".    *)
DstCommitted(r) ==
    /\ call[r].kind = "move"
    /\ last[r] # 0
    /\ files[call[r].path].number >= last[r]

(* Mutant: the version number is computed once, before the retry loop.     *)
GetFileOnce(r) ==
    LET n == files[call[r].path].number IN
    /\ pc[r] = "getfile"
    /\ ~(call[r].kind = "delete" /\ n = 0)
    /\ seen' = [seen EXCEPT ![r].path = n]
    /\ first' = [first EXCEPT ![r] = IF tries[r] = 0 THEN n ELSE @]
    /\ skip' = [skip EXCEPT ![r] = DstCommitted(r)]
    /\ last' = [last EXCEPT ![r] = IF tries[r] > 0 THEN @ ELSE n + 1]
    /\ Goto(r, "commit")
    /\ UNCHANGED <<stores, call, src, tries, won>>

(* get_file on the path a version is to be created at, once per attempt.   *)
GetFile(r) ==
    LET n == files[call[r].path].number IN
    /\ pc[r] = "getfile"
    /\ ~(call[r].kind = "delete" /\ n = 0)
    /\ seen' = [seen EXCEPT ![r].path = n]
    /\ first' = [first EXCEPT ![r] = IF tries[r] = 0 THEN n ELSE @]
    /\ skip' = [skip EXCEPT ![r] = DstCommitted(r)]
    /\ last' = [last EXCEPT ![r] = IF DstCommitted(r) THEN @ ELSE n + 1]
    /\ Goto(r, "commit")
    /\ UNCHANGED <<stores, call, src, tries, won>>

(* delete: existing is None.  An existing tombstone is not an obstacle.    *)
NothingToDelete(r) ==
    /\ pc[r] = "getfile"
    /\ call[r].kind = "delete"
    /\ files[call[r].path].number = 0
    /\ Goto(r, "notfound")
    /\ UNCHANGED <<stores, call, src, seen, last, skip, tries, won, first>>

(* Mutant: rollback puts its target back under the number it had.          *)
NewVersionInPlace(r) ==
    [path      |-> call[r].path,
     number    |-> IF call[r].kind = "rollback" THEN src[r].number ELSE last[r],
     hash      |-> CASE call[r].kind = "write" -> call[r].hash
                     [] call[r].kind = "delete" -> Empty
                     [] OTHER -> src[r].hash,
     tombstone |-> call[r].kind = "delete"]

(* The version a request asks put_version to persist at `path`, and the    *)
(* tombstone a move asks for at `from`.                                    *)
NewVersion(r) ==
    [path      |-> call[r].path,
     number    |-> last[r],
     hash      |-> CASE call[r].kind = "write" -> call[r].hash
                     [] call[r].kind = "delete" -> Empty
                     [] OTHER -> src[r].hash,
     tombstone |-> call[r].kind = "delete"]

MoveTombstone(r) ==
    [path |-> call[r].from, number |-> seen[r].from + 1, hash |-> Empty,
     tombstone |-> TRUE]

Expected(r) == IF call[r].kind \in {"write", "copy"} THEN call[r].expected ELSE NoCas

(* Mutant: no unique index; two rows may have the same number.             *)
CommitUnchecked(r) ==
    LET v == NewVersion(r) IN
    /\ pc[r] = "commit"
    /\ call[r].kind # "move"
    /\ CasHolds(v.path, Expected(r))
    /\ versions' = versions \cup {v}
    /\ files' = [files EXCEPT ![v.path] = PointerTo(v)]
    /\ text' = IF call[r].kind = "write" THEN text \cup ({v.hash} \cap TextHashes) ELSE text
    /\ won' = [won EXCEPT ![r] = v.number]
    /\ Goto(r, "audit")
    /\ UNCHANGED <<blobs, audit, call, src, seen, last, skip, tries, first>>

(* put_version in its transaction: the row and the pointer, with the text  *)
(* artifact when the version comes from write.                             *)
Commit(r) ==
    LET v == NewVersion(r) IN
    /\ pc[r] = "commit"
    /\ call[r].kind # "move"
    /\ CasHolds(v.path, Expected(r))
    /\ ~Taken(versions, v.path, v.number)
    /\ versions' = versions \cup {v}
    /\ files' = [files EXCEPT ![v.path] = PointerTo(v)]
    /\ text' = IF call[r].kind = "write" THEN text \cup ({v.hash} \cap TextHashes) ELSE text
    /\ won' = [won EXCEPT ![r] = v.number]
    /\ Goto(r, "audit")
    /\ UNCHANGED <<blobs, audit, call, src, seen, last, skip, tries, first>>

(* Mutant: the destination stays when the tombstone is refused.            *)
MoveCommitTorn(r) ==
    LET v == NewVersion(r)
        t == {w \in {MoveTombstone(r)} : ~Taken(versions, w.path, w.number)} IN
    /\ pc[r] = "commit"
    /\ call[r].kind = "move"
    /\ ~skip[r]
    /\ ~Taken(versions, v.path, v.number)
    /\ versions' = versions \cup {v} \cup t
    /\ files' = [p \in Paths |-> IF p = v.path THEN PointerTo(v)
                                 ELSE IF t # {} /\ p = call[r].from
                                      THEN PointerTo(MoveTombstone(r)) ELSE files[p]]
    /\ won' = [won EXCEPT ![r] = v.number]
    /\ Goto(r, "audit")
    /\ UNCHANGED <<blobs, text, audit, call, src, seen, last, skip, tries, first>>

(* move's transaction block, destination first.                            *)
MoveCommit(r) ==
    LET v == NewVersion(r)
        t == MoveTombstone(r) IN
    /\ pc[r] = "commit"
    /\ call[r].kind = "move"
    /\ ~skip[r]
    /\ ~Taken(versions, v.path, v.number)
    /\ ~Taken(versions \cup {v}, t.path, t.number)
    /\ versions' = versions \cup {v, t}
    /\ files' = [files EXCEPT ![v.path] = PointerTo(v), ![t.path] = PointerTo(t)]
    /\ won' = [won EXCEPT ![r] = v.number]
    /\ Goto(r, "audit")
    /\ UNCHANGED <<blobs, text, audit, call, src, seen, last, skip, tries, first>>

(* The same block when dst_committed: only the tombstone is written, and   *)
(* the version of the earlier attempt is returned.                         *)
MoveFinish(r) ==
    LET t == MoveTombstone(r) IN
    /\ pc[r] = "commit"
    /\ call[r].kind = "move"
    /\ skip[r]
    /\ ~Taken(versions, t.path, t.number)
    /\ versions' = versions \cup {t}
    /\ files' = [files EXCEPT ![t.path] = PointerTo(t)]
    /\ won' = [won EXCEPT ![r] = last[r]]
    /\ Goto(r, "audit")
    /\ UNCHANGED <<blobs, text, audit, call, src, seen, last, skip, tries, first>>

(* The compare-and-swap matched no row: ConflictError, nothing written.    *)
CasConflict(r) ==
    /\ pc[r] = "commit"
    /\ ~CasHolds(call[r].path, Expected(r))
    /\ Goto(r, "conflict")
    /\ UNCHANGED <<stores, call, src, seen, last, skip, tries, won, first>>

(* The unique index refuses one of the inserts.                            *)
Refused(r) ==
    LET v == NewVersion(r)
        t == MoveTombstone(r) IN
    IF call[r].kind = "move"
    THEN IF skip[r] THEN Taken(versions, t.path, t.number)
                    ELSE \/ Taken(versions, v.path, v.number)
                         \/ Taken(versions \cup {v}, t.path, t.number)
    ELSE Taken(versions, v.path, v.number)

(* Mutant: the retry loop has no bound.                                    *)
RetriesForever(r) ==
    call[r].kind \in {"write", "copy", "move"} /\ Expected(r) = NoCas

Retries(r) ==
    /\ call[r].kind \in {"write", "copy", "move"}
    /\ Expected(r) = NoCas
    /\ tries[r] + 1 < MaxWriteRetries

(* Mutant: the last attempt falls out of the loop instead of raising.      *)
CollideFallsThrough(r) ==
    /\ pc[r] = "commit"
    /\ CasHolds(call[r].path, Expected(r))
    /\ Refused(r)
    /\ tries' = [tries EXCEPT ![r] = @ + 1]
    /\ Goto(r, IF Retries(r) THEN "getfile" ELSE "audit")
    /\ won' = [won EXCEPT ![r] = IF Retries(r) THEN @ ELSE last[r]]
    /\ UNCHANGED <<stores, call, src, seen, last, skip, first>>

(* Mutant: the same insert is tried again until it is accepted.            *)
CollideInPlace(r) ==
    /\ pc[r] = "commit"
    /\ Refused(r)
    /\ UNCHANGED vars

(* The transaction is rolled back.  Without CAS the error is a             *)
(* VersionCollisionError, and write, copy and move try again; with CAS the *)
(* store lets the driver's IntegrityError through.                         *)
Collide(r) ==
    /\ pc[r] = "commit"
    /\ CasHolds(call[r].path, Expected(r))
    /\ Refused(r)
    /\ tries' = [tries EXCEPT ![r] = @ + 1]
    /\ Goto(r, CASE Retries(r) /\ call[r].kind = "move" -> "getfrom"
                 [] Retries(r) /\ call[r].kind # "move" -> "getfile"
                 [] ~Retries(r) /\ Expected(r) = NoCas -> "collision"
                 [] ~Retries(r) /\ Expected(r) # NoCas -> "integrity")
    /\ UNCHANGED <<stores, call, src, seen, last, skip, won, first>>

(* audit_write and its siblings: a store operation of its own, after the   *)
(* commit.                                                                 *)
Event(r) == [kind |-> call[r].kind, path |-> call[r].path, number |-> won[r]]

(* Mutant: the request returns without writing its event.                  *)
AuditDropped(r) ==
    /\ pc[r] = "audit"
    /\ Goto(r, "done")
    /\ UNCHANGED <<stores, call, src, seen, last, skip, tries, won, first>>

Audit(r) ==
    /\ pc[r] = "audit"
    /\ audit' = audit \cup {Event(r)}
    /\ Goto(r, "done")
    /\ UNCHANGED <<files, versions, blobs, text,
                   call, src, seen, last, skip, tries, won, first>>

(* read and reindex: await self._blob.get(ver.content_hash)                *)
GetBlob(r) ==
    /\ pc[r] = "getblob"
    /\ Goto(r, CASE src[r].hash \notin blobs -> "noblob"
                 [] src[r].hash \in blobs /\ call[r].kind = "read" -> "done"
                 [] src[r].hash \in blobs /\ call[r].kind = "reindex" -> "index")
    /\ UNCHANGED <<stores, call, src, seen, last, skip, tries, won, first>>

(* reindex: index_text and update_search_artifact in one transaction; the  *)
(* second is a no-op if the version has gone meanwhile.                    *)
Index(r) ==
    /\ pc[r] = "index"
    /\ text' = text \cup ({src[r].hash} \cap TextHashes)
    /\ Goto(r, "done")
    /\ UNCHANGED <<files, versions, blobs, audit,
                   call, src, seen, last, skip, tries, won, first>>

(* The coroutine dies between two steps: an error no step expects, its     *)
(* cancellation, or the death of its process.  A transaction it was in is  *)
(* rolled back: by _operation() and transaction() on an Exception, by the  *)
(* database on a process' death, and on a cancellation by SQLAlchemy, which*)
(* invalidates the connection whose statement was cancelled.               *)
Crash(r) ==
    /\ pc[r] \in Running
    /\ Goto(r, "crashed")
    /\ UNCHANGED <<stores, call, src, seen, last, skip, tries, won, first>>

Step(r) ==
    \/ PutBlob(r) \/ GetSource(r) \/ SourceMissing(r)
    \/ GetFrom(r) \/ GetFile(r) \/ NothingToDelete(r)
    \/ Commit(r) \/ MoveCommit(r) \/ MoveFinish(r)
    \/ CasConflict(r) \/ Collide(r) \/ Audit(r)
    \/ GetBlob(r) \/ Index(r)

Next == \E r \in Requests : Step(r) \/ Crash(r)

Spec == Init /\ [][Next]_vars

(* The event loop resumes every coroutine whose await is over, and the     *)
(* store's lock is a FIFO asyncio.Lock.                                    *)
FairSpec == Spec /\ \A r \in Requests : WF_vars(Step(r))

----------------------------------------------------------------------------
(* Properties.                                                             *)

TypeOK ==
    /\ files \in [Paths -> Pointer]
    /\ versions \subseteq Version
    /\ blobs \subseteq Hashes
    /\ text \subseteq TextHashes
    /\ audit \subseteq AuditEvent
    /\ pc \in [Requests -> Locations]
    /\ call \in [Requests -> Calls]
    /\ src \in [Requests -> Version \cup {NoVersion}]
    /\ seen \in [Requests -> [from : Nat, path : Nat]]
    /\ last \in [Requests -> Nat]
    /\ skip \in [Requests -> BOOLEAN]
    /\ tries \in [Requests -> 0 .. MaxWriteRetries]
    /\ won \in [Requests -> Nat]
    /\ first \in [Requests -> Nat]

(* A request that put its version through: the caller has it, or will.     *)
Acked(r) == pc[r] \in {"audit", "done"} /\ won[r] # 0

(* stat and list read the pointer, read and copy the highest row: with no  *)
(* GC they never disagree, and no version number is skipped or given twice *)
(* - whatever the interleaving of writes, moves, retries and crashes.      *)
PointerIsLatest == Agree(files, versions)

(* A compare-and-swap that succeeds produced exactly version expected + 1, *)
(* although its number was computed from a get_file of its own and the     *)
(* swap compares another value: no version slipped in between.             *)
CasWritesOnTop ==
    \A r \in Requests :
        Acked(r) /\ Expected(r) # NoCas => won[r] = Expected(r) + 1

(* Every version a write, copy, delete or rollback returned is in the      *)
(* history with the content that request asked for, and no two requests    *)
(* were given the same version: concurrent writers lose no update.         *)
AckedVersionKept ==
    \A r \in Requests : Acked(r) /\ call[r].kind # "move" =>
        /\ [NewVersion(r) EXCEPT !.number = won[r]] \in versions
        /\ \A s \in Requests \ {r} :
            Acked(s) /\ call[s].kind # "move" /\ call[s].path = call[r].path
                => won[s] # won[r]

(* The same of move: the version it returns is at dst, with the content of *)
(* the version it read from src.                                           *)
MovedVersionKept ==
    \A r \in Requests :
        Acked(r) /\ call[r].kind = "move" =>
            [NewVersion(r) EXCEPT !.number = won[r]] \in versions

(* VersionCollisionError reaches a caller only if the path advanced at     *)
(* least once for every attempt the request made: retrying is not futile,  *)
(* and MaxWriteRetries other versions must win before a write gives up.    *)
(* (A move may also collide at its source.)                                *)
CollisionMeansContention ==
    \A r \in Requests : call[r].kind # "move" =>
        tries[r] <= files[call[r].path].number - first[r]

(* What a version's hash promises: its blob can be fetched and, if it is   *)
(* text, its text artifact can be searched.  A live version has no hash -  *)
(* stat and list show a file, and no read of it succeeds - only if a       *)
(* rollback restored a tombstone, now or before these requests; a copy or  *)
(* move of that version inherits the gap.                                  *)
Hollow(v) == v.hash = Empty /\ ~v.tombstone

TombstoneRestored ==
    \/ \E v \in InitVersions : Hollow(v)
    \/ \E r \in Requests : call[r].kind = "rollback" /\ won[r] # 0 /\ src[r].tombstone

ContentResolvable ==
    \A v \in versions :
        /\ v.hash # Empty =>
            v.hash \in blobs /\ (v.hash \in TextHashes => v.hash \in text)
        /\ Hollow(v) => TombstoneRestored

(* Every version in the history was made by a request whose audit event    *)
(* is written, about to be written, or was cut off by a crash between the  *)
(* commit and the audit write: no other path leaves a change unaudited.    *)
Made(r, v) ==
    /\ won[r] # 0
    /\ \/ v.path = call[r].path /\ v.number = won[r]
       \/ call[r].kind = "move" /\ v = MoveTombstone(r)

EveryChangeAudited ==
    \A v \in versions \ InitVersions :
        \E r \in Requests :
            /\ Made(r, v)
            /\ pc[r] \in {"audit", "crashed"} \/ Event(r) \in audit

(* Every request returns or raises.                                        *)
EveryRequestEnds == \A r \in Requests : <>(pc[r] \in Terminal)
=============================================================================
