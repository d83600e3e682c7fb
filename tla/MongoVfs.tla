------------------------------ MODULE MongoVfs ------------------------------
(***************************************************************************)
(* The operations of Vfs over the MongoDB store (mongo_metadata.py).  The  *)
(* coroutines are the same; put_version is not: it inserts the version     *)
(* document and then moves the pointer, two operations that interleave     *)
(* with those of other requests, and transaction() does nothing, so move   *)
(* writes its two versions in four operations.  A crash keeps what was     *)
(* written.  This store has no native text search, so `text` stays empty   *)
(* (TextHashes = {}) and reindex writes nothing.                           *)
(***************************************************************************)
EXTENDS Vfs

VARIABLES
    stage,           \* how far a request at "commit" is with its writes
    mine             \* history variable: the documents a request has in `versions`

mvars == <<vars, stage, mine>>

Stages == {"insert", "point", "undo", "tombstone", "hide"}

MongoInit ==
    /\ Init
    /\ stage = [r \in Requests |-> "insert"]
    /\ mine = [r \in Requests |-> {}]

At(r, s) == pc[r] = "commit" /\ stage[r] = s
Enter(r, s) == stage' = [stage EXCEPT ![r] = s]

(* Writing a move's tombstone: after its destination, or alone if the      *)
(* destination is taken to have committed earlier.                         *)
AtTombstone(r) == At(r, "tombstone") \/ (At(r, "insert") /\ skip[r])

(* versions.insert_one under the unique index.                             *)
Insert(r, v) ==
    /\ ~Taken(versions, v.path, v.number)
    /\ versions' = versions \cup {v}
    /\ mine' = [mine EXCEPT ![r] = @ \cup {v}]

InsertVersion(r) ==
    /\ At(r, "insert")
    /\ ~skip[r]
    /\ Insert(r, NewVersion(r))
    /\ Enter(r, "point")
    /\ UNCHANGED <<files, blobs, text, audit, locals>>

(* files.update_one, or find_one_and_update on the expected number.        *)
PointVersion(r) ==
    LET v == NewVersion(r)
        moving == call[r].kind = "move" IN
    /\ At(r, "point")
    /\ CasHolds(v.path, Expected(r))
    /\ files' = [files EXCEPT ![v.path] = PointerTo(v)]
    /\ Enter(r, IF moving THEN "tombstone" ELSE "insert")
    /\ won' = [won EXCEPT ![r] = IF moving THEN @ ELSE v.number]
    /\ pc' = [pc EXCEPT ![r] = IF moving THEN @ ELSE "audit"]
    /\ UNCHANGED <<versions, blobs, text, audit, mine,
                   call, src, seen, last, skip, tries, first>>

(* Mutant: the loser of a compare-and-swap raises at once.                 *)
LoseSwapKeeping(r) ==
    /\ At(r, "point")
    /\ ~CasHolds(call[r].path, Expected(r))
    /\ Goto(r, "conflict")
    /\ UNCHANGED <<stores, stage, mine, call, src, seen, last, skip, tries, won, first>>

(* find_one_and_update matched no document ...                             *)
LoseSwap(r) ==
    /\ At(r, "point")
    /\ ~CasHolds(call[r].path, Expected(r))
    /\ Enter(r, "undo")
    /\ UNCHANGED <<vars, mine>>

(* ... so the inserted document is deleted and ConflictError raised.       *)
Withdraw(r) ==
    /\ At(r, "undo")
    /\ versions' = versions \ {NewVersion(r)}
    /\ mine' = [mine EXCEPT ![r] = {}]
    /\ Goto(r, "conflict")
    /\ UNCHANGED <<files, blobs, text, audit, stage,
                   call, src, seen, last, skip, tries, won, first>>

InsertTombstone(r) ==
    /\ AtTombstone(r)
    /\ Insert(r, MoveTombstone(r))
    /\ Enter(r, "hide")
    /\ UNCHANGED <<files, blobs, text, audit, locals>>

HideSource(r) ==
    /\ At(r, "hide")
    /\ files' = [files EXCEPT ![call[r].from] = PointerTo(MoveTombstone(r))]
    /\ won' = [won EXCEPT ![r] = last[r]]
    /\ Enter(r, "insert")
    /\ Goto(r, "audit")
    /\ UNCHANGED <<versions, blobs, text, audit, mine,
                   call, src, seen, last, skip, tries, first>>

(* DuplicateKeyError on either insert is a VersionCollisionError; write,   *)
(* copy and move read again and retry, whatever they have written.         *)
InsertRefused(r) ==
    /\ \/ /\ At(r, "insert")
          /\ ~skip[r]
          /\ Taken(versions, call[r].path, last[r])
       \/ /\ AtTombstone(r)
          /\ Taken(versions, call[r].from, seen[r].from + 1)
    /\ tries' = [tries EXCEPT ![r] = @ + 1]
    /\ Enter(r, "insert")
    /\ Goto(r, IF ~Retries(r) THEN "collision"
               ELSE IF call[r].kind = "move" THEN "getfrom" ELSE "getfile")
    /\ UNCHANGED <<stores, mine, call, src, seen, last, skip, won, first>>

(* The steps that do not write a version are those of Vfs.                 *)
SharedStep(r) ==
    /\ \/ PutBlob(r) \/ GetSource(r) \/ SourceMissing(r)
       \/ GetFrom(r) \/ GetFile(r) \/ NothingToDelete(r)
       \/ Audit(r) \/ GetBlob(r)
    /\ UNCHANGED <<stage, mine>>

MongoStep(r) ==
    \/ SharedStep(r)
    \/ InsertVersion(r) \/ PointVersion(r) \/ LoseSwap(r) \/ Withdraw(r)
    \/ InsertTombstone(r) \/ HideSource(r) \/ InsertRefused(r)

MongoCrash(r) == Crash(r) /\ UNCHANGED <<stage, mine>>

MongoNext == \E r \in Requests : MongoStep(r) \/ MongoCrash(r)

MongoSpec == MongoInit /\ [][MongoNext]_mvars

----------------------------------------------------------------------------
(* Properties.                                                             *)

(* A move writes its destination at most once, however often the write of  *)
(* its tombstone collides: the purpose of dst_committed.                   *)
MoveInsertsOnce ==
    \A r \in Requests : call[r].kind = "move" =>
        Cardinality({v \in mine[r] : ~v.tombstone}) <= 1

=============================================================================
