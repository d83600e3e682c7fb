------------------------------ MODULE MongoGc ------------------------------
(***************************************************************************)
(* The garbage collector of VfsGc beside the requests of MongoVfs.  Its    *)
(* transactions are none on this store, which has no text to keep in step; *)
(* what is different is what the listing sees: it takes the documents of   *)
(* one file after the other, and counts as recent a document that is       *)
(* inserted but not pointed at, though it may still be withdrawn.          *)
(***************************************************************************)
EXTENDS MongoVfs, VfsGc

VARIABLES
    unlisted         \* the files the listing has still to look at

mgvars == <<mvars, gcvars, unlisted>>

MongoGcInit == MongoInit /\ GcInit /\ unlisted = Paths

(* list_reclaimable_versions: versions.find(...).sort("version_number", -1)*)
(* for each document of files.                                             *)
ListFile(p) ==
    /\ gc \in {"idle", "listing"}
    /\ p \in unlisted
    /\ IF gc = "idle"
       THEN runs < MaxGcRuns /\ runs' = runs + 1
       ELSE UNCHANGED runs
    /\ quiet' = (IF gc = "idle" THEN \A r \in Requests : pc[r] \in Terminal ELSE quiet)
    /\ doomed' = doomed \cup {v \in Reclaimable(versions) : v.path = p}
    /\ unlisted' = IF unlisted = {p} THEN Paths ELSE unlisted \ {p}
    /\ gc' = IF unlisted = {p} THEN "listed" ELSE "listing"
    /\ UNCHANGED <<mvars, listed, visited, sweep>>

(* delete_many, has_version_references and the blob deletions are those of *)
(* the other stores, the collector's death too.                            *)
MongoGcStep ==
    \/ \E p \in Paths : ListFile(p)
    \/ /\ \/ DeleteVersions
          \/ \E h \in Hashes : PassOver(h) \/ SweepText(h)
          \/ SweepBlob \/ GcEnd
       /\ UNCHANGED <<stage, mine, unlisted>>
    \/ GcCrash /\ unlisted' = Paths /\ UNCHANGED <<stage, mine>>

MongoGcNext ==
    \/ MongoNext /\ UNCHANGED <<gcvars, unlisted>>
    \/ MongoGcStep

MongoGcSpec == MongoGcInit /\ [][MongoGcNext]_mgvars

----------------------------------------------------------------------------
(* Properties.                                                             *)

(* The pointer never refers to a version that is not there: put_version    *)
(* inserts before it points, and the collector, which does not look at the *)
(* pointer, spares what it points at, provided it keeps two versions - one *)
(* of them may be a document nobody points at, and may yet be withdrawn.   *)
(* Only versions older than that are missing, and only after a collection; *)
(* at most one document of a path is beyond the pointer.                   *)
PointerBacked ==
    /\ \A v, w \in versions : v.path = w.path /\ v.number = w.number => v = w
    /\ \A v \in versions :
        /\ v.number <= files[v.path].number + 1
        /\ v.number = files[v.path].number => files[v.path] = PointerTo(v)
    /\ \A p \in Paths : \A n \in 1 .. files[p].number :
        \/ Taken(versions, p, n)
        \/ runs > 0 /\ n # 1 /\ files[p].number - n >= MaxRecent - 1

(* A document beyond the pointer is one a request is still busy with, or   *)
(* died over: no request that raised ConflictError or VersionCollisionError*)
(* leaves one behind.                                                      *)
OrphanMeansCrash ==
    \A v \in versions : v.number > files[v.path].number =>
        \E r \in Requests : v \in mine[r] /\ pc[r] \in {"commit", "crashed"}
=============================================================================
