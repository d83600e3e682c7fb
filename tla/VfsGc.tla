------------------------------- MODULE VfsGc -------------------------------
(***************************************************************************)
(* Vfs with the garbage collector (gc.py) running beside the requests: the *)
(* simple version GC (list, then delete: two store operations), then the   *)
(* blob sweep (per hash one metadata transaction that checks for           *)
(* references and deletes the text artifacts, then blob.delete outside     *)
(* it).  One collector runs at a time; it may run again, and may die       *)
(* between any two of its steps.                                           *)
(***************************************************************************)
EXTENDS Vfs

CONSTANTS
    MaxRecent,       \* VFSConfig.retention_max_recent
    MaxGcRuns        \* bound on the collector's runs

VARIABLES
    gc,              \* where the collector is
    doomed,          \* the rows list_reclaimable_versions returned
    listed,          \* the hashes blob.list_hashes() has still to yield
    visited,         \* the hashes it has yielded
    sweep,           \* the hash being swept (Empty: none)
    quiet,           \* history variable: no request was running when the run began
    runs             \* runs begun

gcvars == <<gc, doomed, listed, visited, sweep, quiet, runs>>
allvars == <<vars, gcvars>>

ASSUME GcAssumption == MaxRecent \in Nat /\ MaxGcRuns \in Nat

(* list_reclaimable_versions with keep_first_version (its default): the    *)
(* non-tombstones after the MaxRecent newest ones, except version 1.       *)
Newer(rows, v) ==
    {w \in rows : w.path = v.path /\ ~w.tombstone /\ w.number > v.number}

(* Mutant: one version too few is kept.                                    *)
ReclaimableOneMore(rows) ==
    {v \in rows : /\ ~v.tombstone
                  /\ Cardinality(Newer(rows, v)) + 1 >= MaxRecent
                  /\ v.number # 1}

Reclaimable(rows) ==
    {v \in rows : /\ ~v.tombstone
                  /\ Cardinality(Newer(rows, v)) >= MaxRecent
                  /\ v.number # 1}

(* Mutant: only the current versions count as references.                  *)
ReferencedByCurrent(h) == \E v \in versions : v.hash = h /\ v.number = files[v.path].number

(* has_version_references: any row, current or not.                        *)
Referenced(h) == \E v \in versions : v.hash = h

GcInit ==
    /\ Init
    /\ gc = "idle"
    /\ doomed = {}
    /\ listed = {}
    /\ visited = {}
    /\ sweep = Empty
    /\ quiet = FALSE
    /\ runs = 0

ListReclaimable ==
    /\ gc = "idle"
    /\ runs < MaxGcRuns
    /\ doomed' = Reclaimable(versions)
    /\ quiet' = (\A r \in Requests : pc[r] \in Terminal)
    /\ runs' = runs + 1
    /\ gc' = "listed"
    /\ UNCHANGED <<vars, listed, visited, sweep>>

(* delete_versions(ids).  A ULID is never given twice, and only this       *)
(* collector deletes rows, so a listed row is deleted as it was listed.    *)
DeleteVersions ==
    /\ gc = "listed"
    /\ versions' = versions \ doomed
    /\ doomed' = {}
    /\ listed' = blobs
    /\ visited' = {}
    /\ gc' = "sweeping"
    /\ UNCHANGED <<files, blobs, text, audit, locals, sweep, quiet, runs>>

(* The next hash of list_hashes(); a blob put after the listing began may  *)
(* or may not be in it.  A referenced hash is passed over.                 *)
NextHash(h) ==
    /\ gc = "sweeping"
    /\ h \in blobs \ visited
    /\ visited' = visited \cup {h}
    /\ listed' = listed \ {h}

(* Mutant: a hash whose text is gone counts as swept.                      *)
PassOverTextless(h) ==
    /\ NextHash(h)
    /\ Referenced(h) \/ h \notin text
    /\ UNCHANGED <<vars, gc, doomed, sweep, quiet, runs>>

PassOver(h) ==
    /\ NextHash(h)
    /\ Referenced(h)
    /\ UNCHANGED <<vars, gc, doomed, sweep, quiet, runs>>

(* The transaction of _blob_gc for a hash without references.              *)
SweepText(h) ==
    /\ NextHash(h)
    /\ ~Referenced(h)
    /\ text' = text \ {h}
    /\ sweep' = h
    /\ gc' = "unlink"
    /\ UNCHANGED <<files, versions, blobs, audit, locals, doomed, quiet, runs>>

(* Mutant: the text goes with the blob, outside the transaction.           *)
SweepBlobAndText ==
    /\ gc = "unlink"
    /\ blobs' = blobs \ {sweep}
    /\ text' = text \ {sweep}
    /\ sweep' = Empty
    /\ gc' = "sweeping"
    /\ UNCHANGED <<files, versions, audit, locals,
                   doomed, listed, visited, quiet, runs>>

(* await self._blob.delete(content_hash), after the transaction.           *)
SweepBlob ==
    /\ gc = "unlink"
    /\ blobs' = blobs \ {sweep}
    /\ sweep' = Empty
    /\ gc' = "sweeping"
    /\ UNCHANGED <<files, versions, text, audit, locals,
                   doomed, listed, visited, quiet, runs>>

(* The listing is exhausted; the run ends with its audit event.            *)
GcEnd ==
    /\ gc = "sweeping"
    /\ listed = {}
    /\ audit' = audit \cup {[kind |-> "gc_run", path |-> Empty, number |-> runs]}
    /\ gc' = "idle"
    /\ UNCHANGED <<files, versions, blobs, text, locals,
                   doomed, listed, visited, sweep, quiet, runs>>

GcCrash ==
    /\ gc # "idle"
    /\ gc' = "idle"
    /\ doomed' = {}
    /\ listed' = {}
    /\ visited' = {}
    /\ sweep' = Empty
    /\ quiet' = FALSE
    /\ UNCHANGED <<vars, runs>>

GcStep ==
    \/ ListReclaimable \/ DeleteVersions
    \/ \E h \in Hashes : PassOver(h) \/ SweepText(h)
    \/ SweepBlob \/ GcEnd

GcNext == (Next /\ UNCHANGED gcvars) \/ GcStep \/ GcCrash

GcSpec == GcInit /\ [][GcNext]_allvars

(* Requests get their turns whatever the collector does.                   *)
GcFairSpec ==
    GcSpec /\ \A r \in Requests : WF_allvars(Step(r) /\ UNCHANGED gcvars)

----------------------------------------------------------------------------
(* Properties.                                                             *)

(* Version 1 and the current version of every file outlive any number of   *)
(* collections, also when the current version is committed between the     *)
(* listing and the deletion: stat never points at a row that is gone, and  *)
(* read and stat see the same version.                                     *)
FirstAndCurrentKept ==
    \A p \in Paths : files[p].number > 0 =>
        /\ Taken(versions, p, 1)
        /\ \E v \in versions : /\ IsLatest(versions, p, v)
                               /\ files[p] = PointerTo(v)

(* The MaxRecent newest numbers of a file are never reclaimed, although    *)
(* the collector deletes from a list that is stale by the time it deletes. *)
RecentKept ==
    \A p \in Paths : \A n \in 1 .. files[p].number :
        files[p].number - n < MaxRecent => Taken(versions, p, n)

(* What the version collector promises to spare.                           *)
RetentionKept == FirstAndCurrentKept /\ RecentKept

(* A file's version number never goes back.                                *)
VersionNumbersGrow ==
    [][\A p \in Paths : files'[p].number >= files[p].number]_files

(* The text artifact of a version made by write is there for as long as    *)
(* the version is, even if write revived a hash the sweep was visiting.    *)
WrittenTextKept ==
    \A r \in Requests :
        /\ Acked(r)
        /\ call[r].kind = "write"
        /\ [NewVersion(r) EXCEPT !.number = won[r]] \in versions
        /\ call[r].hash \in TextHashes
        => call[r].hash \in text

(* The same of every version: a content_hash a version refers to is never  *)
(* without its text artifact.                                              *)
ReferencedTextKept ==
    \A v \in versions : v.hash \in TextHashes => v.hash \in text

(* A version that was in the history before the collection began and still *)
(* is keeps its blob and its text: the sweep takes content only between    *)
(* the moment nothing refers to it and the next reference.                 *)
StandingContentKept ==
    \A v \in InitVersions \cap versions : v.hash # Empty =>
        v.hash \in blobs /\ (v.hash \in TextHashes => v.hash \in text)

(* A collection that ran to its end with no request running leaves exactly *)
(* the blobs that are referenced, whatever earlier collections left behind *)
(* when they died between the text and the blob of a hash.                 *)
QuietRunIsComplete ==
    quiet /\ gc = "idle" => blobs \subseteq {v.hash : v \in versions}
=============================================================================
