----------------------------- MODULE VfsHistory -----------------------------
(***************************************************************************)
(* The tables of Vfs read as the histories of FileHistory: entry n of a    *)
(* path is its row with version_number n, and the length of the history is *)
(* the current_version_number of its files row.                            *)
(***************************************************************************)
EXTENDS Vfs, Sequences

(* rollback takes one path and the number of a version, which is not 0.    *)
ASSUME RollbackAssumption ==
    \A c \in Calls : c.kind = "rollback" => c.from = c.path /\ c.target # 0

EntryOf(v) == [hash |-> v.hash, tombstone |-> v.tombstone]

RowOf(rows, p, n) == CHOOSE v \in rows : v.path = p /\ v.number = n

HistoryOf(f, rows) ==
    [p \in Paths |-> [n \in 1 .. f[p].number |-> EntryOf(RowOf(rows, p, n))]]

H == INSTANCE FileHistory
        WITH Contents    <- Hashes,
             InitHistory <- HistoryOf(InitFiles, InitVersions),
             history     <- HistoryOf(files, versions),
             position    <- won

(* Every request, with all its retries and whatever crashes or collides    *)
(* with it, appends what it was asked to append to the history it was asked*)
(* to append it to, in one step or not at all, and is given the position of*)
(* that entry; a move writes both its ends in that step; reads and         *)
(* reindexing change no history.                                           *)
ImplementsHistory == H!Spec
=============================================================================
