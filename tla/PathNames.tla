----------------------------- MODULE PathNames -----------------------------
(***************************************************************************)
(* Path arithmetic: how Session resolves a path against its cwd            *)
(* (session.py), which paths the VFS takes (vfs.py, _require_canonical),   *)
(* and how `ls` and the mount make directories out of a store that only    *)
(* has files (fs_ops.py, fs_port.py, list_dir).  A path is the sequence of *)
(* its characters.                                                         *)
(***************************************************************************)
EXTENDS Naturals, Sequences

LOCAL INSTANCE SequencesExt

(* path.split("/")                                                         *)
Segments(p) ==
    FoldLeft(LAMBDA segs, ch : IF ch = "/" THEN Append(segs, << >>)
                               ELSE [segs EXCEPT ![Len(segs)] = Append(@, ch)],
             << << >> >>, p)

(* posixpath.normpath: one leading slash, or exactly two, are kept.        *)
LeadingSlashes(p) ==
    CASE ~IsPrefix(<<"/">>, p) -> 0
      [] IsPrefix(<<"/", "/">>, p) /\ ~IsPrefix(<<"/", "/", "/">>, p) -> 2
      [] OTHER -> 1

Up == <<".", ".">>

NormalSegments(p) ==
    FoldLeft(LAMBDA segs, s :
                CASE s \in {<< >>, <<".">>} -> segs
                  [] s = Up /\ segs # << >> /\ Last(segs) # Up -> Front(segs)
                  [] s = Up /\ segs = << >> /\ LeadingSlashes(p) > 0 -> segs
                  [] OTHER -> Append(segs, s),
             << >>, Segments(p))

JoinWith(segs) ==
    FoldLeft(LAMBDA p, s : IF p = << >> THEN s ELSE p \o <<"/">> \o s, << >>, segs)

Normpath(p) ==
    LET normal == [i \in 1..LeadingSlashes(p) |-> "/"] \o JoinWith(NormalSegments(p))
    IN  IF normal = << >> THEN <<".">> ELSE normal

EndsInSlash(p) == p # << >> /\ Last(p) = "/"

(* posixpath.join(cwd, path) for a path that is not absolute.              *)
Join(cwd, p) == IF cwd = << >> \/ EndsInSlash(cwd) THEN cwd \o p ELSE cwd \o <<"/">> \o p

Root == <<"/">>

ResolvePath(cwd, p) ==
    LET joined == IF IsPrefix(Root, p) THEN p ELSE Join(cwd, p)
        result == Normpath(joined)
    IN  IF EndsInSlash(joined) /\ result # Root THEN result \o Root ELSE result

(* _require_canonical                                                      *)
Canonical(p) ==
    /\ IsPrefix(Root, p)
    /\ LET check == IF EndsInSlash(p) /\ p # Root THEN Front(p) ELSE p
       IN  check = Normpath(check)

----------------------------------------------------------------------------
(* Listing.  `live` is the set of paths of the files that are not deleted. *)

DirectoryOf(p) == IF EndsInSlash(p) THEN p ELSE p \o Root

Remainder(prefix, p) == SubSeq(p, Len(prefix) + 1, Len(p))

Beneath(prefix, p) == IsPrefix(prefix, p)

(* list_dir: LIKE prefix%, and without recursion no slash after it.        *)
ListDir(live, prefix, recursive) ==
    {p \in live : Beneath(prefix, p) /\ (recursive \/ ~Contains(Remainder(prefix, p), "/"))}

FileEntry(p) == [path |-> p, isDir |-> EndsInSlash(p)]

(* A deeper path stands for the directory of its first segment.            *)
EntryFor(prefix, p) ==
    LET rest == Remainder(prefix, p)
    IN  IF Contains(rest, "/")
        THEN [path |-> prefix \o SubSeq(rest, 1, SelectInSeq(rest, LAMBDA ch : ch = "/")),
              isDir |-> TRUE]
        ELSE FileEntry(p)

(* _op_ls: the entries, before they are cut to max_result_items.           *)
Ls(live, dir) ==
    LET prefix == DirectoryOf(dir)
    IN  {EntryFor(prefix, p) : p \in ListDir(live, prefix, TRUE)}

(* SessionFsPort._list                                                     *)
MountList(live, dir) == ListDir(live, DirectoryOf(dir), FALSE)

(* SessionFsPort._stat: a row of files, deleted or not, comes before the   *)
(* directory of that name.                                                 *)
MountStat(live, rows, p) ==
    CASE p \in rows -> "file"
      [] p \notin rows /\ ListDir(live, DirectoryOf(p), TRUE) # {} -> "directory"
      [] OTHER -> "missing"
=============================================================================
