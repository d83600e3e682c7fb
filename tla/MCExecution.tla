---------------------------- MODULE MCExecution ----------------------------
(* Instance of Execution for TLC: one path, with a file or without one,    *)
(* writes within and beyond the caps.  The assumptions compare the path    *)
(* arithmetic of PathNames with what its callers rely on.                  *)
EXTENDS Execution, PathNames, TLC

CONSTANTS doc, cwd, p, q, r

MCData   == {{q}, {p, q, r}}
MCOthers == {{p, r}}

MCStarts == {doc :> [number |-> 0, content |-> {}, dead |-> FALSE],
             doc :> [number |-> 1, content |-> {p}, dead |-> FALSE]}

(* Everything; one that may not read the file, one that may only read it;  *)
(* one that may not execute and one that may not enter the directory.      *)
MCGrants ==
    LET Grant(f, d) == doc :> f @@ cwd :> d
    IN  {Grant(Permissions, Permissions), Grant({"write"}, Permissions), Grant({"read"}, Permissions),
         Grant(Permissions, {"read"}), Grant(Permissions, {"execute"})}

(* Which of the two calls in flight is which makes no difference: they are *)
(* only compared, and no property of the run is about liveness.            *)
Interchangeable == Permutations(Calls)

----------------------------------------------------------------------------
(* PathNames over every path of up to six characters.                      *)
NamesUpTo(n) == UNION {[1..k -> {"/", ".", "d"}] : k \in 0..n}
Dirs == {DirectoryOf(x) : x \in {y \in NamesUpTo(3) : Canonical(y)}}

(* What a Session resolves against its cwd the VFS never refuses, and      *)
(* resolving it again, from anywhere, changes nothing.  Exactly two slashes*)
(* at the start are the exception: posixpath keeps them, and of `//` alone *)
(* resolve_path makes `///`, which the VFS takes for canonical too.        *)
ASSUME ResolvedIsCanonical ==
    /\ \A x \in Dirs, y \in NamesUpTo(6) : LeadingSlashes(x) = 1 /\ LeadingSlashes(y) # 2 =>
          LET z == ResolvePath(x, y)
          IN  /\ Canonical(z) /\ LeadingSlashes(z) = 1
              /\ \A d \in Dirs : ResolvePath(d, z) = z
    /\ ResolvePath(Root, <<"/", "/">>) = <<"/", "/", "/">> /\ Canonical(<<"/", "/", "/">>)

(* A canonical path has no `.` or `..` segment, and two of the same        *)
(* segments that begin with one slash differ only in the slash at the end: *)
(* one place, one name.  `//d` is canonical as well, and another file.     *)
ASSUME OneNamePerPlace ==
    /\ \A x \in NamesUpTo(6) : Canonical(x) =>
          \A i \in 1..Len(Segments(x)) : Segments(x)[i] \notin {<<".">>, Up}
    /\ \A x, y \in {z \in NamesUpTo(4) : Canonical(z) /\ ~Beneath(<<"/", "/">>, z)} :
          NormalSegments(x) = NormalSegments(y) => DirectoryOf(x) = DirectoryOf(y)
    /\ Canonical(<<"/", "/", "d">>)

(* `ls` hides no file: each file beneath the directory is one entry, or is *)
(* beneath one entry; no entry is there without a file; and its plain      *)
(* files are those the mount lists.                                        *)
ASSUME ListingsAgree ==
    LET places == {x \in NamesUpTo(4) : Canonical(x)}
    IN  \A live \in {{x, y, z} : x, y, z \in places} : \A d \in Dirs :
            LET below == {x \in live : Beneath(DirectoryOf(d), x)}
            IN  /\ \A x \in below :
                     Cardinality({e \in Ls(live, d) :
                         e.path = x \/ (e.isDir /\ e.path # d /\ Beneath(e.path, x))}) = 1
                /\ \A e \in Ls(live, d) : \E x \in below : Beneath(e.path, x)
                /\ {e.path : e \in {f \in Ls(live, d) : ~f.isDir}}
                     = {x \in MountList(live, d) : ~EndsInSlash(x)}
                /\ d \notin live => (MountStat(live, live, d) = "directory" <=> Ls(live, d) # {})

(* The row a deleted file leaves hides the directory of its name: the mount*)
(* calls it a file while files beneath it are listed.                      *)
ASSUME DeletedRowHidesDirectory ==
    LET file == <<"/", "d">>
        live == {file \o <<"/", "d">>}
    IN  Ls(live, file) # {} /\ MountStat(live, live \cup {file}, file) = "file"
=============================================================================
