------------------------------ MODULE MCVfsGc ------------------------------
(* Instances of VfsGc for TLC: a file with a history to collect, and the   *)
(* calls that meet the collector.                                          *)
EXTENDS VfsGc, TLC

CONSTANTS a, b, h1, h2, h3

MCPaths == {a, b}
MCHashes == {h1, h2, h3}
MCTextHashes == {h1, h2}

Row(p, n, h) == [path |-> p, number |-> n, hash |-> h, tombstone |-> FALSE]

(* a: h1, h2, h1, h3 - version 2 alone holds h2, and is the first to go.   *)
MCInitVersions == {Row(a, 1, h1), Row(a, 2, h2), Row(a, 3, h1), Row(a, 4, h3)}
MCInitFiles == (a :> [number |-> 4, deleted |-> FALSE]) @@ (b :> [number |-> 0, deleted |-> FALSE])

CallOf(kind, from, to, h, e, n) ==
    [kind |-> kind, path |-> to, from |-> from, hash |-> h, expected |-> e, target |-> n]

Write(p, h)    == CallOf("write", p, p, h, NoCas, 0)
Delete(p)      == CallOf("delete", p, p, h1, NoCas, 0)
Copy(p, q)     == CallOf("copy", p, q, h1, NoCas, 0)
Move(p, q)     == CallOf("move", p, q, h1, NoCas, 0)
Rollback(p, n) == CallOf("rollback", p, p, h1, NoCas, n)
ReadAt(p, n)   == CallOf("read", p, p, h1, NoCas, n)
Reindex(p)     == CallOf("reindex", p, p, h1, NoCas, 0)

(* New content, content whose last reference is being collected, and every *)
(* way of reading a version that may be gone when it is used.              *)
GcCalls ==
    {Write(a, h1), Write(a, h2), Delete(a), Copy(a, b), Move(a, b),
     Rollback(a, 2), ReadAt(a, 2), Reindex(a)}

RequestSymmetry == Permutations(Requests)
=============================================================================
