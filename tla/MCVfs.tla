------------------------------- MODULE MCVfs -------------------------------
(* Instances of VfsHistory for TLC: two paths, one of them with a version  *)
(* left by an earlier write, and the calls that can meet on them.          *)
EXTENDS VfsHistory, TLC

CONSTANTS a, b, h1, h2

MCPaths == {a, b}
MCHashes == {h1, h2}
MCTextHashes == {h1, h2}

MCInitVersions == {[path |-> a, number |-> 1, hash |-> h1, tombstone |-> FALSE]}
MCInitFiles == (a :> [number |-> 1, deleted |-> FALSE]) @@ (b :> [number |-> 0, deleted |-> FALSE])

CallOf(kind, from, to, h, e, n) ==
    [kind |-> kind, path |-> to, from |-> from, hash |-> h, expected |-> e, target |-> n]

Write(p, e)   == CallOf("write", p, p, h2, e, 0)
Delete(p)     == CallOf("delete", p, p, h1, NoCas, 0)
Copy(p, q, e) == CallOf("copy", p, q, h1, e, 0)
Move(p, q)    == CallOf("move", p, q, h1, NoCas, 0)
Rollback(p, n) == CallOf("rollback", p, p, h1, NoCas, n)
Read(p)       == CallOf("read", p, p, h1, NoCas, 0)
Reindex(p)    == CallOf("reindex", p, p, h1, NoCas, 0)

(* Everything at once on a and b.                                          *)
AllCalls ==
    {Write(a, NoCas), Write(b, NoCas), Write(a, 1), Write(b, 1), Delete(a), Delete(b),
     Copy(a, b, NoCas), Copy(a, b, 1), Move(a, b), Move(a, a), Rollback(a, 1), Rollback(a, 2),
     Read(a), Reindex(a)}

(* The calls of a move race: the mover and a writer of either end.         *)
MoveDstCalls == {Move(a, b), Write(b, NoCas)}

RequestSymmetry == Permutations(Requests)
=============================================================================
