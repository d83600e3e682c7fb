----------------------------- MODULE MCMongoGc ------------------------------
(* Instance of MongoGc for TLC.                                            *)
EXTENDS MongoGc, TLC

CONSTANTS a, b, h1, h2

MCPaths == {a, b}
MCHashes == {h1, h2}

MCInitVersions == {[path |-> a, number |-> n, hash |-> h1, tombstone |-> FALSE] : n \in 1..3}
MCInitFiles == (a :> [number |-> 3, deleted |-> FALSE]) @@ (b :> [number |-> 0, deleted |-> FALSE])

CallOf(kind, from, to, h, e, n) ==
    [kind |-> kind, path |-> to, from |-> from, hash |-> h, expected |-> e, target |-> n]

Write(p, e)    == CallOf("write", p, p, h2, e, 0)
Delete(p)      == CallOf("delete", p, p, h1, NoCas, 0)
Copy(p, q)     == CallOf("copy", p, q, h1, NoCas, 0)
Move(p, q)     == CallOf("move", p, q, h1, NoCas, 0)

(* A writer with and one without CAS, the former expecting a version that  *)
(* is not there yet, and the calls that read, move or delete beside them.  *)
MongoCalls == {Write(a, NoCas), Write(a, 4), Delete(a), Copy(a, b), Move(a, b)}

(* A collection runs beside two requests; all three requests run without.  *)
TwoBesideGc == runs > 0 => \E r \in Requests : pc[r] = FirstStep(call[r].kind)

RequestSymmetry == Permutations(Requests)
=============================================================================
