------------------------------ MODULE MCSearch ------------------------------
(* Instance of Search for TLC: one caller reads a subtree whose rows change  *)
(* while it searches; another file lies beside the subtree, under a name     *)
(* the subtree's is the beginning of.                                        *)
EXTENDS Search, TLC

CONSTANTS root, agent, slash, w, s, x, h1, h2, hb

MCPrincipals == {root, agent}

Work   == <<slash, w>>
FileX  == <<slash, w, slash, x>>
Beside == <<slash, w, s>>
WorkDir == <<slash, w, slash>>
MCPaths == {<<slash>>, Work, WorkDir, FileX, Beside}

Change(kind, by, to, prefix, ops) ==
    [kind |-> kind, by |-> by, row |-> [who |-> to, prefix |-> prefix, ops |-> ops]]

MCInitLog == << Change("bootstrap", root, root, <<slash>>, {"admin"}),
                Change("grant", root, agent, <<slash>>, {"read"}),
                Change("grant", root, agent, Work, {}) >>

MCAsks == {Change("grant", root, agent, Work, {"read"})}

MCQueries == {[kind |-> k, who |-> agent, scope |-> WorkDir] : k \in Kinds \ {"regex"}}
             \cup {[kind |-> "regex", who |-> agent, scope |-> <<slash>>]}

(* The rows change during the searches of the subtree, and before or after *)
(* the one of the root.                                                    *)
RowsSettled ==
    \A q \in Searchers : sc[q] # "idle" /\ query[q].kind = "regex" =>
        \A c \in Clients : pc[c] = "idle"

(* One file was indexed under a configuration that is no longer in use.      *)
MCInitFiles == FileX :> [number |-> 1, hash |-> h1, dead |-> FALSE, artifact |-> "ready"]
               @@ Beside :> [number |-> 1, hash |-> h2, dead |-> FALSE, artifact |-> NoText]

MCCommits == {[path |-> FileX, hash |-> hb]}
=============================================================================
