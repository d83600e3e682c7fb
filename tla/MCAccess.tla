------------------------------ MODULE MCAccess ------------------------------
(* Instance of Access for TLC: an administrator, a principal it delegates  *)
(* the subtree /w to, and a second caller of bootstrap_admin.              *)
EXTENDS Access, TLC

CONSTANTS root, agent, slash, w, s, x

MCPrincipals == {root, agent}

Work      == <<slash, w>>
WorkDir   == <<slash, w, slash>>
Workspace == <<slash, w, s>>
File      == <<slash, w, slash, x>>
MCPaths == {<<slash>>, Work, WorkDir, Workspace, File}

Door(p) == [kind |-> "bootstrap", by |-> p,
            row |-> [who |-> p, prefix |-> <<slash>>, ops |-> {"admin"}]]
Give(by, to, prefix, ops) ==
    [kind |-> "grant", by |-> by, row |-> [who |-> to, prefix |-> prefix, ops |-> ops]]

(* The last three need authority that the delegate has not been given, or   *)
(* that it may have lost to a narrower or a replaced row when it asks.      *)
MCAsks ==
    {Door(root), Door(agent),
     Give(root, agent, Work, {"admin", "read"}),
     Give(root, agent, WorkDir, {"read"}),
     Give(root, root, <<slash>>, {"read"}),
     Give(agent, agent, File, {"admin", "write"}),
     Give(agent, agent, Workspace, {"read"}),
     Give(agent, root, Work, {})}

MCInitLog == <<>>

MCSymmetry == Permutations(Clients) \cup Permutations(Creators)
=============================================================================
