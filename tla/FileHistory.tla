---------------------------- MODULE FileHistory ----------------------------
(***************************************************************************)
(* What the VFS promises its callers about one namespace: each path has an *)
(* append-only history of entries, a request changes histories at most     *)
(* once and in one step, however often it is retried inside, and the       *)
(* version number a request is given is the position of its entry.         *)
(***************************************************************************)
EXTENDS Naturals, Sequences

CONSTANTS
    Requests,
    Calls,           \* what a request may ask
    Paths,
    Contents,        \* what a version may hold
    Empty,           \* the content of a tombstone
    NoCas,           \* a call that expects no particular version
    InitHistory      \* the histories when the requests arrive

VARIABLES
    call,            \* [Requests -> Calls]
    history,         \* [Paths -> Seq(Entry)]
    position         \* [Requests -> Nat]: the version a request made, 0 if none

hvars == <<call, history, position>>

Entry == [hash : Contents \cup {Empty}, tombstone : BOOLEAN]

Holding(h) == [hash |-> h, tombstone |-> FALSE]
Tombstone  == [hash |-> Empty, tombstone |-> TRUE]

Init ==
    /\ call \in [Requests -> Calls]
    /\ history = InitHistory
    /\ position = [r \in Requests |-> 0]

Asks(r, kind) == call[r].kind = kind /\ position[r] = 0

(* The histories with e on top of the one of p.                            *)
With(p, e) == [history EXCEPT ![p] = Append(@, e)]

(* r is given the position after the last entry of its path.               *)
Positioned(r) == [position EXCEPT ![r] = Len(history[call[r].path]) + 1]

Extend(r, e) ==
    /\ history' = With(call[r].path, e)
    /\ position' = Positioned(r)
    /\ UNCHANGED call

(* A caller with compare-and-swap appends to the length it expects.        *)
AsExpected(r) ==
    call[r].expected # NoCas => Len(history[call[r].path]) = call[r].expected

LiveEntries(p) == {e \in {history[p][i] : i \in DOMAIN history[p]} : ~e.tombstone}

Write(r) == Asks(r, "write") /\ AsExpected(r) /\ Extend(r, Holding(call[r].hash))

Copy(r) ==
    /\ Asks(r, "copy")
    /\ AsExpected(r)
    /\ \E e \in LiveEntries(call[r].from) : Extend(r, e)

(* The entry it names, a tombstone's empty content included.               *)
Rollback(r) ==
    /\ Asks(r, "rollback")
    /\ call[r].target \in DOMAIN history[call[r].path]
    /\ Extend(r, Holding(history[call[r].path][call[r].target].hash))

(* Hides what is there, and removes nothing.                               *)
Delete(r) ==
    /\ Asks(r, "delete")
    /\ history[call[r].path] # << >>
    /\ Extend(r, Tombstone)

(* The content at one end and the tombstone at the other, at once.         *)
Move(r) ==
    /\ Asks(r, "move")
    /\ call[r].from # call[r].path
    /\ \E e \in LiveEntries(call[r].from) :
        history' = [With(call[r].path, e) EXCEPT ![call[r].from] = Append(@, Tombstone)]
    /\ position' = Positioned(r)
    /\ UNCHANGED call

(* A move that lost a race for its destination takes an entry of another   *)
(* request for its own, and only hides its source.                         *)
Retire(r) ==
    /\ Asks(r, "move")
    /\ history' = With(call[r].from, Tombstone)
    /\ \E n \in DOMAIN history[call[r].path] : position' = [position EXCEPT ![r] = n]
    /\ UNCHANGED call

Next ==
    \E r \in Requests :
        Write(r) \/ Copy(r) \/ Rollback(r) \/ Delete(r) \/ Move(r) \/ Retire(r)

Spec == Init /\ [][Next]_hvars
=============================================================================
