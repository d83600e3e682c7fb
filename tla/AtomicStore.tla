---------------------------- MODULE AtomicStore ----------------------------
(***************************************************************************)
(* What a SQL metadata store promises the components above it: every unit  *)
(* of work - one store operation, or one transaction() block - happens in  *)
(* one step or not at all, a unit that fails says so and leaves no trace,  *)
(* and a text search answers from the committed text alone, once for each  *)
(* visible content.  Only a cancelled caller cannot tell.                  *)
(***************************************************************************)
EXTENDS Naturals, FiniteSets

CONSTANTS
    Tasks,           \* the coroutines, each with one unit of work
    Units,
    Hashes,
    Hits(_),         \* the contents a query matches
    InitRows,        \* the versions at the start
    InitCurrent,     \* the numbers of the current versions, by path
    InitText,        \* the hashes whose text is stored
    NoRow

VARIABLES
    rows,            \* the versions, [path, number, hash, ready]
    current,
    text,
    open,            \* initialize() has returned
    native,          \* it found the text index usable
    unit,            \* the work of each task
    status,
    known,           \* the current version of its path when the task began
    visible,         \* the contents a search may report, listed when it began
    answer           \* what a search returned: how often each content

tables == <<rows, current, text>>
avars == <<tables, open, native, unit, status, known, visible, answer>>

NoAnswer == [h \in Hashes |-> 0]

Init ==
    /\ rows = InitRows
    /\ current = InitCurrent
    /\ text = InitText
    /\ open = FALSE
    /\ native = FALSE
    /\ unit \in [Tasks -> Units]
    /\ status = [t \in Tasks |-> "idle"]
    /\ known = [t \in Tasks |-> NoRow]
    /\ visible = [t \in Tasks |-> {}]
    /\ answer = [t \in Tasks |-> NoAnswer]

----------------------------------------------------------------------------
Taken(p, n) == \E v \in rows : v.path = p /\ v.number = n

IsCurrent(v) == v \in rows /\ v.number = current[v.path]

KnownNow(p) == IF \E v \in rows : v.path = p /\ IsCurrent(v)
               THEN CHOOSE v \in rows : v.path = p /\ IsCurrent(v) ELSE NoRow

Start(t) ==
    /\ open
    /\ status[t] = "idle"
    /\ unit[t].kind \in {"search", "reindex"} => native
    /\ known' = [known EXCEPT ![t] = KnownNow(unit[t].path)]
    /\ unit[t].kind = "reindex" => known'[t] # NoRow
    /\ visible' = [visible EXCEPT ![t] = {v.hash : v \in {w \in rows : IsCurrent(w) /\ w.ready}}]
    /\ status' = [status EXCEPT ![t] = "asked"]
    /\ UNCHANGED <<tables, open, native, unit, answer>>

(* The version a write makes: the number after the one it knows.           *)
Made(t) == [path |-> unit[t].path, number |-> known[t].number + 1,
            hash |-> unit[t].hash, ready |-> native]

Occupied(t)   == Taken(Made(t).path, Made(t).number)
AsExpected(t) == current[unit[t].path] = unit[t].expected

MayPut(t) ==
    /\ ~Occupied(t)
    /\ unit[t].kind = "cas" => AsExpected(t)

Put(t) ==
    /\ unit[t].kind \in {"write", "cas"}
    /\ MayPut(t)
    /\ rows' = rows \cup {Made(t)}
    /\ current' = [current EXCEPT ![unit[t].path] = Made(t).number]
    /\ text' = IF native THEN text \cup {unit[t].hash} ELSE text

(* The versions of a path below the one that was current.                  *)
Prune(t) ==
    /\ unit[t].kind = "prune"
    /\ rows' = {v \in rows : v.path = unit[t].path => v.number >= known[t].number}
    /\ UNCHANGED <<current, text>>

(* Text without a version that refers to it.                               *)
Sweep(t) ==
    /\ unit[t].kind = "sweep"
    /\ text' = IF native /\ ~ \E v \in rows : v.hash = unit[t].hash
               THEN text \ {unit[t].hash} ELSE text
    /\ UNCHANGED <<rows, current>>

(* Text and artifact of the version that was current, if it is still there.*)
Reindex(t) ==
    /\ unit[t].kind = "reindex"
    /\ text' = text \cup {known[t].hash}
    /\ rows' = {IF v.path = known[t].path /\ v.number = known[t].number
                THEN [v EXCEPT !.ready = TRUE] ELSE v : v \in rows}
    /\ UNCHANGED current

Change(t) == Put(t) \/ Prune(t) \/ Sweep(t) \/ Reindex(t)

End(t, how) ==
    /\ status[t] = "asked"
    /\ status' = [status EXCEPT ![t] = how]
    /\ known' = [known EXCEPT ![t] = NoRow]
    /\ visible' = [visible EXCEPT ![t] = {}]
    /\ UNCHANGED <<open, native, unit>>

Perform(t) == Change(t) /\ End(t, "done") /\ UNCHANGED answer

Answer(t) == [h \in Hashes |-> IF h \in visible[t] \cap text \cap Hits(unit[t].query) THEN 1 ELSE 0]

Search(t) ==
    /\ unit[t].kind = "search"
    /\ answer' = [answer EXCEPT ![t] = Answer(t)]
    /\ End(t, "done")
    /\ UNCHANGED tables

(* VersionCollisionError for a write whose number is taken, ConflictError  *)
(* for a file that is not at the expected version, and the error of the    *)
(* database itself for a compare-and-swap that finds the file as expected  *)
(* but its own number taken.                                               *)
Refuse(t) ==
    /\ \/ unit[t].kind = "write" /\ Occupied(t) /\ End(t, "collision")
       \/ unit[t].kind = "cas" /\ ~AsExpected(t) /\ End(t, "conflict")
       \/ unit[t].kind = "cas" /\ AsExpected(t) /\ Occupied(t) /\ End(t, "integrity")
    /\ UNCHANGED <<tables, answer>>

Fail(t) == End(t, "failed") /\ UNCHANGED <<tables, answer>>

Cancel(t) ==
    /\ End(t, "gone")
    /\ Change(t) \/ UNCHANGED tables
    /\ UNCHANGED answer

(* The process dies with everything in it, and may come back with or       *)
(* without the text index.                                                 *)
Die ==
    /\ open' = FALSE
    /\ native' = FALSE
    /\ status' = [t \in Tasks |-> IF status[t] = "asked" THEN "gone" ELSE status[t]]
    /\ known' = [t \in Tasks |-> NoRow]
    /\ visible' = [t \in Tasks |-> {}]
    /\ UNCHANGED <<tables, unit, answer>>

Open ==
    /\ ~open
    /\ open' = TRUE
    /\ native' \in BOOLEAN
    /\ UNCHANGED <<tables, unit, status, known, visible, answer>>

Next ==
    \/ \E t \in Tasks : \/ Start(t) \/ Perform(t) \/ Search(t)
                        \/ Refuse(t) \/ Fail(t) \/ Cancel(t)
    \/ Die \/ Open

Spec == Init /\ [][Next]_avars
=============================================================================
