------------------------------ MODULE SqlStore ------------------------------
(***************************************************************************)
(* How the SQL metadata store (sql_metadata.py, sqlite_metadata.py) turns  *)
(* statements on one shared connection into units of work.  _operation()   *)
(* and transaction() hold an asyncio.Lock from the first statement to the  *)
(* commit or rollback; _in_txn, a task-local flag, lets the operations of  *)
(* a transaction() block run inside it.  Every statement is an await, at   *)
(* which the driver may fail or the task may be cancelled: CancelledError  *)
(* is no Exception, so the code does not roll back, and SQLAlchemy         *)
(* (external) drops the connection, whose next user has to roll back and   *)
(* fail.  The process may die and initialize() the store again, which      *)
(* completes the word index of texts stored without one.                   *)
(***************************************************************************)
EXTENDS RegexPrefilter, FiniteSets

CONSTANTS
    Tasks,           \* the coroutines, each with one unit of work
    Units,           \* [kind, path, hash, expected, query]
    Loads,           \* the ways the units are given to the tasks
    Hashes,
    Contents,        \* [Hashes -> Seq(character)]: the texts, one line each
    Tokens,          \* [Hashes -> SUBSET word]: their unicode61 tokens
    InitTables,      \* the database the process opens
    NoRow,
    Nobody,
    MaxDeaths        \* bound on the deaths of the process

VARIABLES
    disk,            \* the committed tables
    work,            \* the tables as the connection's transaction sees them
    conn,            \* "ok", or "invalid": cancelled inside a transaction
    lock,            \* the holder of self._lock
    inTxn,           \* _in_txn of each task
    up,              \* how far initialize() is
    native,          \* _nts is set
    pc,
    unit,
    place,           \* the operation and the statement a task is at
    outcome,         \* how it will end once it has rolled back
    known,           \* the current version of its path when it began
    visible,         \* the contents a search may report, listed when it began
    answer,          \* how often a search found each content
    owed,            \* history: cancellations that dropped the connection less
                     \* the units that failed for it
    deaths

store == <<disk, work, conn, lock, inTxn>>
task  == <<pc, unit, place, outcome, known, visible, answer>>
life  == <<up, native, deaths>>
vars  == <<store, task, life, owed>>

ASSUME SqlAssumption ==
    /\ Loads \subseteq [Tasks -> Units]
    /\ Nobody \notin Tasks
    /\ MaxDeaths \in Nat
    /\ \A u \in Units : u.kind \in {"write", "cas", "prune", "sweep", "reindex", "search"}
    /\ \A v \in InitTables.rows : v.ready => v.hash \in InitTables.raw

(* The trigram table was always written with the texts; the word table may *)
(* be newer than some of them.                                             *)
ASSUME TablesAssumption ==
    /\ DOMAIN InitTables = {"rows", "current", "raw", "fts", "words"}
    /\ InitTables.fts \in [Hashes -> Nat] /\ InitTables.words \in [Hashes -> Nat]
    /\ \A h \in Hashes :
          LET stored == IF h \in InitTables.raw THEN 1 ELSE 0 IN
          InitTables.fts[h] = stored /\ InitTables.words[h] <= stored

Ended   == {"done", "collision", "conflict", "integrity", "failed", "gone"}
Running == {"begin", "enter", "run", "commit", "rollback"}

NoAnswer == [h \in Hashes |-> 0]

FirstPlace == [op |-> 1, stmt |-> 1]

----------------------------------------------------------------------------
(* The tables: versions and file pointers, the stored texts, and how many  *)
(* rows of a text each FTS5 table has (they have no unique index).         *)
Taken(T, p, n) == \E v \in T.rows : v.path = p /\ v.number = n

IsCurrent(T, v) == v \in T.rows /\ v.number = T.current[v.path]

KnownNow(p) == IF \E v \in disk.rows : v.path = p /\ IsCurrent(disk, v)
               THEN CHOOSE v \in disk.rows : v.path = p /\ IsCurrent(disk, v) ELSE NoRow

Referenced(T, h) == \E v \in T.rows : v.hash = h

(* The units as operations, each a sequence of statements.                 *)
IndexText == <<"text", "-fts", "+fts", "-words", "+words">>

Program(t) ==
    LET texts == IF native THEN <<IndexText>> ELSE << >> IN
    CASE unit[t].kind = "write"   -> Append(texts, <<"insert", "point">>)
      [] unit[t].kind = "cas"     -> Append(texts, <<"swap", "insert">>)
      [] unit[t].kind = "prune"   -> << <<"drop">> >>
      [] unit[t].kind = "sweep"   ->
            IF native THEN << <<"references">>, <<"-text", "-fts", "-words">> >>
                      ELSE << <<"references">> >>
      [] unit[t].kind = "reindex" -> <<IndexText, <<"manifest", "artifact">> >>
      [] unit[t].kind = "search"  -> << <<"select">> >>

(* write opens a transaction() only to index text with the version.        *)
Transactional(t) ==
    unit[t].kind \in {"sweep", "reindex"} \/ (native /\ unit[t].kind \in {"write", "cas"})

Statement(t) == Program(t)[place[t].op][place[t].stmt]

TextOf(t) == IF unit[t].kind = "reindex" THEN known[t].hash ELSE unit[t].hash

NewRow(t) == [path |-> unit[t].path, number |-> known[t].number + 1,
              hash |-> unit[t].hash, ready |-> native]

IsKnown(v, t) == v.path = known[t].path /\ v.number = known[t].number

Effect(t) ==
    LET h == TextOf(t)
        s == Statement(t) IN
    CASE s = "text"   -> [work EXCEPT !.raw = @ \cup {h}]
      [] s = "-text"  -> [work EXCEPT !.raw = @ \ {h}]
      [] s = "-fts"   -> [work EXCEPT !.fts[h] = 0]
      [] s = "+fts"   -> [work EXCEPT !.fts[h] = @ + 1]
      [] s = "-words" -> [work EXCEPT !.words[h] = 0]
      [] s = "+words" -> [work EXCEPT !.words[h] = @ + 1]
      [] s = "insert" -> [work EXCEPT !.rows = @ \cup {NewRow(t)}]
      [] s \in {"point", "swap"} -> [work EXCEPT !.current[unit[t].path] = NewRow(t).number]
      [] s = "drop"   -> [work EXCEPT !.rows =
                            {v \in @ : v.path = unit[t].path => v.number >= known[t].number}]
      [] s = "artifact" -> [work EXCEPT !.rows =
                            {IF IsKnown(v, t) THEN [v EXCEPT !.ready = TRUE] ELSE v : v \in @}]
      [] s \in {"references", "manifest", "select"} -> work

(* The unique index, and the swap that matches no row.                     *)
Collides(t)  == Statement(t) = "insert" /\ Taken(work, unit[t].path, NewRow(t).number)
Conflicts(t) == Statement(t) = "swap" /\ work.current[unit[t].path] # unit[t].expected

(* The unit has nothing more to do: the sweep found a reference, or the    *)
(* version to attach the artifact to is gone.                              *)
Returns(t) ==
    \/ Statement(t) = "references" /\ Referenced(work, unit[t].hash)
    \/ Statement(t) = "manifest" /\ ~ \E v \in work.rows : IsKnown(v, t)

LastStatement(t) == place[t].stmt = Len(Program(t)[place[t].op])
LastOperation(t) == place[t].op = Len(Program(t))

----------------------------------------------------------------------------
(* Searching: one SELECT and a check of every row it returns.              *)

Queries == {u.query : u \in Units}

(* The contents each query matches, by RE2 or by their words.              *)
HitsOf ==
    [q \in Queries |->
        {h \in Hashes :
            CASE q.kind = "regex" -> Matches(q.pattern, Contents[h])
              [] q.kind = "all"   -> q.words # {} /\ q.words \subseteq Tokens[h]
              [] q.kind = "any"   -> q.words \cap Tokens[h] # {}}]

Hits(q) == HitsOf[q]

(* A literal with a quotation mark is not handed to FTS5.                  *)
Prefilter(q) ==
    LET l == Literal(Written(q.pattern)) IN IF Contains(l, "\"") THEN NoLiteral ELSE l

(* How a query asks for candidates: the trigram table if the pattern has a *)
(* literal, else all the texts; the word table for full text.              *)
SourceOf ==
    [q \in Queries |-> IF q.kind # "regex" THEN "words"
                       ELSE IF Prefilter(q) = NoLiteral THEN "raw" ELSE "fts"]

WithLiteral ==
    [q \in Queries |-> {h \in Hashes : SourceOf[q] = "fts" =>
                                          Prefilter(q) \in SubSeqs(Contents[h])}]

(* Every text a query matches contains the literal its prefilter asks for. *)
LiteralsAreMandatory ==
    \A q \in Queries : SourceOf[q] = "fts" => Hits(q) \subseteq WithLiteral[q]

(* The rows that come back for a content.                                  *)
Candidates(q, h) ==
    CASE SourceOf[q] = "words" -> IF h \in Hits(q) THEN work.words[h] ELSE 0
      [] SourceOf[q] = "raw"   -> IF h \in work.raw THEN 1 ELSE 0
      [] SourceOf[q] = "fts"   -> IF h \in WithLiteral[q] THEN work.fts[h] ELSE 0

(* Only visible contents are reported, and only what RE2 matches.          *)
Found(t) ==
    [h \in Hashes |-> IF h \in visible[t] \cap Hits(unit[t].query)
                      THEN Candidates(unit[t].query, h) ELSE 0]

----------------------------------------------------------------------------
Init ==
    /\ disk = InitTables
    /\ work = InitTables
    /\ conn = "ok"
    /\ lock = Nobody
    /\ inTxn = [t \in Tasks |-> FALSE]
    /\ up = "down"
    /\ native = FALSE
    /\ pc = [t \in Tasks |-> "idle"]
    /\ unit \in Loads
    /\ place = [t \in Tasks |-> FirstPlace]
    /\ outcome = [t \in Tasks |-> "done"]
    /\ known = [t \in Tasks |-> NoRow]
    /\ visible = [t \in Tasks |-> {}]
    /\ answer = [t \in Tasks |-> NoAnswer]
    /\ owed = 0
    /\ deaths = 0

Goto(t, l) == pc' = [pc EXCEPT ![t] = l]

(* What a unit works on was read in earlier operations of its task.        *)
Start(t) ==
    /\ up = "open"
    /\ pc[t] = "idle"
    /\ unit[t].kind \in {"search", "reindex"} => native
    /\ known' = [known EXCEPT ![t] = KnownNow(unit[t].path)]
    /\ unit[t].kind = "reindex" => known'[t] # NoRow
    /\ visible' = [visible EXCEPT ![t] =
                    {v.hash : v \in {w \in disk.rows : IsCurrent(disk, w) /\ w.ready}}]
    /\ Goto(t, IF Transactional(t) THEN "begin" ELSE "enter")
    /\ UNCHANGED <<store, life, unit, place, outcome, answer, owed>>

(* transaction(): async with self._lock; _in_txn.set(True)                 *)
BeginTransaction(t) ==
    /\ pc[t] = "begin"
    /\ lock = Nobody
    /\ lock' = t
    /\ inTxn' = [inTxn EXCEPT ![t] = TRUE]
    /\ Goto(t, "enter")
    /\ UNCHANGED <<disk, work, conn, life, unit, place, outcome, known, visible, answer, owed>>

(* Mutant: an operation runs on the connection whoever holds the lock.     *)
EnterUnlocked(t) ==
    /\ pc[t] = "enter"
    /\ lock' = t
    /\ Goto(t, "run")
    /\ UNCHANGED <<disk, work, conn, inTxn, life, unit, place, outcome, known, visible, answer, owed>>

(* Mutant: an operation inside a transaction() takes the lock again.       *)
EnterRelocking(t) ==
    /\ pc[t] = "enter"
    /\ lock = Nobody
    /\ lock' = t
    /\ Goto(t, "run")
    /\ UNCHANGED <<disk, work, conn, inTxn, life, unit, place, outcome, known, visible, answer, owed>>

(* _operation(): inside a transaction() of this task nothing is to be done.*)
EnterOperation(t) ==
    /\ pc[t] = "enter"
    /\ inTxn[t] \/ lock = Nobody
    /\ lock' = t
    /\ Goto(t, "run")
    /\ UNCHANGED <<disk, work, conn, inTxn, life, unit, place, outcome, known, visible, answer, owed>>

Execute(t) ==
    /\ pc[t] = "run"
    /\ conn = "ok"
    /\ ~Collides(t) /\ ~Conflicts(t)
    /\ work' = Effect(t)
    /\ answer' = [answer EXCEPT ![t] = IF Statement(t) = "select" THEN Found(t) ELSE @]
    /\ place' = [place EXCEPT ![t] =
                    CASE ~LastStatement(t) -> [op |-> @.op, stmt |-> @.stmt + 1]
                      [] LastStatement(t) /\ ~LastOperation(t) -> [op |-> @.op + 1, stmt |-> 1]
                      [] LastStatement(t) /\ LastOperation(t) -> @]
    /\ Goto(t, CASE Returns(t) \/ (LastStatement(t) /\ LastOperation(t)) -> "commit"
                 [] ~Returns(t) /\ LastStatement(t) /\ ~LastOperation(t) -> "enter"
                 [] ~Returns(t) /\ ~LastStatement(t) -> "run")
    /\ UNCHANGED <<disk, conn, lock, inTxn, life, unit, outcome, known, visible, owed>>

RaiseAs(t, how) ==
    /\ outcome' = [outcome EXCEPT ![t] = how]
    /\ Goto(t, "rollback")
    /\ UNCHANGED <<store, life, unit, place, known, visible, answer>>

(* VersionCollisionError for the IntegrityError of an unconditional insert *)
(* only: after a swap it goes up as it is.  ConflictError if the swap      *)
(* matched no row.                                                         *)
Raise(t) ==
    /\ pc[t] = "run"
    /\ conn = "ok"
    /\ \/ Collides(t) /\ unit[t].kind = "write" /\ RaiseAs(t, "collision")
       \/ Collides(t) /\ unit[t].kind = "cas" /\ RaiseAs(t, "integrity")
       \/ Conflicts(t) /\ RaiseAs(t, "conflict")
    /\ UNCHANGED owed

(* Any other error of the driver, at a statement or at the commit.         *)
Break(t) ==
    /\ pc[t] \in {"run", "commit"}
    /\ conn = "ok"
    /\ RaiseAs(t, "failed")
    /\ UNCHANGED owed

(* PendingRollbackError: the statement is not even sent.                   *)
PendingRollback(t) ==
    /\ pc[t] = "run"
    /\ conn = "invalid"
    /\ RaiseAs(t, "failed")
    /\ owed' = owed - 1

(* The locals of a call end with it; the async with blocks release the     *)
(* lock and reset _in_txn.                                                 *)
Forget(t) ==
    /\ place' = [place EXCEPT ![t] = FirstPlace]
    /\ outcome' = [outcome EXCEPT ![t] = "done"]
    /\ known' = [known EXCEPT ![t] = NoRow]
    /\ visible' = [visible EXCEPT ![t] = {}]

Release(t) ==
    /\ lock' = Nobody
    /\ inTxn' = [inTxn EXCEPT ![t] = FALSE]
    /\ Forget(t)

Commit(t) ==
    /\ pc[t] = "commit"
    /\ disk' = work
    /\ Release(t)
    /\ Goto(t, "done")
    /\ UNCHANGED <<work, conn, life, unit, answer, owed>>

(* Mutant: only the errors the store raises itself are rolled back.        *)
RollbackOwnErrors(t) ==
    /\ pc[t] = "rollback"
    /\ work' = IF outcome[t] = "failed" THEN work ELSE disk
    /\ conn' = IF outcome[t] = "failed" THEN conn ELSE "ok"
    /\ Release(t)
    /\ Goto(t, outcome[t])
    /\ UNCHANGED <<disk, life, unit, answer, owed>>

(* except Exception: await self._db.rollback(); raise                      *)
Rollback(t) ==
    /\ pc[t] = "rollback"
    /\ work' = disk
    /\ conn' = "ok"
    /\ Release(t)
    /\ Goto(t, outcome[t])
    /\ UNCHANGED <<disk, life, unit, answer, owed>>

(* Cancelled while it waits for the lock, the task holds nothing.          *)
CancelWaiting(t) ==
    /\ pc[t] \in {"begin", "enter"}
    /\ ~inTxn[t]
    /\ Forget(t)
    /\ Goto(t, "gone")
    /\ UNCHANGED <<store, life, unit, answer, owed>>

(* Cancelled at an await on the connection: no except clause applies, the  *)
(* connection is dropped with what it has not committed, and a commit that *)
(* was under way may have been carried out.  Only a rollback that is       *)
(* cancelled leaves nothing to roll back.                                  *)
CancelWorking(t) ==
    /\ pc[t] \in {"run", "commit", "rollback"}
    /\ conn = "ok"
    /\ disk' \in (IF pc[t] = "commit" THEN {disk, work} ELSE {disk})
    /\ work' = disk'
    /\ conn' = IF pc[t] = "rollback" THEN "ok" ELSE "invalid"
    /\ owed' = IF pc[t] = "rollback" THEN owed ELSE owed + 1
    /\ Release(t)
    /\ Goto(t, "gone")
    /\ UNCHANGED <<life, unit, answer>>

----------------------------------------------------------------------------
(* initialize(), with no task at work.                                     *)
InitStep(from, to) ==
    /\ up = from
    /\ up' = to
    /\ UNCHANGED <<conn, lock, inTxn, task, deaths, owed>>

(* The engine, the connection, create_all and the two virtual tables: all  *)
(* of it IF NOT EXISTS.                                                    *)
Connect == InitStep("down", "tables") /\ UNCHANGED <<disk, work, native>>

(* Mutant: every stored text is inserted, also one that has its words.     *)
FillAllWords ==
    /\ InitStep("tables", "filled")
    /\ work' = [work EXCEPT !.words =
                   [h \in Hashes |-> IF h \in work.raw THEN @[h] + 1 ELSE @[h]]]
    /\ UNCHANGED <<disk, native>>

(* _backfill_word_index: INSERT ... SELECT ... WHERE NOT EXISTS            *)
FillWords ==
    /\ InitStep("tables", "filled")
    /\ work' = [work EXCEPT !.words =
                   [h \in Hashes |-> IF h \in work.raw /\ @[h] = 0 THEN 1 ELSE @[h]]]
    /\ UNCHANGED <<disk, native>>

(* Committed, and only then exposed.                                       *)
ExposeIndex ==
    /\ InitStep("filled", "open")
    /\ disk' = work
    /\ native' = TRUE
    /\ UNCHANGED work

(* No trigram tokenizer, or the backfill failed: no native search.         *)
SetupFails ==
    /\ up \in {"tables", "filled"}
    /\ InitStep(up, "open")
    /\ work' = disk
    /\ UNCHANGED <<disk, native>>

Die ==
    /\ deaths < MaxDeaths
    /\ deaths' = deaths + 1
    /\ up' = "down"
    /\ native' = FALSE
    /\ work' = disk
    /\ conn' = "ok"
    /\ lock' = Nobody
    /\ inTxn' = [t \in Tasks |-> FALSE]
    /\ pc' = [t \in Tasks |-> IF pc[t] \in Running THEN "gone" ELSE pc[t]]
    /\ place' = [t \in Tasks |-> FirstPlace]
    /\ outcome' = [t \in Tasks |-> "done"]
    /\ known' = [t \in Tasks |-> NoRow]
    /\ visible' = [t \in Tasks |-> {}]
    /\ UNCHANGED <<disk, unit, answer, owed>>

----------------------------------------------------------------------------
Initialize == Connect \/ FillWords \/ ExposeIndex \/ SetupFails

Step(t) ==
    \/ BeginTransaction(t) \/ EnterOperation(t) \/ Execute(t)
    \/ Raise(t) \/ PendingRollback(t) \/ Commit(t) \/ Rollback(t)

Next ==
    \/ \E t \in Tasks : \/ Start(t) \/ Step(t)
                        \/ Break(t) \/ CancelWaiting(t) \/ CancelWorking(t)
    \/ Initialize \/ Die

Spec == Init /\ [][Next]_vars

(* The event loop resumes every task whose await is over, and the lock is  *)
(* handed on in the order of the queue.                                    *)
FairSpec == Spec /\ WF_vars(Initialize) /\ \A t \in Tasks : WF_vars(Step(t))

----------------------------------------------------------------------------
StatusOf(t) == IF pc[t] \in Running THEN "asked" ELSE pc[t]

A == INSTANCE AtomicStore
        WITH InitRows    <- InitTables.rows,
             InitCurrent <- InitTables.current,
             InitText    <- InitTables.raw,
             rows        <- disk.rows,
             current     <- disk.current,
             text        <- disk.raw,
             open        <- (up = "open"),
             status      <- [t \in Tasks |-> StatusOf(t)],
             answer      <- [t \in Tasks |-> IF pc[t] = "done" THEN answer[t] ELSE NoAnswer]

(* Whatever statements fail, tasks are cancelled or processes die, and     *)
(* however the units of concurrent tasks meet at the lock, each unit       *)
(* commits in one step or leaves no trace, nobody reads what is not        *)
(* committed, and a search through an index and its prefilter returns      *)
(* exactly once every visible content that matches.                        *)
ImplementsAtomicStore == A!Spec

(* The trigram table has one row for each stored text and no other; the    *)
(* word table too while the store serves searches, though the texts of an  *)
(* older database came without words and the backfill may have been cut    *)
(* short or have failed before.                                            *)
IndexesAgree ==
    \A h \in Hashes :
        LET stored == IF h \in disk.raw THEN 1 ELSE 0 IN
        /\ disk.fts[h] = stored
        /\ disk.words[h] <= stored
        /\ native => disk.words[h] = stored

(* A unit never fails for the cancellation of more than one other: the     *)
(* first to meet the dropped connection pays, and repairs it.              *)
CancellationCostsOneFailure == owed >= 0

(* A task that has begun is served: no operation waits for the lock of the *)
(* transaction it is part of, and no error keeps the lock.                 *)
EveryOperationEnds == \A t \in Tasks : pc[t] # "idle" ~> pc[t] \in Ended
=============================================================================
