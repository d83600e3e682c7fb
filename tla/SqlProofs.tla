----------------------------- MODULE SqlProofs ------------------------------
(***************************************************************************)
(* Theorems about SqlStore, in three parts.  IInv: who may be at work on   *)
(* the connection, and what a task that was cancelled there leaves to the  *)
(* others.  TextInv: how far the statements of the one task at work have   *)
(* taken the text indexes.  UnitInv: what each task has done of its unit,  *)
(* from which the store implements AtomicStore.                            *)
(***************************************************************************)
EXTENDS SqlStore, TLAPS

(* Where a task is between taking the lock for an operation and leaving.   *)
Working == {"run", "commit", "rollback"}

TaskTypes ==
    /\ pc \in [Tasks -> Running \cup Ended \cup {"idle"}]
    /\ outcome \in [Tasks -> Ended]
    /\ inTxn \in [Tasks -> BOOLEAN]
    /\ owed \in Int

(* At most one task works on the connection, or is inside a transaction(). *)
OneAtWork ==
    \A t \in Tasks : pc[t] \in Working \/ inTxn[t] => lock = t

(* A dropped connection that nobody is rolling back has yet to be paid for.*)
DropIsOwed ==
    conn = "invalid" /\ (\A t \in Tasks : pc[t] # "rollback") => owed >= 1

IInv == TaskTypes /\ OneAtWork /\ DropIsOwed /\ CancellationCostsOneFailure

(* When nobody has the lock, the connection shows what is committed, but   *)
(* for the words initialize() has inserted and not yet committed.          *)
NothingIsLeft == lock = Nobody /\ up # "filled" => work = disk

----------------------------------------------------------------------------
(* The places of a task in its unit of work.                               *)
LEMMA Places ==
    /\ Working \subseteq Running
    /\ Running \cap Ended = {}
    /\ "idle" \notin Running
BY DEF Working, Running, Ended

(* The task at work is alone: no other is rolling back.                    *)
LEMMA Alone ==
    ASSUME OneAtWork, NEW t \in Tasks, lock = t, NEW s \in Tasks, s # t
    PROVE  pc[s] \notin Working /\ ~inTxn[s]
BY DEF OneAtWork

(* No task has begun.                                                      *)
LEMMA IInvInit == Init => IInv
<1> SUFFICES ASSUME Init PROVE IInv
  OBVIOUS
<1>1. TaskTypes
  BY DEF Init, TaskTypes, Ended
<1>2. OneAtWork
  BY DEF Init, OneAtWork, Working
<1>3. DropIsOwed /\ CancellationCostsOneFailure
  BY DEF Init, DropIsOwed, CancellationCostsOneFailure
<1> QED
  BY <1>1, <1>2, <1>3 DEF IInv

(* A task that leaves the lock leaves it to nobody, and it was the only one*)
(* to have it.                                                             *)
LEMMA ReleaseKeeps ==
    ASSUME IInv, NEW t \in Tasks, pc[t] \in Working, Release(t),
           NEW e \in Ended, Goto(t, e)
    PROVE  /\ pc' \in [Tasks -> Running \cup Ended \cup {"idle"}]
           /\ outcome' \in [Tasks -> Ended]
           /\ inTxn' \in [Tasks -> BOOLEAN]
           /\ OneAtWork'
           /\ \A s \in Tasks : pc'[s] # "rollback"
<1> USE DEF Release, Forget, Goto
<1>1. lock = t
  BY DEF IInv, OneAtWork
<1>2. /\ pc' \in [Tasks -> Running \cup Ended \cup {"idle"}]
      /\ outcome' \in [Tasks -> Ended]
      /\ inTxn' \in [Tasks -> BOOLEAN]
  BY DEF IInv, TaskTypes, Ended
<1>3. \A s \in Tasks : pc'[s] \notin Working /\ ~inTxn'[s]
  <2> SUFFICES ASSUME NEW s \in Tasks PROVE pc'[s] \notin Working /\ ~inTxn'[s]
    OBVIOUS
  <2>1. CASE s = t
    BY <2>1, Places DEF IInv, TaskTypes
  <2>2. CASE s # t
    BY <2>2, <1>1, Alone DEF IInv, TaskTypes
  <2> QED
    BY <2>1, <2>2
<1> QED
  BY <1>2, <1>3 DEF OneAtWork, Working

(* Every step keeps the lock with the one task at work.                    *)
LEMMA IInvStep == IInv /\ [Next]_vars => IInv'
<1> SUFFICES ASSUME IInv, [Next]_vars PROVE IInv'
  OBVIOUS
<1> USE DEF IInv, TaskTypes, Goto
<1>1. ASSUME NEW t \in Tasks, Start(t) PROVE IInv'
  <2>1. TaskTypes'
    BY <1>1 DEF Start, store, Running
  <2>2. OneAtWork' /\ DropIsOwed' /\ CancellationCostsOneFailure'
    BY <1>1 DEF Start, store, OneAtWork, Working, DropIsOwed, CancellationCostsOneFailure
  <2> QED
    BY <2>1, <2>2
<1>2. ASSUME NEW t \in Tasks, BeginTransaction(t) PROVE IInv'
  <2>1. TaskTypes'
    BY <1>2 DEF BeginTransaction, Running
  <2>2. \A s \in Tasks : pc[s] \notin Working /\ ~inTxn[s]
    BY <1>2, SqlAssumption DEF BeginTransaction, OneAtWork
  <2>3. OneAtWork'
    BY <1>2, <2>2 DEF BeginTransaction, OneAtWork, Working
  <2>4. DropIsOwed' /\ CancellationCostsOneFailure'
    BY <1>2 DEF BeginTransaction, DropIsOwed, CancellationCostsOneFailure
  <2> QED
    BY <2>1, <2>3, <2>4
<1>3. ASSUME NEW t \in Tasks, EnterOperation(t) PROVE IInv'
  <2>1. TaskTypes'
    BY <1>3 DEF EnterOperation, Running
  <2>2. \A s \in Tasks \ {t} : pc[s] \notin Working /\ ~inTxn[s]
    BY <1>3, SqlAssumption DEF EnterOperation, OneAtWork
  <2>3. OneAtWork'
    BY <1>3, <2>2 DEF EnterOperation, OneAtWork
  <2>4. DropIsOwed' /\ CancellationCostsOneFailure'
    BY <1>3 DEF EnterOperation, DropIsOwed, CancellationCostsOneFailure
  <2> QED
    BY <2>1, <2>3, <2>4
<1>4. ASSUME NEW t \in Tasks, Execute(t) PROVE IInv'
  <2> DEFINE to == CASE Returns(t) \/ (LastStatement(t) /\ LastOperation(t)) -> "commit"
                     [] ~Returns(t) /\ LastStatement(t) /\ ~LastOperation(t) -> "enter"
                     [] ~Returns(t) /\ ~LastStatement(t) -> "run"
  <2>1. to \in {"commit", "enter", "run"}
    OBVIOUS
  <2>2. /\ pc[t] = "run" /\ conn = "ok" /\ pc' = [pc EXCEPT ![t] = to]
        /\ UNCHANGED <<conn, lock, inTxn, outcome, owed>>
    BY <1>4 DEF Execute
  <2> HIDE DEF to
  <2>3. TaskTypes'
    BY <2>1, <2>2 DEF Running
  <2>4. OneAtWork'
    BY <2>1, <2>2 DEF OneAtWork, Working
  <2>5. DropIsOwed' /\ CancellationCostsOneFailure'
    BY <2>2 DEF DropIsOwed, CancellationCostsOneFailure
  <2> QED
    BY <2>3, <2>4, <2>5
<1>5. ASSUME NEW t \in Tasks, NEW how \in Ended, pc[t] \in Working, RaiseAs(t, how),
             conn = "ok", owed' = owed
      PROVE  IInv'
  <2>1. TaskTypes'
    BY <1>5 DEF RaiseAs, store, Running
  <2>2. OneAtWork' /\ DropIsOwed' /\ CancellationCostsOneFailure'
    BY <1>5 DEF RaiseAs, store, OneAtWork, Working, DropIsOwed, CancellationCostsOneFailure
  <2> QED
    BY <2>1, <2>2
<1>6. ASSUME NEW t \in Tasks, Raise(t) \/ Break(t) PROVE IInv'
  BY <1>5, <1>6 DEF Raise, Break, Working, Ended
<1>7. ASSUME NEW t \in Tasks, PendingRollback(t) PROVE IInv'
  <2>1. pc[t] = "run" /\ conn = "invalid" /\ owed' = owed - 1
    BY <1>7 DEF PendingRollback
  <2>2. \A s \in Tasks : pc[s] # "rollback"
    BY <2>1, Alone DEF OneAtWork, Working
  <2>3. owed >= 1
    BY <2>1, <2>2 DEF DropIsOwed
  <2>4. TaskTypes'
    BY <1>7, <2>1 DEF PendingRollback, RaiseAs, store, Running, Ended
  <2>5. OneAtWork'
    BY <1>7, <2>1 DEF PendingRollback, RaiseAs, store, OneAtWork, Working
  <2>6. pc'[t] = "rollback"
    BY <1>7 DEF PendingRollback, RaiseAs
  <2>7. DropIsOwed' /\ CancellationCostsOneFailure'
    BY <2>1, <2>3, <2>6 DEF DropIsOwed, CancellationCostsOneFailure
  <2> QED
    BY <2>4, <2>5, <2>7
<1>8. ASSUME NEW t \in Tasks, Commit(t) PROVE IInv'
  <2>1. pc[t] = "commit" /\ Release(t) /\ Goto(t, "done") /\ UNCHANGED <<conn, owed>>
    BY <1>8 DEF Commit
  <2>2. "done" \in Ended /\ pc[t] \in Working
    BY <2>1 DEF Ended, Working
  <2>3. TaskTypes' /\ OneAtWork'
    <3> HIDE DEF Goto
    <3>1. /\ pc' \in [Tasks -> Running \cup Ended \cup {"idle"}]
          /\ outcome' \in [Tasks -> Ended]
          /\ inTxn' \in [Tasks -> BOOLEAN]
          /\ OneAtWork'
      BY <2>1, <2>2, ReleaseKeeps
    <3> QED
      BY <2>1, <3>1
  <2>4. \A s \in Tasks : pc[s] # "rollback"
    BY <2>1, Alone DEF OneAtWork, Working
  <2>5. DropIsOwed' /\ CancellationCostsOneFailure'
    BY <2>1, <2>4 DEF DropIsOwed, CancellationCostsOneFailure
  <2> QED
    BY <2>3, <2>5
<1>9. ASSUME NEW t \in Tasks, Rollback(t) PROVE IInv'
  <2>1. /\ pc[t] = "rollback" /\ Release(t) /\ Goto(t, outcome[t])
        /\ conn' = "ok" /\ owed' = owed
    BY <1>9 DEF Rollback
  <2>2. outcome[t] \in Ended /\ pc[t] \in Working
    BY <2>1 DEF Working
  <2>3. TaskTypes' /\ OneAtWork'
    <3> HIDE DEF Goto
    <3>1. /\ pc' \in [Tasks -> Running \cup Ended \cup {"idle"}]
          /\ outcome' \in [Tasks -> Ended]
          /\ inTxn' \in [Tasks -> BOOLEAN]
          /\ OneAtWork'
      BY <2>1, <2>2, ReleaseKeeps
    <3> QED
      BY <2>1, <3>1
  <2>4. DropIsOwed' /\ CancellationCostsOneFailure'
    BY <2>1 DEF DropIsOwed, CancellationCostsOneFailure
  <2> QED
    BY <2>3, <2>4
<1>10. ASSUME NEW t \in Tasks, CancelWaiting(t) PROVE IInv'
  <2>1. TaskTypes'
    BY <1>10 DEF CancelWaiting, Forget, store, Ended
  <2>2. OneAtWork' /\ DropIsOwed' /\ CancellationCostsOneFailure'
    BY <1>10 DEF CancelWaiting, store, OneAtWork, Working, DropIsOwed, CancellationCostsOneFailure
  <2> QED
    BY <2>1, <2>2
<1>11. ASSUME NEW t \in Tasks, CancelWorking(t) PROVE IInv'
  <2>1. /\ pc[t] \in Working /\ Release(t) /\ Goto(t, "gone")
        /\ \/ conn' = "ok" /\ owed' = owed
           \/ conn' = "invalid" /\ owed' = owed + 1
    BY <1>11 DEF CancelWorking, Working
  <2>2. "gone" \in Ended
    BY DEF Ended
  <2>3. TaskTypes' /\ OneAtWork'
    <3> HIDE DEF Goto
    <3>1. /\ pc' \in [Tasks -> Running \cup Ended \cup {"idle"}]
          /\ outcome' \in [Tasks -> Ended]
          /\ inTxn' \in [Tasks -> BOOLEAN]
          /\ OneAtWork'
      BY <2>1, <2>2, ReleaseKeeps
    <3> QED
      BY <2>1, <3>1
  <2>4. DropIsOwed' /\ CancellationCostsOneFailure'
    BY <2>1 DEF DropIsOwed, CancellationCostsOneFailure
  <2> QED
    BY <2>3, <2>4
<1>12. ASSUME Initialize PROVE IInv'
  BY <1>12 DEF Initialize, Connect, FillWords, ExposeIndex, SetupFails, InitStep, task,
               OneAtWork, DropIsOwed, CancellationCostsOneFailure
<1>13. ASSUME Die PROVE IInv'
  <2>1. TaskTypes'
    BY <1>13 DEF Die, Ended
  <2>2. \A t \in Tasks : pc'[t] \notin Working /\ ~inTxn'[t]
    BY <1>13, Places DEF Die, Working
  <2>3. OneAtWork' /\ DropIsOwed' /\ CancellationCostsOneFailure'
    BY <1>13, <2>2 DEF Die, OneAtWork, DropIsOwed, CancellationCostsOneFailure
  <2> QED
    BY <2>1, <2>3
<1>14. ASSUME UNCHANGED vars PROVE IInv'
  BY <1>14 DEF vars, store, task, life, OneAtWork, DropIsOwed, CancellationCostsOneFailure
<1> QED
  BY <1>1, <1>2, <1>3, <1>4, <1>6, <1>7, <1>8, <1>9, <1>10, <1>11, <1>12, <1>13, <1>14
     DEF Next, Step

(* The inductive invariant holds in every reachable state of the SQL store. *)
THEOREM SqlInvariance == Spec => []IInv
BY IInvInit, IInvStep, PTL DEF Spec

(* However many tasks are cancelled at the shared connection and wherever  *)
(* the process dies, no unit fails for a cancellation that another unit has*)
(* already paid for (sql_metadata.py:163-183).                             *)
THEOREM CancellationsArePaidOnce == Spec => []CancellationCostsOneFailure
<1>1. IInv => CancellationCostsOneFailure
  BY DEF IInv
<1> QED
  BY <1>1, SqlInvariance, PTL

(* Whatever way a unit of work ends - commit, error, cancellation, death - *)
(* the next task that takes the lock finds nothing of it on the connection *)
(* but what is committed: work of one unit is never committed with that of *)
(* another (sql_metadata.py:163-183, 671-695).                             *)
THEOREM NothingLeftBehind == Spec => []NothingIsLeft
<1>1. Init => NothingIsLeft
  BY DEF Init, NothingIsLeft
<1>2. IInv /\ NothingIsLeft /\ [Next]_vars => NothingIsLeft'
  <2> SUFFICES ASSUME IInv, NothingIsLeft, [Next]_vars PROVE NothingIsLeft'
    OBVIOUS
  <2> USE DEF NothingIsLeft
  <2>1. ASSUME NEW t \in Tasks, Start(t) PROVE NothingIsLeft'
    BY <2>1 DEF Start, store, life
  <2>2. ASSUME NEW t \in Tasks, BeginTransaction(t) \/ EnterOperation(t) PROVE NothingIsLeft'
    BY <2>2, SqlAssumption DEF BeginTransaction, EnterOperation
  <2>3. ASSUME NEW t \in Tasks, Execute(t) PROVE NothingIsLeft'
    <3>1. lock = t /\ lock' = lock
      BY <2>3 DEF Execute, IInv, OneAtWork, Working
    <3> QED
      BY <3>1, SqlAssumption
  <2>4. ASSUME NEW t \in Tasks, Raise(t) \/ Break(t) \/ PendingRollback(t) PROVE NothingIsLeft'
    BY <2>4 DEF Raise, Break, PendingRollback, RaiseAs, store, life
  <2>5. ASSUME NEW t \in Tasks, Commit(t) \/ Rollback(t) \/ CancelWorking(t) PROVE NothingIsLeft'
    BY <2>5 DEF Commit, Rollback, CancelWorking
  <2>6. ASSUME NEW t \in Tasks, CancelWaiting(t) PROVE NothingIsLeft'
    BY <2>6 DEF CancelWaiting, store, life
  <2>7. ASSUME Initialize PROVE NothingIsLeft'
    BY <2>7 DEF Initialize, Connect, FillWords, ExposeIndex, SetupFails, InitStep
  <2>8. ASSUME Die PROVE NothingIsLeft'
    BY <2>8 DEF Die
  <2>9. ASSUME UNCHANGED vars PROVE NothingIsLeft'
    BY <2>9 DEF vars, store, life
  <2> QED
    BY <2>1, <2>2, <2>3, <2>4, <2>5, <2>6, <2>7, <2>8, <2>9 DEF Next, Step
<1> QED
  BY <1>1, <1>2, SqlInvariance, PTL DEF Spec

----------------------------------------------------------------------------
(* The text indexes.                                                       *)

(* The tables as far as texts go, and when they agree about one.           *)
Tabled(T) ==
    /\ DOMAIN T = {"rows", "current", "raw", "fts", "words"}
    /\ T.fts \in [Hashes -> Nat] /\ T.words \in [Hashes -> Nat]

Stored(T, h) == IF h \in T.raw THEN 1 ELSE 0

Agrees(T, h) ==
    /\ T.fts[h] = Stored(T, h)
    /\ T.words[h] <= Stored(T, h)
    /\ native => T.words[h] = Stored(T, h)

AllAgree(T) == \A h \in Hashes : Agrees(T, h)

(* The units that change a text, and the operation in which they do.       *)
Indexes(t) == unit[t].kind = "reindex" \/ (native /\ unit[t].kind \in {"write", "cas"})
Sweeps(t)  == native /\ unit[t].kind = "sweep"

(* How far index_text, or the deletion of a text, has come with its text.  *)
HalfIndexed(t, h) ==
    /\ place[t].stmt = 1 => Agrees(work, h)
    /\ place[t].stmt \in 2 .. 5 => h \in work.raw
    /\ place[t].stmt = 3 => work.fts[h] = 0
    /\ place[t].stmt \in {4, 5} => work.fts[h] = 1
    /\ place[t].stmt = 5 => work.words[h] = 0

HalfSwept(t, h) ==
    /\ place[t].stmt = 1 => Agrees(work, h)
    /\ place[t].stmt \in {2, 3} => h \notin work.raw
    /\ place[t].stmt = 3 => work.fts[h] = 0

HalfDone(t, h) ==
    IF Indexes(t) /\ place[t].op = 1 THEN HalfIndexed(t, h)
    ELSE IF Sweeps(t) /\ place[t].op = 2 THEN HalfSwept(t, h)
    ELSE Agrees(work, h)

(* The texts on the connection agree but for the one the task at work is   *)
(* changing, of which it is known how far it is.                           *)
AtWork(t) ==
    /\ \A h \in Hashes \ {TextOf(t)} : Agrees(work, h)
    /\ TextOf(t) \in Hashes => HalfDone(t, TextOf(t))

Undisturbed == \A t \in Tasks : pc[t] \notin {"run", "rollback"}

PlaceOf(t) ==
    /\ place[t].op \in 1 .. Len(Program(t))
    /\ place[t].stmt \in 1 .. Len(Program(t)[place[t].op])
    /\ DOMAIN place[t] = {"op", "stmt"}

Serving ==
    /\ native \in BOOLEAN /\ (native => up = "open")
    /\ unit \in [Tasks -> Units]
    /\ \A t \in Tasks : /\ pc[t] \in Running => up = "open"
                        /\ pc[t] \in Running /\ unit[t].kind \in {"search", "reindex"} => native
                        /\ pc[t] \in {"begin", "enter", "run"} => PlaceOf(t)
                        /\ pc[t] \in {"begin", "enter"} => place[t].stmt = 1
                        /\ pc[t] = "idle" => place[t] = FirstPlace

TextInv ==
    /\ place \in [Tasks -> [op : Nat, stmt : Nat]]
    /\ Tabled(work) /\ Tabled(disk)
    /\ Serving
    /\ AllAgree(disk)
    /\ Undisturbed => AllAgree(work)
    /\ \A t \in Tasks : pc[t] = "run" => AtWork(t)
    /\ up = "filled" => \A h \in Hashes : work.words[h] = Stored(work, h)

(* What the units consist of.                                              *)
LEMMA Programs ==
    ASSUME Serving, NEW t \in Tasks
    PROVE  /\ Indexes(t) => /\ Len(Program(t)) = 2 /\ Program(t)[1] = IndexText
                            /\ Program(t)[2] \in {<<"insert", "point">>, <<"swap", "insert">>,
                                                  <<"manifest", "artifact">>}
           /\ Sweeps(t) => /\ Len(Program(t)) = 2 /\ Program(t)[1] = <<"references">>
                           /\ Program(t)[2] = <<"-text", "-fts", "-words">>
           /\ ~Indexes(t) /\ ~Sweeps(t) =>
                /\ Len(Program(t)) = 1
                /\ Program(t)[1] \in {<<"insert", "point">>, <<"swap", "insert">>, <<"drop">>,
                                      <<"references">>, <<"select">>}
<1>1. unit[t].kind \in {"write", "cas", "prune", "sweep", "reindex", "search"}
  BY SqlAssumption DEF Serving
<1>2. CASE unit[t].kind \in {"write", "cas"}
  BY <1>2 DEF Program, Indexes, Sweeps, IndexText
<1>3. CASE unit[t].kind \in {"prune", "sweep", "search"}
  BY <1>3 DEF Program, Indexes, Sweeps
<1>4. CASE unit[t].kind = "reindex"
  BY <1>4 DEF Program, Indexes, Sweeps
<1> QED
  BY <1>1, <1>2, <1>3, <1>4

(* The statements that change no text.                                     *)
Quiet == {"insert", "point", "swap", "drop", "references", "select", "manifest", "artifact"}

(* The statement a task is at.                                             *)
LEMMA StatementAt ==
    ASSUME Serving, NEW t \in Tasks, PlaceOf(t), place[t].op \in Nat, place[t].stmt \in Nat
    PROVE  /\ place[t].op \in 1 .. 2 /\ place[t].stmt \in Nat \ {0}
           /\ Indexes(t) /\ place[t].op = 1 =>
                /\ place[t].stmt \in 1 .. 5 /\ Statement(t) = IndexText[place[t].stmt]
                /\ LastStatement(t) <=> place[t].stmt = 5
                /\ ~LastOperation(t)
           /\ Sweeps(t) /\ place[t].op = 2 =>
                /\ place[t].stmt \in 1 .. 3
                /\ Statement(t) = <<"-text", "-fts", "-words">>[place[t].stmt]
                /\ LastStatement(t) <=> place[t].stmt = 3
                /\ LastOperation(t)
           /\ ~(Indexes(t) /\ place[t].op = 1) /\ ~(Sweeps(t) /\ place[t].op = 2) =>
                Statement(t) \in Quiet
           /\ Sweeps(t) /\ place[t].op = 1 => LastStatement(t) /\ ~LastOperation(t)
           /\ ~(Indexes(t) /\ place[t].op = 1) /\ ~(Sweeps(t) /\ place[t].op = 1) => LastOperation(t)
<1> DEFINE p == Program(t)
<1>1. /\ Indexes(t) => /\ Len(p) = 2 /\ p[1] = IndexText
                       /\ p[2] \in {<<"insert", "point">>, <<"swap", "insert">>,
                                    <<"manifest", "artifact">>}
      /\ Sweeps(t) => /\ Len(p) = 2 /\ p[1] = <<"references">>
                      /\ p[2] = <<"-text", "-fts", "-words">>
      /\ ~Indexes(t) /\ ~Sweeps(t) =>
           /\ Len(p) = 1
           /\ p[1] \in {<<"insert", "point">>, <<"swap", "insert">>, <<"drop">>,
                        <<"references">>, <<"select">>}
  BY Programs
<1>2. /\ place[t].op \in 1 .. Len(p) /\ place[t].stmt \in 1 .. Len(p[place[t].op])
      /\ Statement(t) = p[place[t].op][place[t].stmt]
      /\ LastStatement(t) <=> place[t].stmt = Len(p[place[t].op])
      /\ LastOperation(t) <=> place[t].op = Len(p)
  BY DEF PlaceOf, Statement, LastStatement, LastOperation
<1> HIDE DEF p
<1>3. ~(Indexes(t) /\ Sweeps(t))
  BY DEF Indexes, Sweeps
<1>4. PICK o \in Nat, n \in Nat : o = place[t].op /\ n = place[t].stmt
  OBVIOUS
<1>5. o \in 1 .. Len(p) /\ n \in 1 .. Len(p[o]) /\ Statement(t) = p[o][n]
      /\ (LastStatement(t) <=> n = Len(p[o])) /\ (LastOperation(t) <=> o = Len(p))
  BY <1>2, <1>4
<1>6. CASE Indexes(t) /\ o = 1
  <2>1. Len(p) = 2 /\ p[o] = IndexText /\ Len(IndexText) = 5
    BY <1>1, <1>6 DEF IndexText
  <2> QED
    BY <1>3, <1>4, <1>5, <1>6, <2>1
<1>7. CASE Sweeps(t) /\ o = 2
  <2>1. Len(p) = 2 /\ p[o] = <<"-text", "-fts", "-words">>
    BY <1>1, <1>7
  <2>2. Len(<<"-text", "-fts", "-words">>) = 3
    OBVIOUS
  <2> QED
    BY <1>3, <1>4, <1>5, <1>7, <2>1, <2>2
<1>8. CASE ~(Indexes(t) /\ o = 1) /\ ~(Sweeps(t) /\ o = 2)
  <2>1. Len(p) \in {1, 2} /\ o \in {1, 2}
    BY <1>1, <1>5
  <2>2. /\ p[o] \in {<<"insert", "point">>, <<"swap", "insert">>, <<"manifest", "artifact">>,
                   <<"drop">>, <<"references">>, <<"select">>}
        /\ Sweeps(t) => o = 1 /\ Len(p) = 2 /\ p[o] = <<"references">>
        /\ ~Sweeps(t) => o = Len(p)
    <3>1. CASE Indexes(t)
      <4>1. o = 2 /\ Len(p) = 2 /\ ~Sweeps(t)
        BY <1>1, <1>3, <1>8, <2>1, <3>1
      <4>2. p[2] \in {<<"insert", "point">>, <<"swap", "insert">>, <<"manifest", "artifact">>}
        BY <1>1, <3>1
      <4> QED
        BY <4>1, <4>2
    <3>2. CASE Sweeps(t)
      <4>1. o = 1 /\ Len(p) = 2
        BY <1>1, <1>8, <2>1, <3>2
      <4>2. p[1] = <<"references">>
        BY <1>1, <3>2
      <4> QED
        BY <3>2, <4>1, <4>2
    <3>3. CASE ~Indexes(t) /\ ~Sweeps(t)
      <4>1. Len(p) = 1
        BY <1>1, <3>3
      <4>2. o = 1 /\ Len(p) = 1
        BY <1>5, <4>1
      <4>3. p[1] \in {<<"insert", "point">>, <<"swap", "insert">>, <<"drop">>, <<"references">>,
                      <<"select">>}
        BY <1>1, <3>3
      <4> QED
        BY <3>3, <4>2, <4>3
    <3> QED
      BY <3>1, <3>2, <3>3
  <2>3. p[o][n] \in Quiet /\ (p[o] = <<"references">> => n = 1 /\ Len(p[o]) = 1)
    BY <1>5, <2>2 DEF Quiet
  <2>4. /\ Statement(t) \in Quiet
        /\ Sweeps(t) /\ o = 1 => LastStatement(t) /\ ~LastOperation(t)
        /\ ~(Sweeps(t) /\ o = 1) => LastOperation(t)
    BY <1>5, <2>2, <2>3
  <2> QED
    BY <1>4, <1>5, <1>8, <2>1, <2>4
<1> QED
  BY <1>4, <1>6, <1>7, <1>8

(* What a statement does to the texts.                                     *)
SameTexts(T, U) == U.raw = T.raw /\ U.fts = T.fts /\ U.words = T.words

(* Most statements do nothing to them.                                     *)
LEMMA QuietEffect ==
    ASSUME NEW t \in Tasks, Tabled(work), Statement(t) \in Quiet
    PROVE  Tabled(Effect(t)) /\ SameTexts(work, Effect(t))
<1>1. CASE Statement(t) \in {"references", "manifest", "select"}
  BY <1>1 DEF Effect, SameTexts
<1>2. CASE Statement(t) = "insert"
  BY <1>2 DEF Effect, SameTexts, Tabled
<1>3. CASE Statement(t) \in {"point", "swap"}
  BY <1>3 DEF Effect, SameTexts, Tabled
<1>4. CASE Statement(t) = "drop"
  BY <1>4 DEF Effect, SameTexts, Tabled
<1>5. CASE Statement(t) = "artifact"
  BY <1>5 DEF Effect, SameTexts, Tabled
<1> QED
  BY <1>1, <1>2, <1>3, <1>4, <1>5 DEF Quiet

(* The statements that do change the texts, each in one table.             *)
LEMMA TextEffect ==
    ASSUME NEW t \in Tasks, Tabled(work)
    PROVE  LET h == TextOf(t)
               W == Effect(t)
           IN  /\ Statement(t) = "text" =>
                    Tabled(W) /\ W.raw = work.raw \cup {h} /\ W.fts = work.fts /\ W.words = work.words
               /\ Statement(t) = "-text" =>
                    Tabled(W) /\ W.raw = work.raw \ {h} /\ W.fts = work.fts /\ W.words = work.words
               /\ Statement(t) = "-fts" =>
                    /\ Tabled(W) /\ W.raw = work.raw /\ W.words = work.words
                    /\ \A g \in Hashes : W.fts[g] = IF g = h THEN 0 ELSE work.fts[g]
               /\ Statement(t) = "+fts" =>
                    /\ Tabled(W) /\ W.raw = work.raw /\ W.words = work.words
                    /\ \A g \in Hashes : W.fts[g] = IF g = h THEN work.fts[g] + 1 ELSE work.fts[g]
               /\ Statement(t) = "-words" =>
                    /\ Tabled(W) /\ W.raw = work.raw /\ W.fts = work.fts
                    /\ \A g \in Hashes : W.words[g] = IF g = h THEN 0 ELSE work.words[g]
               /\ Statement(t) = "+words" =>
                    /\ Tabled(W) /\ W.raw = work.raw /\ W.fts = work.fts
                    /\ \A g \in Hashes : W.words[g] = IF g = h THEN work.words[g] + 1 ELSE work.words[g]
<1> DEFINE h == TextOf(t)
<1>1. CASE Statement(t) = "text"
  BY <1>1 DEF Effect, Tabled
<1>2. CASE Statement(t) = "-text"
  BY <1>2 DEF Effect, Tabled
<1>3. CASE Statement(t) = "-fts"
  BY <1>3 DEF Effect, Tabled
<1>4. CASE Statement(t) = "+fts"
  BY <1>4 DEF Effect, Tabled
<1>5. CASE Statement(t) = "-words"
  BY <1>5 DEF Effect, Tabled
<1>6. CASE Statement(t) = "+words"
  BY <1>6 DEF Effect, Tabled
<1> QED
  BY <1>1, <1>2, <1>3, <1>4, <1>5, <1>6

(* Agreement is about the texts of the tables only.                        *)
LEMMA SameTextsAgree ==
    ASSUME NEW T, NEW U, SameTexts(T, U), NEW h \in Hashes, Agrees(T, h)
    PROVE  Agrees(U, h)
BY DEF SameTexts, Agrees, Stored

(* Every unit has operations and every operation has statements.          *)
LEMMA NoEmptyOperation ==
    ASSUME Serving, NEW t \in Tasks
    PROVE  /\ Len(Program(t)) \in Nat \ {0}
           /\ \A o \in 1 .. Len(Program(t)) : Len(Program(t)[o]) \in Nat \ {0}
<1>1. Len(Program(t)) \in {1, 2}
  BY Programs
<1>2. \A o \in 1 .. Len(Program(t)) : Len(Program(t)[o]) \in Nat \ {0}
  <2>1. CASE Indexes(t)
    <3>1. /\ Len(Program(t)) = 2 /\ Program(t)[1] = IndexText
          /\ Program(t)[2] \in {<<"insert", "point">>, <<"swap", "insert">>,
                                <<"manifest", "artifact">>}
      BY <2>1, Programs
    <3>2. Len(Program(t)[1]) = 5
      BY <3>1 DEF IndexText
    <3>3. Len(Program(t)[2]) = 2
      BY <3>1
    <3> QED
      BY <3>1, <3>2, <3>3
  <2>2. CASE Sweeps(t)
    <3>1. /\ Len(Program(t)) = 2 /\ Program(t)[1] = <<"references">>
          /\ Program(t)[2] = <<"-text", "-fts", "-words">>
      BY <2>2, Programs
    <3>2. Len(Program(t)[1]) = 1
      BY <3>1
    <3>3. Len(Program(t)[2]) = 3
      BY <3>1
    <3> QED
      BY <3>1, <3>2, <3>3
  <2>3. CASE ~Indexes(t) /\ ~Sweeps(t)
    <3>1. /\ Len(Program(t)) = 1
          /\ Program(t)[1] \in {<<"insert", "point">>, <<"swap", "insert">>, <<"drop">>,
                                <<"references">>, <<"select">>}
      BY <2>3, Programs
    <3>2. Len(Program(t)[1]) \in {1, 2}
      BY <3>1
    <3> QED
      BY <3>1, <3>2
  <2> QED
    BY <2>1, <2>2, <2>3
<1> QED
  BY <1>1, <1>2

(* Where a task goes with a statement.                                     *)
LEMMA ExecutePlaces ==
    ASSUME IInv, TextInv, NEW t \in Tasks, Execute(t)
    PROVE  /\ place' \in [Tasks -> [op : Nat, stmt : Nat]]
           /\ \A s \in Tasks \ {t} : place'[s] = place[s] /\ pc'[s] = pc[s]
           /\ pc'[t] \in {"commit", "enter", "run"}
           /\ pc'[t] \in {"enter", "run"} => PlaceOf(t)'
           /\ pc'[t] = "enter" => /\ place'[t].op = place[t].op + 1 /\ place'[t].stmt = 1
                                  /\ LastStatement(t) /\ ~LastOperation(t) /\ ~Returns(t)
           /\ pc'[t] = "run" => /\ place'[t].op = place[t].op
                                /\ place'[t].stmt = place[t].stmt + 1
                                /\ ~LastStatement(t) /\ ~Returns(t)
           /\ pc'[t] = "commit" => Returns(t) \/ (LastStatement(t) /\ LastOperation(t))
<1>1. PlaceOf(t) /\ place[t] \in [op : Nat, stmt : Nat] /\ Serving /\ pc[t] = "run"
  BY DEF TextInv, Serving, Execute
<1>2. UNCHANGED <<native, unit, known, life>>
  BY DEF Execute, life
<1>3. Program(t)' = Program(t)
  BY <1>2 DEF Program
<1> DEFINE last == LastStatement(t)
           over == LastOperation(t)
           next == IF ~last THEN [op |-> place[t].op, stmt |-> place[t].stmt + 1]
                   ELSE IF ~over THEN [op |-> place[t].op + 1, stmt |-> 1]
                   ELSE place[t]
<1>4. next \in [op : Nat, stmt : Nat]
  BY <1>1
<1>5. place' = [place EXCEPT ![t] = next]
  <2> DEFINE moved  == [op |-> place[t].op, stmt |-> place[t].stmt + 1]
             jumped == [op |-> place[t].op + 1, stmt |-> 1]
  <2>1. place' = [place EXCEPT ![t] = CASE ~last -> moved [] last /\ ~over -> jumped
                                        [] last /\ over -> place[t]]
    BY DEF Execute
  <2>2. next = IF ~last THEN moved ELSE IF ~over THEN jumped ELSE place[t]
    OBVIOUS
  <2> HIDE DEF moved, jumped, next
  <2> QED
    BY <2>1, <2>2
<1>6. pc'[t] = IF Returns(t) \/ (last /\ over) THEN "commit" ELSE IF last THEN "enter" ELSE "run"
  BY DEF Execute, Goto, IInv, TaskTypes
<1>7. \A s \in Tasks \ {t} : pc'[s] = pc[s]
  BY DEF Execute, Goto, IInv, TaskTypes
<1>8. place' \in [Tasks -> [op : Nat, stmt : Nat]] /\ place'[t] = next
      /\ \A s \in Tasks \ {t} : place'[s] = place[s]
  BY <1>4, <1>5 DEF TextInv
<1>9. \A o \in 1 .. Len(Program(t)) : Len(Program(t)[o]) \in Nat \ {0}
  BY <1>1, NoEmptyOperation
<1>10. /\ place[t].op \in Nat /\ place[t].stmt \in Nat
       /\ place[t].op \in 1 .. Len(Program(t)) /\ Len(Program(t)) \in Nat
       /\ place[t].stmt \in 1 .. Len(Program(t)[place[t].op])
       /\ Len(Program(t)[place[t].op]) \in Nat
       /\ (last <=> place[t].stmt = Len(Program(t)[place[t].op]))
       /\ (over <=> place[t].op = Len(Program(t)))
  <2>1. Len(Program(t)) \in Nat
    BY <1>1, StatementAt, Programs
  <2> QED
    BY <1>1, <1>9, <2>1 DEF PlaceOf, LastStatement, LastOperation
<1>11. pc'[t] \in {"enter", "run"} => PlaceOf(t)'
  <2>1. CASE ~last
    BY <1>3, <1>8, <1>9, <1>10, <2>1 DEF PlaceOf
  <2>2. CASE last /\ ~over
    <3>1. next.op \in 1 .. Len(Program(t)) /\ next.stmt = 1
      BY <1>10, <2>2
    <3> QED
      BY <1>3, <1>8, <1>9, <2>2, <3>1 DEF PlaceOf
  <2> QED
    BY <1>6, <2>1, <2>2
<1> QED
  BY <1>6, <1>7, <1>8, <1>11

(* What the texts are after a statement of the task at work.               *)
LEMMA ExecuteWorks ==
    ASSUME IInv, TextInv, NEW t \in Tasks, Execute(t)
    PROVE  /\ Tabled(work')
           /\ pc'[t] = "run" => AtWork(t)'
           /\ pc'[t] # "run" => AllAgree(work)'
<1> DEFINE h == TextOf(t)
<1>1. /\ PlaceOf(t) /\ place[t].op \in Nat /\ place[t].stmt \in Nat /\ Serving
      /\ Tabled(work) /\ AtWork(t) /\ work' = Effect(t)
  BY DEF TextInv, Serving, Execute
<1>2. UNCHANGED <<native, unit, known>>
  BY DEF Execute, life
<1>3. /\ TextOf(t)' = TextOf(t)
      /\ Indexes(t)' = Indexes(t) /\ Sweeps(t)' = Sweeps(t)
      /\ \A T, g : Agrees(T, g)' <=> Agrees(T', g)
  BY <1>2 DEF TextOf, Indexes, Sweeps, Agrees, Stored
<1>4. /\ \A g \in Hashes : work.fts[g] \in Nat /\ work.words[g] \in Nat
      /\ \A g \in Hashes \ {h} : Agrees(work, g)
      /\ h \in Hashes => HalfDone(t, h)
  BY <1>1 DEF Tabled, AtWork
<1>5. /\ pc'[t] = "run" => place'[t].op = place[t].op /\ place'[t].stmt = place[t].stmt + 1
                           /\ ~LastStatement(t)
      /\ pc'[t] = "enter" => LastStatement(t)
      /\ pc'[t] = "commit" => Returns(t) \/ (LastStatement(t) /\ LastOperation(t))
      /\ pc'[t] \in {"commit", "enter", "run"}
  BY ExecutePlaces
<1> HIDE DEF h
<1>6. CASE Indexes(t) /\ place[t].op = 1
  <2>1. /\ place[t].stmt \in 1 .. 5 /\ Statement(t) = IndexText[place[t].stmt]
        /\ LastStatement(t) <=> place[t].stmt = 5
        /\ ~LastOperation(t)
    BY <1>1, <1>6, StatementAt
  <2>2. Statement(t) # "references" /\ Statement(t) # "manifest"
    BY <2>1 DEF IndexText
  <2>3. ~Returns(t)
    BY <2>2 DEF Returns
  <2>4. h \in Hashes => HalfIndexed(t, h)
    BY <1>4, <1>6 DEF HalfDone
  <2>5. CASE place[t].stmt = 1
    <3>1. Statement(t) = "text"
      BY <2>1, <2>5 DEF IndexText
    <3>2. Tabled(work') /\ work'.raw = work.raw \cup {h} /\ work'.fts = work.fts
          /\ work'.words = work.words
      BY <1>1, <3>1, TextEffect DEF h
    <3>3. \A g \in Hashes \ {h} : Agrees(work', g)
      BY <1>4, <3>2 DEF Agrees, Stored
    <3> QED
      BY <1>2, <1>3, <1>5, <1>6, <2>1, <2>3, <2>5, <3>2, <3>3
         DEF AtWork, HalfDone, HalfIndexed, h
  <2>6. CASE place[t].stmt = 2
    <3>1. Statement(t) = "-fts"
      BY <2>1, <2>6 DEF IndexText
    <3>2. /\ Tabled(work') /\ work'.raw = work.raw /\ work'.words = work.words
          /\ \A g \in Hashes : work'.fts[g] = IF g = h THEN 0 ELSE work.fts[g]
      BY <1>1, <3>1, TextEffect DEF h
    <3>3. \A g \in Hashes \ {h} : Agrees(work', g)
      BY <1>4, <3>2 DEF Agrees, Stored
    <3> QED
      BY <1>2, <1>3, <1>5, <1>6, <2>1, <2>3, <2>4, <2>6, <3>2, <3>3
         DEF AtWork, HalfDone, HalfIndexed, h
  <2>7. CASE place[t].stmt = 3
    <3>1. Statement(t) = "+fts"
      BY <2>1, <2>7 DEF IndexText
    <3>2. /\ Tabled(work') /\ work'.raw = work.raw /\ work'.words = work.words
          /\ \A g \in Hashes : work'.fts[g] = IF g = h THEN work.fts[g] + 1 ELSE work.fts[g]
      BY <1>1, <3>1, TextEffect DEF h
    <3>3. \A g \in Hashes \ {h} : Agrees(work', g)
      BY <1>4, <3>2 DEF Agrees, Stored
    <3>4. h \in Hashes => h \in work'.raw /\ work'.fts[h] = 1
      BY <2>4, <2>7, <3>2 DEF HalfIndexed
    <3> QED
      BY <1>2, <1>3, <1>5, <1>6, <2>1, <2>3, <2>7, <3>2, <3>3, <3>4
         DEF AtWork, HalfDone, HalfIndexed, h
  <2>8. CASE place[t].stmt = 4
    <3>1. Statement(t) = "-words"
      BY <2>1, <2>8 DEF IndexText
    <3>2. /\ Tabled(work') /\ work'.raw = work.raw /\ work'.fts = work.fts
          /\ \A g \in Hashes : work'.words[g] = IF g = h THEN 0 ELSE work.words[g]
      BY <1>1, <3>1, TextEffect DEF h
    <3>3. \A g \in Hashes \ {h} : Agrees(work', g)
      BY <1>4, <3>2 DEF Agrees, Stored
    <3>4. h \in Hashes => h \in work'.raw /\ work'.fts[h] = 1 /\ work'.words[h] = 0
      BY <2>4, <2>8, <3>2 DEF HalfIndexed
    <3> QED
      BY <1>2, <1>3, <1>5, <1>6, <2>1, <2>3, <2>8, <3>2, <3>3, <3>4
         DEF AtWork, HalfDone, HalfIndexed, h
  <2>9. CASE place[t].stmt = 5
    <3>1. Statement(t) = "+words"
      BY <2>1, <2>9 DEF IndexText
    <3>2. /\ Tabled(work') /\ work'.raw = work.raw /\ work'.fts = work.fts
          /\ \A g \in Hashes : work'.words[g] = IF g = h THEN work.words[g] + 1 ELSE work.words[g]
      BY <1>1, <3>1, TextEffect DEF h
    <3>3. h \in Hashes => h \in work'.raw /\ work'.fts[h] = 1 /\ work'.words[h] = 1
      BY <2>4, <2>9, <3>2 DEF HalfIndexed
    <3>4. \A g \in Hashes : Agrees(work', g)
      BY <1>4, <3>2, <3>3 DEF Agrees, Stored
    <3>5. pc'[t] # "run"
      BY <1>5, <2>1, <2>9
    <3> QED
      BY <1>3, <3>2, <3>4, <3>5 DEF AllAgree
  <2> QED
    BY <2>1, <2>5, <2>6, <2>7, <2>8, <2>9
<1>7. CASE Sweeps(t) /\ place[t].op = 2
  <2>1. /\ place[t].stmt \in 1 .. 3
        /\ Statement(t) = <<"-text", "-fts", "-words">>[place[t].stmt]
        /\ LastStatement(t) <=> place[t].stmt = 3
    BY <1>1, <1>7, StatementAt
  <2>2. Statement(t) # "references" /\ Statement(t) # "manifest" /\ ~Indexes(t)
    BY <1>7, <2>1 DEF Indexes, Sweeps
  <2>3. ~Returns(t)
    BY <2>2 DEF Returns
  <2>4. h \in Hashes => HalfSwept(t, h)
    BY <1>4, <1>7, <2>2 DEF HalfDone
  <2>5. CASE place[t].stmt = 1
    <3>1. Statement(t) = "-text"
      BY <2>1, <2>5
    <3>2. Tabled(work') /\ work'.raw = work.raw \ {h} /\ work'.fts = work.fts
          /\ work'.words = work.words
      BY <1>1, <3>1, TextEffect DEF h
    <3>3. \A g \in Hashes \ {h} : Agrees(work', g)
      BY <1>4, <3>2 DEF Agrees, Stored
    <3> QED
      BY <1>2, <1>3, <1>5, <1>7, <2>1, <2>2, <2>3, <2>5, <3>2, <3>3
         DEF AtWork, HalfDone, HalfSwept, h
  <2>6. CASE place[t].stmt = 2
    <3>1. Statement(t) = "-fts"
      BY <2>1, <2>6
    <3>2. /\ Tabled(work') /\ work'.raw = work.raw /\ work'.words = work.words
          /\ \A g \in Hashes : work'.fts[g] = IF g = h THEN 0 ELSE work.fts[g]
      BY <1>1, <3>1, TextEffect DEF h
    <3>3. \A g \in Hashes \ {h} : Agrees(work', g)
      BY <1>4, <3>2 DEF Agrees, Stored
    <3> QED
      BY <1>2, <1>3, <1>5, <1>7, <2>1, <2>2, <2>3, <2>4, <2>6, <3>2, <3>3
         DEF AtWork, HalfDone, HalfSwept, h
  <2>7. CASE place[t].stmt = 3
    <3>1. Statement(t) = "-words"
      BY <2>1, <2>7
    <3>2. /\ Tabled(work') /\ work'.raw = work.raw /\ work'.fts = work.fts
          /\ \A g \in Hashes : work'.words[g] = IF g = h THEN 0 ELSE work.words[g]
      BY <1>1, <3>1, TextEffect DEF h
    <3>3. h \in Hashes => h \notin work'.raw /\ work'.fts[h] = 0 /\ work'.words[h] = 0
      BY <2>4, <2>7, <3>2 DEF HalfSwept
    <3>4. \A g \in Hashes : Agrees(work', g)
      BY <1>4, <3>2, <3>3 DEF Agrees, Stored
    <3>5. pc'[t] # "run"
      BY <1>5, <2>1, <2>7
    <3> QED
      BY <1>3, <3>2, <3>4, <3>5 DEF AllAgree
  <2> QED
    BY <2>1, <2>5, <2>6, <2>7
<1>8. CASE ~(Indexes(t) /\ place[t].op = 1) /\ ~(Sweeps(t) /\ place[t].op = 2)
  <2>1. Statement(t) \in Quiet
    BY <1>1, <1>8, StatementAt
  <2>2. Tabled(work') /\ SameTexts(work, work')
    BY <1>1, <2>1, QuietEffect
  <2>3. h \in Hashes => Agrees(work, h)
    BY <1>4, <1>8 DEF HalfDone
  <2>4. \A g \in Hashes : Agrees(work', g)
    BY <1>4, <2>2, <2>3, SameTextsAgree
  <2>5. AllAgree(work)'
    BY <1>3, <2>4 DEF AllAgree
  <2>6. pc'[t] = "run" => AtWork(t)'
    BY <1>3, <1>5, <1>8, <2>4 DEF AtWork, HalfDone
  <2> QED
    BY <2>2, <2>5, <2>6
<1> QED
  BY <1>6, <1>7, <1>8

----------------------------------------------------------------------------
(* A task whose locals do not change is where it was, and as far.          *)
LEMMA AtWorkStays ==
    ASSUME NEW s \in Tasks, UNCHANGED <<native, unit, work>>,
           place'[s] = place[s], known'[s] = known[s]
    PROVE  /\ PlaceOf(s) => PlaceOf(s)'
           /\ AtWork(s) => AtWork(s)'
<1>1. Program(s)' = Program(s)
  BY DEF Program
<1>2. /\ TextOf(s)' = TextOf(s)
      /\ Indexes(s)' = Indexes(s) /\ Sweeps(s)' = Sweeps(s)
      /\ \A h : Agrees(work, h)' <=> Agrees(work, h)
  BY DEF TextOf, Indexes, Sweeps, Agrees, Stored
<1>3. PlaceOf(s) => PlaceOf(s)'
  BY <1>1 DEF PlaceOf
<1>4. \A h : HalfDone(s, h)' <=> HalfDone(s, h)
  BY <1>2 DEF HalfDone, HalfIndexed, HalfSwept
<1>5. AtWork(s) => AtWork(s)'
  BY <1>2, <1>4 DEF AtWork
<1> QED
  BY <1>3, <1>5

(* Every unit has a first statement.                                       *)
LEMMA FirstStatement ==
    ASSUME Serving, NEW t \in Tasks, place[t] = FirstPlace
    PROVE  PlaceOf(t)
<1>1. place[t].op = 1 /\ place[t].stmt = 1 /\ DOMAIN place[t] = {"op", "stmt"}
  BY DEF FirstPlace
<1>2. Len(Program(t)) \in Nat \ {0} /\ Len(Program(t)[1]) \in Nat \ {0}
  BY NoEmptyOperation
<1> QED
  BY <1>1, <1>2 DEF PlaceOf

(* The database the process opens has one trigram row for each text.       *)
LEMMA TextInit == Init => TextInv
<1> SUFFICES ASSUME Init PROVE TextInv
  OBVIOUS
<1>1. /\ work = InitTables /\ disk = InitTables /\ native = FALSE /\ up = "down"
      /\ pc = [t \in Tasks |-> "idle"] /\ place = [t \in Tasks |-> FirstPlace]
      /\ unit \in [Tasks -> Units]
  BY SqlAssumption DEF Init
<1>2. Tabled(InitTables) /\ AllAgree(InitTables)
  BY <1>1, TablesAssumption DEF Tabled, AllAgree, Agrees, Stored
<1>3. place \in [Tasks -> [op : Nat, stmt : Nat]]
  BY <1>1 DEF FirstPlace
<1>4. Serving
  BY <1>1 DEF Serving, Running
<1> QED
  BY <1>1, <1>2, <1>3, <1>4 DEF TextInv

(* Every step keeps what is known about the texts.                         *)
LEMMA TextStep == IInv /\ TextInv /\ [Next]_vars => TextInv'
<1> SUFFICES ASSUME IInv, TextInv, [Next]_vars PROVE TextInv'
  OBVIOUS
<1>1. /\ place \in [Tasks -> [op : Nat, stmt : Nat]]
      /\ Tabled(work) /\ Tabled(disk) /\ Serving /\ AllAgree(disk)
      /\ Undisturbed => AllAgree(work)
      /\ \A s \in Tasks : pc[s] = "run" => AtWork(s)
      /\ up = "filled" => \A h \in Hashes : work.words[h] = Stored(work, h)
  BY DEF TextInv
<1>2. /\ pc \in [Tasks -> Running \cup Ended \cup {"idle"}]
      /\ outcome \in [Tasks -> Ended]
      /\ \A s \in Tasks : pc[s] \in Working \/ inTxn[s] => lock = s
  BY DEF IInv, TaskTypes, OneAtWork
<1>3. native' = native => \A T, h : Agrees(T, h)' <=> Agrees(T', h)
  BY DEF Agrees, Stored
<1>4. FirstPlace \in [op : Nat, stmt : Nat] /\ FirstPlace.stmt = 1
  BY DEF FirstPlace
(* Steps that leave the connection: the tables are as they were.           *)
<1>5. ASSUME UNCHANGED <<disk, work, native, up, unit>>, NEW t \in Tasks,
             place' \in [Tasks -> [op : Nat, stmt : Nat]],
             pc' \in [Tasks -> Running \cup Ended \cup {"idle"}],
             \A s \in Tasks \ {t} : /\ pc'[s] = pc[s] /\ place'[s] = place[s]
                                    /\ known'[s] = known[s],
             pc'[t] \notin {"run", "idle"},
             pc[t] \in {"run", "rollback"} => pc'[t] = "rollback",
             pc'[t] \in Running =>
                up = "open" /\ (unit[t].kind \in {"search", "reindex"} => native),
             pc'[t] \in {"begin", "enter"} =>
                place'[t] = place[t] /\ place[t].stmt = 1 /\ PlaceOf(t)
      PROVE  TextInv'
  <2>1. \A s \in Tasks : pc'[s] = "run" => AtWork(s)'
    BY <1>1, <1>5, AtWorkStays
  <2>2. Undisturbed' => Undisturbed
    BY <1>5 DEF Undisturbed
  <2>3. AllAgree(disk)' /\ (AllAgree(work) => AllAgree(work)')
    BY <1>1, <1>5 DEF AllAgree, Agrees, Stored
  <2>4. Tabled(work)' /\ Tabled(disk)'
    BY <1>1, <1>5 DEF Tabled
  <2>5. Program(t)' = Program(t)
    BY <1>5 DEF Program
  <2>6. pc'[t] \in {"begin", "enter", "run"} => PlaceOf(t)'
    BY <1>5, <2>5 DEF PlaceOf
  <2>7. \A s \in Tasks \ {t} : PlaceOf(s) => PlaceOf(s)'
    BY <1>5, AtWorkStays
  <2>8. Serving'
    BY <1>1, <1>5, <2>6, <2>7 DEF Serving
  <2>9. up' = "filled" => \A h \in Hashes : (work.words[h] = Stored(work, h))'
    BY <1>1, <1>5 DEF Stored
  <2> QED
    BY <1>1, <1>5, <2>1, <2>2, <2>3, <2>4, <2>8, <2>9 DEF TextInv
<1>6. ASSUME NEW t \in Tasks, Start(t) PROVE TextInv'
  <2>1. /\ up = "open" /\ pc[t] = "idle" /\ UNCHANGED <<disk, work, native, up, unit, place>>
        /\ unit[t].kind \in {"search", "reindex"} => native
        /\ pc' = [pc EXCEPT ![t] = IF Transactional(t) THEN "begin" ELSE "enter"]
        /\ \E k : known' = [known EXCEPT ![t] = k]
    BY <1>6 DEF Start, Goto, store, life
  <2>2. place[t] = FirstPlace /\ place[t].stmt = 1 /\ PlaceOf(t)
    BY <1>1, <1>4, <2>1, FirstStatement DEF Serving
  <2>3. /\ pc' \in [Tasks -> Running \cup Ended \cup {"idle"}]
        /\ pc'[t] \in {"begin", "enter"}
        /\ \A s \in Tasks \ {t} : /\ pc'[s] = pc[s] /\ place'[s] = place[s]
                                  /\ known'[s] = known[s]
    BY <1>2, <2>1 DEF Running
  <2> QED
    BY <1>1, <1>5, <2>1, <2>2, <2>3
<1>7. ASSUME NEW t \in Tasks, BeginTransaction(t) PROVE TextInv'
  <2>1. /\ pc[t] = "begin" /\ pc' = [pc EXCEPT ![t] = "enter"]
        /\ UNCHANGED <<disk, work, native, up, unit, place, known>>
    BY <1>7 DEF BeginTransaction, Goto, life
  <2>2. /\ up = "open" /\ (unit[t].kind \in {"search", "reindex"} => native)
        /\ place[t].stmt = 1 /\ PlaceOf(t)
    BY <1>1, <2>1 DEF Serving, Running
  <2>3. pc' \in [Tasks -> Running \cup Ended \cup {"idle"}] /\ pc'[t] = "enter"
    BY <1>2, <2>1 DEF Running
  <2>4. \A s \in Tasks \ {t} : pc'[s] = pc[s] /\ place'[s] = place[s] /\ known'[s] = known[s]
    BY <1>2, <2>1
  <2> QED
    BY <1>1, <1>5, <2>1, <2>2, <2>3, <2>4
<1>8. ASSUME NEW t \in Tasks, CancelWaiting(t) PROVE TextInv'
  <2>1. /\ pc[t] \in {"begin", "enter"} /\ pc' = [pc EXCEPT ![t] = "gone"]
        /\ UNCHANGED <<disk, work, native, up, unit>>
        /\ place' = [place EXCEPT ![t] = FirstPlace]
        /\ known' = [known EXCEPT ![t] = NoRow]
    BY <1>8 DEF CancelWaiting, Forget, Goto, life, store
  <2>2. pc' \in [Tasks -> Running \cup Ended \cup {"idle"}] /\ pc'[t] = "gone"
    BY <1>2, <2>1 DEF Ended
  <2>3. place' \in [Tasks -> [op : Nat, stmt : Nat]]
    BY <1>1, <1>4, <2>1
  <2>4. \A s \in Tasks \ {t} : pc'[s] = pc[s] /\ place'[s] = place[s] /\ known'[s] = known[s]
    BY <2>1
  <2> QED
    BY <1>5, <2>1, <2>2, <2>3, <2>4 DEF Running
<1>9. ASSUME NEW t \in Tasks, Raise(t) \/ Break(t) \/ PendingRollback(t) PROVE TextInv'
  <2>1. /\ pc[t] \in {"run", "commit"} /\ pc' = [pc EXCEPT ![t] = "rollback"]
        /\ UNCHANGED <<disk, work, native, up, unit, place, known>>
    BY <1>9 DEF Raise, Break, PendingRollback, RaiseAs, Goto, life, store
  <2>2. up = "open" /\ (unit[t].kind \in {"search", "reindex"} => native)
    BY <1>1, <2>1 DEF Serving, Running
  <2>3. pc' \in [Tasks -> Running \cup Ended \cup {"idle"}] /\ pc'[t] = "rollback"
    BY <1>2, <2>1 DEF Running
  <2>4. \A s \in Tasks \ {t} : pc'[s] = pc[s] /\ place'[s] = place[s] /\ known'[s] = known[s]
    BY <2>1
  <2> QED
    BY <1>1, <1>5, <2>1, <2>2, <2>3, <2>4
(* A task takes the connection: nobody is at work there.                   *)
<1>10. ASSUME NEW t \in Tasks, EnterOperation(t) PROVE TextInv'
  <2>1. /\ pc[t] = "enter" /\ (inTxn[t] \/ lock = Nobody) /\ pc' = [pc EXCEPT ![t] = "run"]
        /\ UNCHANGED <<disk, work, native, up, unit, place, known>>
    BY <1>10 DEF EnterOperation, Goto, life
  <2>2. \A s \in Tasks : pc[s] \notin Working
    <3>1. CASE lock = Nobody
      BY <1>2, <3>1, SqlAssumption
    <3>2. CASE inTxn[t]
      <4>1. lock = t
        BY <1>2, <3>2
      <4> QED
        BY <2>1, <4>1, <1>2 DEF Working
    <3> QED
      BY <2>1, <3>1, <3>2
  <2>3. AllAgree(work)
    BY <1>1, <2>2 DEF Undisturbed, Working
  <2>4. /\ up = "open" /\ (unit[t].kind \in {"search", "reindex"} => native)
        /\ place[t].stmt = 1 /\ PlaceOf(t)
    BY <1>1, <2>1 DEF Serving, Running
  <2>5. AtWork(t)
    BY <2>3, <2>4 DEF AtWork, HalfDone, HalfIndexed, HalfSwept, AllAgree
  <2>6. \A s \in Tasks : (PlaceOf(s) => PlaceOf(s)') /\ (AtWork(s) => AtWork(s)')
    BY <2>1, AtWorkStays
  <2>7. pc'[t] = "run" /\ \A s \in Tasks \ {t} : pc'[s] = pc[s]
    BY <1>2, <2>1
  <2>8. Serving'
    BY <1>1, <2>1, <2>4, <2>6, <2>7 DEF Serving
  <2>9. AllAgree(disk)' /\ Tabled(work)' /\ Tabled(disk)'
    BY <1>1, <2>1 DEF AllAgree, Agrees, Stored, Tabled
  <2>10. ~Undisturbed'
    BY <2>7 DEF Undisturbed
  <2>11. \A s \in Tasks : pc'[s] = "run" => AtWork(s)'
    BY <1>1, <2>5, <2>6, <2>7
  <2> QED
    BY <1>1, <2>1, <2>4, <2>8, <2>9, <2>10, <2>11 DEF TextInv
<1>11. ASSUME NEW t \in Tasks, Execute(t) PROVE TextInv'
  <2>1. /\ pc[t] = "run" /\ lock = t /\ UNCHANGED <<disk, native, up, unit, known>>
    BY <1>2, <1>11 DEF Execute, life, Working
  <2>2. /\ place' \in [Tasks -> [op : Nat, stmt : Nat]]
        /\ \A s \in Tasks \ {t} : place'[s] = place[s] /\ pc'[s] = pc[s]
        /\ pc'[t] \in {"commit", "enter", "run"}
        /\ pc'[t] \in {"enter", "run"} => PlaceOf(t)'
        /\ pc'[t] = "enter" => place'[t].stmt = 1
    BY <1>11, ExecutePlaces
  <2>3. /\ Tabled(work') /\ (pc'[t] = "run" => AtWork(t)')
        /\ pc'[t] # "run" => AllAgree(work)'
    BY <1>11, ExecuteWorks
  <2>4. \A s \in Tasks \ {t} : pc[s] \notin Working
    BY <1>2, <2>1
  <2>5. up = "open" /\ (unit[t].kind \in {"search", "reindex"} => native)
    BY <1>1, <2>1 DEF Serving, Running
  <2>6. \A s \in Tasks \ {t} : PlaceOf(s) => PlaceOf(s)'
    <3>1. \A s \in Tasks : Program(s)' = Program(s)
      BY <2>1 DEF Program
    <3> QED
      BY <2>2, <3>1 DEF PlaceOf
  <2>7. Serving'
    BY <1>1, <2>1, <2>2, <2>5, <2>6 DEF Serving
  <2>8. AllAgree(disk)' /\ Tabled(disk)'
    BY <1>1, <2>1 DEF AllAgree, Agrees, Stored, Tabled
  <2>9. Undisturbed' => AllAgree(work)'
    BY <2>3 DEF Undisturbed
  <2>10. \A s \in Tasks : pc'[s] = "run" => AtWork(s)'
    BY <2>2, <2>3, <2>4 DEF Working
  <2>11. Tabled(work)'
    BY <2>3 DEF Tabled
  <2> QED
    BY <2>1, <2>2, <2>5, <2>7, <2>8, <2>9, <2>10, <2>11 DEF TextInv
(* A task leaves the connection, where it was alone, and the tables are    *)
(* what was committed or what it committed.                                *)
<1>12. ASSUME NEW t \in Tasks, Commit(t) \/ Rollback(t) \/ CancelWorking(t) PROVE TextInv'
  <2>1. /\ pc[t] \in Working /\ lock = t /\ UNCHANGED <<native, up, unit>>
        /\ \/ disk' = work /\ work' = work /\ pc[t] = "commit"
           \/ disk' = disk /\ work' = disk
        /\ place' = [place EXCEPT ![t] = FirstPlace]
        /\ known' = [known EXCEPT ![t] = NoRow]
        /\ \E e \in Ended : pc' = [pc EXCEPT ![t] = e]
    <3>1. pc[t] \in Working
      BY <1>12 DEF Commit, Rollback, CancelWorking, Working
    <3>2. CASE Commit(t)
      BY <1>2, <3>1, <3>2 DEF Commit, Release, Forget, Goto, life, Ended
    <3>3. CASE Rollback(t)
      BY <1>2, <3>1, <3>3 DEF Rollback, Release, Forget, Goto, life
    <3>4. CASE CancelWorking(t)
      BY <1>2, <3>1, <3>4 DEF CancelWorking, Release, Forget, Goto, life, Ended
    <3> QED
      BY <1>12, <3>2, <3>3, <3>4
  <2>2. \A s \in Tasks \ {t} : pc[s] \notin Working
    BY <1>2, <2>1
  <2>3. pc[t] = "commit" => AllAgree(work)
    BY <1>1, <2>2 DEF Undisturbed, Working
  <2>4. AllAgree(disk') /\ AllAgree(work') /\ Tabled(disk)' /\ Tabled(work)'
    BY <1>1, <2>1, <2>3 DEF Tabled
  <2>5. AllAgree(disk)' /\ AllAgree(work)'
    BY <1>3, <2>1, <2>4 DEF AllAgree
  <2>6. /\ pc'[t] \notin Running \cup {"idle"}
        /\ \A s \in Tasks \ {t} : pc'[s] = pc[s] /\ place'[s] = place[s]
    BY <1>2, <2>1, Places DEF Ended
  <2>7. \A s \in Tasks \ {t} : PlaceOf(s) => PlaceOf(s)'
    <3>1. \A s \in Tasks : Program(s)' = Program(s)
      BY <2>1 DEF Program
    <3> QED
      BY <2>6, <3>1 DEF PlaceOf
  <2>8. Serving'
    BY <1>1, <2>1, <2>6, <2>7 DEF Serving, Running
  <2>9. \A s \in Tasks : pc'[s] # "run"
    BY <2>2, <2>6 DEF Working, Running
  <2>10. place' \in [Tasks -> [op : Nat, stmt : Nat]]
    BY <1>1, <1>4, <2>1
  <2>11. up' # "filled"
    BY <1>1, <2>1, Places DEF Serving
  <2> QED
    BY <2>4, <2>5, <2>8, <2>9, <2>10, <2>11 DEF TextInv
(* initialize() runs, or the process dies, with no task in a unit of work. *)
<1>13. ASSUME UNCHANGED unit, native' \in BOOLEAN, native' => up' = "open",
              \A s \in Tasks : pc'[s] \notin Running,
              place' \in [Tasks -> [op : Nat, stmt : Nat]],
              \A s \in Tasks : pc'[s] = "idle" => place'[s] = FirstPlace,
              Tabled(work)', Tabled(disk)', AllAgree(disk)', AllAgree(work)',
              up' = "filled" => \A h \in Hashes : (work.words[h] = Stored(work, h))'
       PROVE  TextInv'
  <2>1. Serving'
    BY <1>1, <1>13 DEF Serving, Running
  <2>2. \A s \in Tasks : pc'[s] # "run"
    BY <1>13 DEF Running
  <2> QED
    BY <1>13, <2>1, <2>2 DEF TextInv
<1>14. ASSUME Initialize PROVE TextInv'
  <2>1. /\ up # "open" /\ UNCHANGED <<unit, pc, place>>
        /\ native' \in BOOLEAN /\ (native' => up' = "open")
    <3>1. up # "open" /\ UNCHANGED <<unit, pc, place>>
      BY <1>14 DEF Initialize, Connect, FillWords, ExposeIndex, SetupFails, InitStep, task
    <3>2. native = FALSE
      BY <1>1, <3>1 DEF Serving
    <3>3. native' = FALSE \/ (native' = TRUE /\ up' = "open")
      <4>1. native' = native \/ (native' = TRUE /\ up' = "open")
        BY <1>14 DEF Initialize, Connect, FillWords, ExposeIndex, SetupFails, InitStep
      <4> QED
        BY <3>2, <4>1
    <3>4. CASE native' = FALSE
      BY <3>1, <3>4
    <3>5. CASE native' = TRUE /\ up' = "open"
      BY <3>1, <3>5
    <3> QED
      BY <3>3, <3>4, <3>5
  <2>2. ~native /\ \A s \in Tasks : pc'[s] \notin Running
    BY <1>1, <2>1 DEF Serving, Running
  <2>3. AllAgree(work)
    BY <2>1, <2>2, <1>1 DEF Undisturbed, Running
  <2>4. \A s \in Tasks : pc'[s] = "idle" => place'[s] = FirstPlace
    BY <1>1, <2>1 DEF Serving
  <2>5. CASE Connect
    <3>1. UNCHANGED <<disk, work, native>> /\ up' = "tables"
      BY <2>5 DEF Connect, InitStep
    <3>2. AllAgree(disk)' /\ AllAgree(work)' /\ Tabled(disk)' /\ Tabled(work)'
      BY <1>1, <2>3, <3>1 DEF AllAgree, Agrees, Stored, Tabled
    <3> QED
      BY <1>1, <1>13, <2>1, <2>2, <2>4, <3>1, <3>2
  <2>6. CASE FillWords
    <3> DEFINE filled == [h \in Hashes |-> IF h \in work.raw /\ work.words[h] = 0 THEN 1
                                           ELSE work.words[h]]
    <3>1. /\ UNCHANGED <<disk, native>> /\ up' = "filled"
          /\ work' = [work EXCEPT !.words = filled]
      <4>1. DOMAIN work.words = Hashes
        BY <1>1 DEF Tabled
      <4>2. work' = [work EXCEPT !.words = [h \in Hashes |->
                        IF h \in work.raw /\ work.words[h] = 0 THEN 1 ELSE work.words[h]]]
        BY <2>6 DEF FillWords
      <4> QED
        BY <2>6, <4>2 DEF FillWords, InitStep
    <3>2. filled \in [Hashes -> Nat]
      BY <1>1 DEF Tabled
    <3>3. \A h \in Hashes : filled[h] = Stored(work, h)
      <4> SUFFICES ASSUME NEW h \in Hashes PROVE filled[h] = Stored(work, h)
        OBVIOUS
      <4>1. work.words[h] \in Nat /\ work.words[h] <= Stored(work, h)
        BY <1>1, <2>3 DEF AllAgree, Agrees, Tabled
      <4>2. CASE h \in work.raw
        BY <4>1, <4>2 DEF Stored
      <4>3. CASE h \notin work.raw
        BY <4>1, <4>3 DEF Stored
      <4> QED
        BY <4>2, <4>3
    <3> HIDE DEF filled
    <3>4. Tabled(work') /\ work'.raw = work.raw /\ work'.fts = work.fts /\ work'.words = filled
      BY <1>1, <3>1, <3>2 DEF Tabled
    <3>5. Tabled(work)'
      BY <3>4 DEF Tabled
    <3>6. \A h \in Hashes : (work.words[h] = Stored(work, h))'
      BY <3>3, <3>4 DEF Stored
    <3>7. \A h \in Hashes : work'.fts[h] = Stored(work', h) /\ work'.words[h] = Stored(work', h)
                            /\ Stored(work', h) \in Nat
      BY <2>3, <3>3, <3>4 DEF AllAgree, Agrees, Stored
    <3>8. AllAgree(work)' /\ AllAgree(disk)' /\ Tabled(disk)'
      BY <1>1, <3>1, <3>7 DEF AllAgree, Agrees, Stored, Tabled
    <3> QED
      BY <1>1, <1>13, <2>1, <2>2, <2>4, <3>1, <3>5, <3>6, <3>8
  <2>7. CASE ExposeIndex
    <3>1. disk' = work /\ work' = work /\ native' = TRUE /\ up = "filled" /\ up' = "open"
      BY <2>7 DEF ExposeIndex, InitStep
    <3>2. \A h \in Hashes : work.words[h] = Stored(work, h) /\ work.fts[h] = Stored(work, h)
                            /\ Stored(work, h) \in Nat
      BY <1>1, <2>3, <3>1 DEF AllAgree, Agrees, Stored
    <3>3. AllAgree(work)' /\ AllAgree(disk)' /\ Tabled(disk)' /\ Tabled(work)'
      BY <1>1, <3>1, <3>2 DEF AllAgree, Agrees, Stored, Tabled
    <3> QED
      BY <1>1, <1>13, <2>1, <2>2, <2>4, <3>1, <3>3
  <2>8. CASE SetupFails
    <3>1. work' = disk /\ disk' = disk /\ native' = native /\ up' = "open"
      BY <2>8 DEF SetupFails, InitStep
    <3>2. AllAgree(work)' /\ AllAgree(disk)' /\ Tabled(disk)' /\ Tabled(work)'
      BY <1>1, <3>1 DEF AllAgree, Agrees, Stored, Tabled
    <3> QED
      BY <1>1, <1>13, <2>1, <2>2, <2>4, <3>1, <3>2
  <2> QED
    BY <1>14, <2>5, <2>6, <2>7, <2>8 DEF Initialize
<1>15. ASSUME Die PROVE TextInv'
  <2>1. /\ work' = disk /\ disk' = disk /\ native' = FALSE /\ up' = "down" /\ UNCHANGED unit
        /\ place' = [s \in Tasks |-> FirstPlace]
        /\ \A s \in Tasks : pc'[s] = IF pc[s] \in Running THEN "gone" ELSE pc[s]
    BY <1>15 DEF Die
  <2>2. \A s \in Tasks : pc'[s] \notin Running
    BY <2>1 DEF Running
  <2>3. AllAgree(work)' /\ AllAgree(disk)' /\ Tabled(disk)' /\ Tabled(work)'
    BY <1>1, <2>1 DEF AllAgree, Agrees, Stored, Tabled
  <2> QED
    BY <1>4, <1>13, <2>1, <2>2, <2>3
<1>16. ASSUME UNCHANGED vars PROVE TextInv'
  <2>1. UNCHANGED <<disk, work, native, up, unit, place, known, pc>>
    BY <1>16 DEF vars, store, task, life
  <2>2. \A s \in Tasks : (PlaceOf(s) => PlaceOf(s)') /\ (AtWork(s) => AtWork(s)')
    BY <2>1, AtWorkStays
  <2>3. /\ AllAgree(disk)' /\ Tabled(disk)' /\ Tabled(work)'
        /\ Undisturbed' => AllAgree(work)'
    BY <1>1, <2>1 DEF AllAgree, Agrees, Stored, Tabled, Undisturbed
  <2>4. Serving'
    BY <1>1, <2>1, <2>2 DEF Serving
  <2>5. up' = "filled" => \A h \in Hashes : (work.words[h] = Stored(work, h))'
    BY <1>1, <2>1 DEF Stored
  <2> QED
    BY <1>1, <2>1, <2>2, <2>3, <2>4, <2>5 DEF TextInv
<1> QED
  BY <1>6, <1>7, <1>8, <1>9, <1>10, <1>11, <1>12, <1>14, <1>15, <1>16 DEF Next, Step

(* The trigram table has one row for each stored text; so has the word     *)
(* table while the store serves searches.  Whatever unit fails or is       *)
(* cancelled between the statements that index or delete a text, and       *)
(* wherever the process dies, the committed indexes stay true to the texts *)
(* (sqlite_metadata.py index_text, delete_text, _backfill_word_index).     *)
THEOREM IndexesStayTrue == Spec => []IndexesAgree
<1>1. TextInv => IndexesAgree
  BY DEF TextInv, AllAgree, Agrees, Stored, IndexesAgree
<1>2. Spec => []TextInv
  BY TextInit, TextStep, SqlInvariance, PTL DEF Spec
<1> QED
  BY <1>1, <1>2, PTL

----------------------------------------------------------------------------
(* The refinement of AtomicStore.                                          *)

(* A task that is at work on the connection, or between two operations of  *)
(* its transaction().                                                      *)
Inside(t) == pc[t] \in Working \/ inTxn[t]

SameTables(T, U) == U.rows = T.rows /\ U.current = T.current /\ U.raw = T.raw

(* The version number is free, and a compare-and-swap expects the current. *)
Occupied(t)   == Taken(disk, unit[t].path, NewRow(t).number)
AsExpected(t) == disk.current[unit[t].path] = unit[t].expected

MayPut(t) ==
    /\ ~Occupied(t)
    /\ unit[t].kind = "cas" => AsExpected(t)

PutRows(t)    == disk.rows \cup {NewRow(t)}
PutCurrent(t) == [disk.current EXCEPT ![unit[t].path] = NewRow(t).number]
PutText(t)    == IF Indexes(t) THEN disk.raw \cup {TextOf(t)} ELSE disk.raw

(* What the statements a task has executed make of the committed tables.   *)
Indexing(t) ==
    /\ work.rows = disk.rows /\ work.current = disk.current
    /\ work.raw = IF place[t].stmt = 1 THEN disk.raw ELSE PutText(t)

Sweeping(t) ==
    /\ ~Referenced(disk, unit[t].hash)
    /\ work.rows = disk.rows /\ work.current = disk.current
    /\ work.raw = IF place[t].stmt = 1 THEN disk.raw ELSE disk.raw \ {unit[t].hash}

Putting(t) ==
    /\ work.raw = PutText(t)
    /\ work.rows = IF unit[t].kind = "write" /\ place[t].stmt = 2 THEN PutRows(t) ELSE disk.rows
    /\ work.current = IF unit[t].kind = "cas" /\ place[t].stmt = 2 THEN PutCurrent(t)
                      ELSE disk.current
    /\ unit[t].kind = "write" /\ place[t].stmt = 2 => MayPut(t)
    /\ unit[t].kind = "cas" /\ place[t].stmt = 2 =>
            disk.current[unit[t].path] = unit[t].expected

Progress(t) ==
    IF Indexes(t) /\ place[t].op = 1 THEN Indexing(t)
    ELSE IF Sweeps(t) /\ place[t].op = 2 THEN Sweeping(t)
    ELSE Putting(t)

(* What a unit that is about to commit has done.                           *)
Put(t) ==
    /\ MayPut(t)
    /\ work.rows = PutRows(t) /\ work.current = PutCurrent(t) /\ work.raw = PutText(t)

Pruned(t) ==
    /\ work.rows = {v \in disk.rows : v.path = unit[t].path => v.number >= known[t].number}
    /\ work.current = disk.current /\ work.raw = disk.raw

Swept(t) ==
    /\ work.rows = disk.rows /\ work.current = disk.current
    /\ work.raw = IF native /\ ~Referenced(disk, unit[t].hash)
                  THEN disk.raw \ {unit[t].hash} ELSE disk.raw

Reindexed(t) ==
    /\ work.rows = {IF IsKnown(v, t) THEN [v EXCEPT !.ready = TRUE] ELSE v : v \in disk.rows}
    /\ work.current = disk.current /\ work.raw = disk.raw \cup {known[t].hash}

Answered(t) ==
    /\ SameTables(disk, work)
    /\ answer[t] = [h \in Hashes |->
                        IF h \in visible[t] \cap disk.raw \cap Hits(unit[t].query) THEN 1 ELSE 0]

Completed(t) ==
    /\ unit[t].kind \in {"write", "cas"} => Put(t)
    /\ unit[t].kind = "prune" => Pruned(t)
    /\ unit[t].kind = "sweep" => Swept(t)
    /\ unit[t].kind = "reindex" => Reindexed(t)
    /\ unit[t].kind = "search" => Answered(t)

(* A unit that is refused had no right to its version, and says why.       *)
Due(t, how) ==
    \/ how = "collision" /\ unit[t].kind = "write" /\ Occupied(t)
    \/ how = "conflict" /\ unit[t].kind = "cas" /\ ~AsExpected(t)
    \/ how = "integrity" /\ unit[t].kind = "cas" /\ AsExpected(t) /\ Occupied(t)

Refused(t) == outcome[t] = "failed" \/ Due(t, outcome[t])

Faithful(t) ==
    /\ pc[t] = "run" \/ (pc[t] = "enter" /\ inTxn[t]) => Progress(t)
    /\ pc[t] = "commit" => Completed(t)
    /\ pc[t] = "rollback" => Refused(t)

(* A task is in a transaction() from its beginning to its end.             *)
Transactions ==
    \A t \in Tasks :
        /\ inTxn[t] => pc[t] \in {"enter", "run", "commit", "rollback"}
        /\ pc[t] \in {"begin", "enter"} /\ ~inTxn[t] => place[t] = FirstPlace
        /\ pc[t] \in {"enter", "run"} /\ Transactional(t) => inTxn[t]

(* Only a search answers.                                                  *)
Answers ==
    /\ DOMAIN answer = Tasks
    /\ \A t \in Tasks : unit[t].kind # "search" => answer[t] = NoAnswer

UnitInv ==
    /\ (\A t \in Tasks : ~Inside(t)) => SameTables(disk, work)
    /\ Transactions
    /\ Answers
    /\ \A t \in Tasks : Faithful(t)

(* The statement of an operation that touches no text index.               *)
LEMMA StatementOf ==
    ASSUME Serving, NEW t \in Tasks, PlaceOf(t), place[t].op \in Nat, place[t].stmt \in Nat,
           ~(Indexes(t) /\ place[t].op = 1), ~(Sweeps(t) /\ place[t].op = 2)
    PROVE  /\ unit[t].kind = "write" =>
                /\ place[t].stmt \in 1 .. 2 /\ Statement(t) = <<"insert", "point">>[place[t].stmt]
                /\ LastStatement(t) <=> place[t].stmt = 2
           /\ unit[t].kind = "cas" =>
                /\ place[t].stmt \in 1 .. 2 /\ Statement(t) = <<"swap", "insert">>[place[t].stmt]
                /\ LastStatement(t) <=> place[t].stmt = 2
           /\ unit[t].kind = "reindex" =>
                /\ place[t].stmt \in 1 .. 2
                /\ Statement(t) = <<"manifest", "artifact">>[place[t].stmt]
                /\ LastStatement(t) <=> place[t].stmt = 2
           /\ unit[t].kind = "prune" => Statement(t) = "drop" /\ LastStatement(t)
           /\ unit[t].kind = "sweep" => Statement(t) = "references" /\ LastStatement(t)
           /\ unit[t].kind = "search" => Statement(t) = "select" /\ LastStatement(t)
<1> DEFINE p == Program(t)
<1>1. PICK o \in Nat, n \in Nat : o = place[t].op /\ n = place[t].stmt
  OBVIOUS
<1>2. /\ o \in 1 .. Len(p) /\ n \in 1 .. Len(p[o]) /\ Statement(t) = p[o][n]
      /\ LastStatement(t) <=> n = Len(p[o])
  BY <1>1 DEF PlaceOf, Statement, LastStatement
<1>3. unit[t].kind \in {"write", "cas"} => /\ Len(p) = (IF native THEN 2 ELSE 1)
                                           /\ Indexes(t) <=> native
  BY DEF Program, Indexes
<1>4. /\ unit[t].kind = "write" => p[Len(p)] = <<"insert", "point">>
      /\ unit[t].kind = "cas" => p[Len(p)] = <<"swap", "insert">>
  <2>1. CASE unit[t].kind = "write"
    BY <2>1 DEF Program
  <2>2. CASE unit[t].kind = "cas"
    BY <2>2 DEF Program
  <2> QED
    BY <2>1, <2>2
<1>5. /\ unit[t].kind = "reindex" => Indexes(t) /\ Len(p) = 2 /\ p[2] = <<"manifest", "artifact">>
      /\ unit[t].kind = "sweep" => /\ Len(p) = (IF native THEN 2 ELSE 1) /\ p[1] = <<"references">>
                                   /\ Sweeps(t) <=> native
  BY DEF Program, Indexes, Sweeps
<1>6. /\ unit[t].kind = "prune" => Len(p) = 1 /\ p[1] = <<"drop">>
      /\ unit[t].kind = "search" => Len(p) = 1 /\ p[1] = <<"select">>
  BY DEF Program
<1> HIDE DEF p
<1>7. ~(Indexes(t) /\ o = 1) /\ ~(Sweeps(t) /\ o = 2)
  BY <1>1
<1>8. o \in 1 .. Len(p)
  BY <1>2
<1>9. /\ unit[t].kind \in {"write", "cas"} => o = Len(p)
      /\ unit[t].kind = "reindex" => o = 2
      /\ unit[t].kind = "sweep" => o = 1
  <2>1. ASSUME unit[t].kind \in {"write", "cas"} PROVE o = Len(p)
    <3>1. CASE native
      <4>1. Len(p) = 2 /\ o # 1
        BY <1>3, <1>7, <2>1, <3>1
      <4> QED
        BY <1>8, <4>1
    <3>2. CASE ~native
      <4>1. Len(p) = 1
        BY <1>3, <2>1, <3>2
      <4> QED
        BY <1>8, <4>1
    <3> QED
      BY <3>1, <3>2
  <2>2. ASSUME unit[t].kind = "reindex" PROVE o = 2
    <3>1. Len(p) = 2 /\ o # 1
      BY <1>5, <1>7, <2>2
    <3> QED
      BY <1>8, <3>1
  <2>3. ASSUME unit[t].kind = "sweep" PROVE o = 1
    <3>1. CASE native
      <4>1. Len(p) = 2 /\ o # 2
        BY <1>5, <1>7, <2>3, <3>1
      <4> QED
        BY <1>8, <4>1
    <3>2. CASE ~native
      <4>1. Len(p) = 1
        BY <1>5, <2>3, <3>2
      <4> QED
        BY <1>8, <4>1
    <3> QED
      BY <3>1, <3>2
  <2> QED
    BY <2>1, <2>2, <2>3
<1>10. ASSUME unit[t].kind \in {"prune", "search"} PROVE o = 1
  <2>1. Len(p) = 1
    BY <1>6, <1>10
  <2> QED
    BY <1>8, <2>1
<1>11. /\ unit[t].kind = "write" => p[o] = <<"insert", "point">>
       /\ unit[t].kind = "cas" => p[o] = <<"swap", "insert">>
       /\ unit[t].kind = "reindex" => p[o] = <<"manifest", "artifact">>
       /\ unit[t].kind = "prune" => p[o] = <<"drop">>
       /\ unit[t].kind = "sweep" => p[o] = <<"references">>
       /\ unit[t].kind = "search" => p[o] = <<"select">>
  BY <1>4, <1>5, <1>6, <1>9, <1>10
<1>12. /\ Len(<<"insert", "point">>) = 2 /\ Len(<<"swap", "insert">>) = 2
       /\ Len(<<"manifest", "artifact">>) = 2 /\ Len(<<"drop">>) = 1
       /\ Len(<<"references">>) = 1 /\ Len(<<"select">>) = 1
       /\ <<"drop">>[1] = "drop" /\ <<"references">>[1] = "references" /\ <<"select">>[1] = "select"
  OBVIOUS
<1>13. ASSUME unit[t].kind \in {"write", "cas", "reindex"}
       PROVE  n \in 1 .. 2 /\ (LastStatement(t) <=> n = 2)
  <2>1. Len(p[o]) = 2
    BY <1>11, <1>12, <1>13
  <2> QED
    BY <1>2, <2>1
<1>14. ASSUME unit[t].kind \in {"prune", "sweep", "search"}
       PROVE  n = 1 /\ LastStatement(t)
  <2>1. Len(p[o]) = 1
    BY <1>11, <1>12, <1>14
  <2> QED
    BY <1>2, <2>1
<1>15. ASSUME unit[t].kind = "prune" PROVE Statement(t) = "drop"
  BY <1>2, <1>11, <1>12, <1>14, <1>15
<1>16. ASSUME unit[t].kind = "sweep" PROVE Statement(t) = "references"
  BY <1>2, <1>11, <1>12, <1>14, <1>16
<1>17. ASSUME unit[t].kind = "search" PROVE Statement(t) = "select"
  BY <1>2, <1>11, <1>12, <1>14, <1>17
<1>18. ASSUME unit[t].kind \in {"write", "cas", "reindex"}
       PROVE  Statement(t) = p[o][place[t].stmt] /\ place[t].stmt \in 1 .. 2
              /\ (LastStatement(t) <=> place[t].stmt = 2)
  BY <1>1, <1>2, <1>13, <1>18
<1> QED
  BY <1>11, <1>14, <1>15, <1>16, <1>17, <1>18

(* What a statement does to the versions, the pointers and the texts.      *)
LEMMA TableEffect ==
    ASSUME NEW t \in Tasks, Tabled(work)
    PROVE  LET W == Effect(t) IN
           /\ Statement(t) \in {"references", "manifest", "select"} => W = work
           /\ Statement(t) \in {"-fts", "+fts", "-words", "+words"} =>
                W.rows = work.rows /\ W.current = work.current /\ W.raw = work.raw
           /\ Statement(t) = "text" => /\ W.rows = work.rows /\ W.current = work.current
                                       /\ W.raw = work.raw \cup {TextOf(t)}
           /\ Statement(t) = "-text" => /\ W.rows = work.rows /\ W.current = work.current
                                        /\ W.raw = work.raw \ {TextOf(t)}
           /\ Statement(t) = "insert" => /\ W.rows = work.rows \cup {NewRow(t)}
                                         /\ W.current = work.current /\ W.raw = work.raw
           /\ Statement(t) \in {"point", "swap"} =>
                /\ W.current = [work.current EXCEPT ![unit[t].path] = NewRow(t).number]
                /\ W.rows = work.rows /\ W.raw = work.raw
           /\ Statement(t) = "drop" =>
                /\ W.rows = {v \in work.rows : v.path = unit[t].path => v.number >= known[t].number}
                /\ W.current = work.current /\ W.raw = work.raw
           /\ Statement(t) = "artifact" =>
                /\ W.rows = {IF IsKnown(v, t) THEN [v EXCEPT !.ready = TRUE] ELSE v : v \in work.rows}
                /\ W.current = work.current /\ W.raw = work.raw
<1>1. CASE Statement(t) \in {"references", "manifest", "select"}
  BY <1>1 DEF Effect
<1>2. CASE Statement(t) \in {"-fts", "+fts"}
  BY <1>2 DEF Effect, Tabled
<1>3. CASE Statement(t) \in {"-words", "+words"}
  BY <1>3 DEF Effect, Tabled
<1>4. CASE Statement(t) \in {"text", "-text"}
  BY <1>4 DEF Effect, Tabled
<1>5. CASE Statement(t) \in {"insert", "drop", "artifact"}
  BY <1>5 DEF Effect, Tabled
<1>6. CASE Statement(t) \in {"point", "swap"}
  BY <1>6 DEF Effect, Tabled
<1> QED
  BY <1>1, <1>2, <1>3, <1>4, <1>5, <1>6

(* Before its first statement a unit has changed nothing.                  *)
LEMMA FirstProgress ==
    ASSUME NEW t \in Tasks, place[t] = FirstPlace, SameTables(disk, work)
    PROVE  Progress(t)
<1>1. place[t].op = 1 /\ place[t].stmt = 1
  BY DEF FirstPlace
<1>2. CASE Indexes(t)
  BY <1>1, <1>2 DEF Progress, Indexing, SameTables
<1>3. CASE ~Indexes(t)
  BY <1>1, <1>3 DEF Progress, Putting, SameTables, PutText
<1> QED
  BY <1>2, <1>3

(* What a search returns is what is stored, visible and matching.          *)
LEMMA SearchAnswers ==
    ASSUME LiteralsAreMandatory, TextInv, NEW t \in Tasks, pc[t] = "run",
           unit[t].kind = "search", native, work.raw = disk.raw
    PROVE  Found(t) = [h \in Hashes |->
                        IF h \in visible[t] \cap disk.raw \cap Hits(unit[t].query) THEN 1 ELSE 0]
<1> DEFINE q == unit[t].query
<1>1. q \in Queries
  BY DEF TextInv, Serving, Queries
<1>2. ~Indexes(t) /\ ~Sweeps(t) /\ AtWork(t)
  BY DEF Indexes, Sweeps, TextInv
<1>3. \A h \in Hashes : Agrees(work, h)
  BY <1>2 DEF AtWork, HalfDone
<1>4. \A h \in Hashes : /\ work.fts[h] = Stored(work, h)
                        /\ work.words[h] = Stored(work, h)
  BY <1>3 DEF Agrees
<1>5. SourceOf[q] \in {"words", "raw", "fts"}
  BY <1>1 DEF SourceOf
<1>6. SourceOf[q] = "fts" => Hits(q) \subseteq WithLiteral[q]
  BY <1>1 DEF LiteralsAreMandatory
<1> HIDE DEF q
<1>7. ASSUME NEW h \in Hashes, h \in Hits(q) PROVE Candidates(q, h) = Stored(work, h)
  <2>1. CASE SourceOf[q] = "words"
    BY <1>4, <1>7, <2>1 DEF Candidates
  <2>2. CASE SourceOf[q] = "raw"
    BY <1>7, <2>2 DEF Candidates, Stored
  <2>3. CASE SourceOf[q] = "fts"
    BY <1>4, <1>6, <1>7, <2>3 DEF Candidates
  <2> QED
    BY <1>5, <2>1, <2>2, <2>3
<1>8. \A h \in Hashes : (IF h \in visible[t] \cap Hits(q) THEN Candidates(q, h) ELSE 0)
                      = (IF h \in visible[t] \cap disk.raw \cap Hits(q) THEN 1 ELSE 0)
  BY <1>7 DEF Stored
<1> QED
  BY <1>8 DEF Found, q

(* A statement brings a unit one step closer to what it is to do.          *)
LEMMA ExecuteProgress ==
    ASSUME LiteralsAreMandatory, IInv, TextInv, UnitInv, NEW t \in Tasks, Execute(t)
    PROVE  /\ pc'[t] \in {"run", "enter"} => Progress(t)'
           /\ pc'[t] = "commit" => Completed(t)'
<1>1. /\ PlaceOf(t) /\ place[t].op \in Nat /\ place[t].stmt \in Nat /\ Serving
      /\ Tabled(work) /\ Progress(t) /\ pc[t] = "run" /\ ~Collides(t) /\ ~Conflicts(t)
      /\ work' = Effect(t)
  BY DEF TextInv, Serving, Execute, UnitInv, Faithful
<1>2. UNCHANGED <<disk, native, unit, known, visible>>
  BY DEF Execute, life
<1>3. /\ TextOf(t)' = TextOf(t) /\ NewRow(t)' = NewRow(t)
      /\ Indexes(t)' = Indexes(t) /\ Sweeps(t)' = Sweeps(t)
      /\ \A v : IsKnown(v, t)' <=> IsKnown(v, t)
  BY <1>2 DEF TextOf, NewRow, Indexes, Sweeps, IsKnown
<1>4. /\ PutText(t)' = PutText(t) /\ PutRows(t)' = PutRows(t) /\ PutCurrent(t)' = PutCurrent(t)
      /\ MayPut(t)' = MayPut(t)
  BY <1>2, <1>3 DEF PutText, PutRows, PutCurrent, MayPut, Occupied, AsExpected, Taken
<1>5. /\ pc'[t] = "run" => /\ place'[t].op = place[t].op /\ place'[t].stmt = place[t].stmt + 1
                           /\ ~LastStatement(t) /\ ~Returns(t)
      /\ pc'[t] = "enter" => /\ place'[t].op = place[t].op + 1 /\ place'[t].stmt = 1
                             /\ LastStatement(t) /\ ~LastOperation(t) /\ ~Returns(t)
      /\ pc'[t] = "commit" => Returns(t) \/ (LastStatement(t) /\ LastOperation(t))
      /\ pc'[t] \in {"commit", "enter", "run"}
  BY ExecutePlaces
<1>6. unit[t].kind \in {"write", "cas", "prune", "sweep", "reindex", "search"}
  BY <1>1, SqlAssumption DEF Serving
<1>7. CASE Indexes(t) /\ place[t].op = 1
  <2>1. /\ place[t].stmt \in 1 .. 5 /\ Statement(t) = IndexText[place[t].stmt]
        /\ LastStatement(t) <=> place[t].stmt = 5
        /\ ~LastOperation(t)
    BY <1>1, <1>7, StatementAt
  <2>2. /\ place[t].stmt = 1 => Statement(t) = "text"
        /\ place[t].stmt # 1 => Statement(t) \in {"-fts", "+fts", "-words", "+words"}
    BY <2>1 DEF IndexText
  <2>3. ~Returns(t)
    BY <2>2 DEF Returns
  <2>4. Indexing(t)
    BY <1>1, <1>7 DEF Progress
  <2>5. work'.rows = disk.rows /\ work'.current = disk.current /\ work'.raw = PutText(t)
    <3>1. CASE place[t].stmt = 1
      BY <1>1, <1>7, <2>2, <2>4, <3>1, TableEffect DEF Indexing, PutText
    <3>2. CASE place[t].stmt # 1
      BY <1>1, <2>2, <2>4, <3>2, TableEffect DEF Indexing
    <3> QED
      BY <3>1, <3>2
  <2>6. CASE pc'[t] = "run"
    <3>1. place'[t].op = 1 /\ place'[t].stmt # 1
      BY <1>5, <1>7, <2>1, <2>6
    <3> QED
      BY <1>2, <1>3, <1>4, <1>7, <2>5, <2>6, <3>1 DEF Progress, Indexing
  <2>7. CASE pc'[t] = "enter"
    <3>1. place'[t].op = 2 /\ place'[t].stmt = 1
      BY <1>5, <1>7, <2>7
    <3>2. ~Sweeps(t)
      BY <1>7 DEF Sweeps, Indexes
    <3> QED
      BY <1>2, <1>3, <1>4, <2>5, <2>7, <3>1, <3>2 DEF Progress, Putting
  <2> QED
    BY <1>5, <2>1, <2>3, <2>6, <2>7
<1>8. CASE Sweeps(t) /\ place[t].op = 2
  <2>1. /\ place[t].stmt \in 1 .. 3
        /\ Statement(t) = <<"-text", "-fts", "-words">>[place[t].stmt]
        /\ LastStatement(t) <=> place[t].stmt = 3
        /\ LastOperation(t)
    BY <1>1, <1>8, StatementAt
  <2>2. /\ place[t].stmt = 1 => Statement(t) = "-text"
        /\ place[t].stmt # 1 => Statement(t) \in {"-fts", "-words"}
    BY <2>1
  <2>3. /\ native /\ unit[t].kind = "sweep" /\ ~Indexes(t) /\ TextOf(t) = unit[t].hash
        /\ Sweeping(t)
    BY <1>1, <1>8 DEF Sweeps, Indexes, Progress, TextOf
  <2>4. work'.rows = disk.rows /\ work'.current = disk.current
        /\ work'.raw = disk.raw \ {unit[t].hash}
    <3>1. CASE place[t].stmt = 1
      BY <1>1, <2>2, <2>3, <3>1, TableEffect DEF Sweeping
    <3>2. CASE place[t].stmt # 1
      BY <1>1, <2>2, <2>3, <3>2, TableEffect DEF Sweeping
    <3> QED
      BY <3>1, <3>2
  <2>5. ~Referenced(disk, unit[t].hash)
    BY <2>3 DEF Sweeping
  <2>6. CASE pc'[t] = "run"
    <3>1. place'[t].op = 2 /\ place'[t].stmt # 1
      BY <1>5, <1>8, <2>1, <2>6
    <3> QED
      BY <1>2, <1>3, <1>8, <2>3, <2>4, <2>5, <2>6, <3>1 DEF Progress, Sweeping, Referenced
  <2>7. CASE pc'[t] = "commit"
    <3>1. Swept(t)'
      BY <1>2, <2>3, <2>4, <2>5 DEF Swept, Referenced
    <3> QED
      BY <1>2, <2>3, <2>7, <3>1 DEF Completed
  <2> QED
    BY <1>5, <2>1, <2>6, <2>7
<1>9. CASE ~(Indexes(t) /\ place[t].op = 1) /\ ~(Sweeps(t) /\ place[t].op = 2)
  <2>1. Putting(t) /\ (~(Sweeps(t) /\ place[t].op = 1) => LastOperation(t))
    BY <1>1, <1>9, StatementAt DEF Progress
  <2>2. CASE unit[t].kind = "write"
    <3>1. /\ place[t].stmt \in 1 .. 2 /\ LastOperation(t)
          /\ place[t].stmt = 1 => Statement(t) = "insert"
          /\ place[t].stmt = 2 => Statement(t) = "point"
          /\ LastStatement(t) <=> place[t].stmt = 2
      BY <1>1, <1>9, <2>1, <2>2, StatementOf DEF Sweeps
    <3>2. ~Returns(t)
      BY <3>1 DEF Returns
    <3>3. CASE place[t].stmt = 1
      <4>1. pc'[t] = "run" /\ place'[t].op = place[t].op /\ place'[t].stmt = 2
        BY <1>5, <3>1, <3>2, <3>3
      <4>2. MayPut(t)
        BY <1>1, <2>1, <2>2, <3>1, <3>3 DEF Collides, MayPut, Occupied, AsExpected, Putting, Taken
      <4>3. work'.rows = PutRows(t) /\ work'.current = disk.current /\ work'.raw = PutText(t)
        BY <1>1, <2>1, <2>2, <3>1, <3>3, TableEffect DEF Putting, PutRows
      <4> QED
        BY <1>2, <1>3, <1>4, <1>9, <2>2, <4>1, <4>2, <4>3 DEF Progress, Putting
    <3>4. CASE place[t].stmt = 2
      <4>1. pc'[t] = "commit"
        BY <1>5, <3>1, <3>2, <3>4
      <4>2. /\ MayPut(t) /\ work'.rows = PutRows(t) /\ work'.current = PutCurrent(t)
            /\ work'.raw = PutText(t)
        BY <1>1, <2>1, <2>2, <3>1, <3>4, TableEffect DEF Putting, PutCurrent
      <4> QED
        BY <1>2, <1>4, <2>2, <4>1, <4>2 DEF Completed, Put
    <3> QED
      BY <3>1, <3>3, <3>4
  <2>3. CASE unit[t].kind = "cas"
    <3>1. /\ place[t].stmt \in 1 .. 2 /\ LastOperation(t)
          /\ place[t].stmt = 1 => Statement(t) = "swap"
          /\ place[t].stmt = 2 => Statement(t) = "insert"
          /\ LastStatement(t) <=> place[t].stmt = 2
      BY <1>1, <1>9, <2>1, <2>3, StatementOf DEF Sweeps
    <3>2. ~Returns(t)
      BY <3>1 DEF Returns
    <3>3. CASE place[t].stmt = 1
      <4>1. pc'[t] = "run" /\ place'[t].op = place[t].op /\ place'[t].stmt = 2
        BY <1>5, <3>1, <3>2, <3>3
      <4>2. disk.current[unit[t].path] = unit[t].expected
        BY <1>1, <2>1, <2>3, <3>1, <3>3 DEF Conflicts, Putting
      <4>3. work'.rows = disk.rows /\ work'.current = PutCurrent(t) /\ work'.raw = PutText(t)
        BY <1>1, <2>1, <2>3, <3>1, <3>3, TableEffect DEF Putting, PutCurrent
      <4> QED
        BY <1>2, <1>3, <1>4, <1>9, <2>3, <4>1, <4>2, <4>3 DEF Progress, Putting
    <3>4. CASE place[t].stmt = 2
      <4>1. pc'[t] = "commit"
        BY <1>5, <3>1, <3>2, <3>4
      <4>2. MayPut(t)
        BY <1>1, <2>1, <2>3, <3>1, <3>4 DEF Collides, MayPut, Occupied, AsExpected, Putting, Taken
      <4>3. work'.rows = PutRows(t) /\ work'.current = PutCurrent(t) /\ work'.raw = PutText(t)
        BY <1>1, <2>1, <2>3, <3>1, <3>4, TableEffect DEF Putting, PutRows
      <4> QED
        BY <1>2, <1>4, <2>3, <4>1, <4>2, <4>3 DEF Completed, Put
    <3> QED
      BY <3>1, <3>3, <3>4
  <2>4. CASE unit[t].kind = "prune"
    <3>1. LastOperation(t) /\ Statement(t) = "drop" /\ LastStatement(t) /\ ~Returns(t) /\ ~Indexes(t)
      BY <1>1, <1>9, <2>1, <2>4, StatementOf DEF Sweeps, Returns, Indexes
    <3>2. pc'[t] = "commit"
      BY <1>5, <3>1
    <3>3. /\ work'.rows = {v \in disk.rows : v.path = unit[t].path => v.number >= known[t].number}
          /\ work'.current = disk.current /\ work'.raw = disk.raw
      BY <1>1, <2>1, <2>4, <3>1, TableEffect DEF Putting, PutText
    <3> QED
      BY <1>2, <2>4, <3>2, <3>3 DEF Completed, Pruned
  <2>5. CASE unit[t].kind = "sweep"
    <3>1. Statement(t) = "references" /\ LastStatement(t) /\ ~Indexes(t)
      BY <1>1, <1>9, <2>5, StatementOf DEF Indexes
    <3>2. work'.rows = disk.rows /\ work'.current = disk.current /\ work'.raw = disk.raw
          /\ work.rows = disk.rows
      BY <1>1, <2>1, <2>5, <3>1, TableEffect DEF Putting, PutText
    <3>3. Returns(t) <=> Referenced(disk, unit[t].hash)
      BY <3>1, <3>2 DEF Returns, Referenced
    <3>4. CASE pc'[t] = "enter"
      <4>1. Sweeps(t) /\ place[t].op = 1 /\ place'[t].op = 2 /\ place'[t].stmt = 1
        BY <1>5, <2>1, <3>4
      <4> QED
        BY <1>2, <1>3, <1>5, <3>1, <3>2, <3>3, <3>4, <4>1 DEF Progress, Sweeping, Referenced
    <3>5. CASE pc'[t] = "commit"
      <4>1. native => Referenced(disk, unit[t].hash)
        <5>1. ASSUME native, ~Returns(t) PROVE FALSE
          <6>1. LastOperation(t) /\ Sweeps(t)
            BY <1>5, <2>5, <3>5, <5>1 DEF Sweeps
          <6>2. place[t].op = 1
            BY <1>1, <1>9, <6>1, StatementAt
          <6> QED
            BY <1>1, <6>1, <6>2, StatementAt
        <5> QED
          BY <3>3, <5>1
      <4>2. Swept(t)'
        BY <1>2, <3>2, <4>1 DEF Swept, Referenced
      <4> QED
        BY <1>2, <2>5, <3>5, <4>2 DEF Completed
    <3> QED
      BY <1>5, <3>1, <3>4, <3>5
  <2>6. CASE unit[t].kind = "reindex"
    <3>1. /\ place[t].stmt \in 1 .. 2 /\ LastOperation(t) /\ Indexes(t)
          /\ place[t].stmt = 1 => Statement(t) = "manifest"
          /\ place[t].stmt = 2 => Statement(t) = "artifact"
          /\ LastStatement(t) <=> place[t].stmt = 2
      BY <1>1, <1>9, <2>1, <2>6, StatementOf DEF Sweeps, Indexes
    <3>2. /\ work.rows = disk.rows /\ work.current = disk.current
          /\ work.raw = disk.raw \cup {known[t].hash} /\ PutText(t) = work.raw
      BY <2>1, <2>6, <3>1 DEF Putting, PutText, TextOf
    <3>3. CASE place[t].stmt = 1
      <4>1. work' = work
        BY <1>1, <3>1, <3>3, TableEffect
      <4>2. CASE pc'[t] = "run"
        <5>1. place'[t].op = place[t].op
          BY <1>5, <4>2
        <5> QED
          BY <1>2, <1>3, <1>4, <1>9, <2>6, <3>2, <4>1, <4>2, <5>1 DEF Progress, Putting
      <4>3. CASE pc'[t] = "commit"
        <5>1. Returns(t)
          BY <1>5, <3>1, <3>3, <4>3
        <5>2. \A v \in disk.rows : ~IsKnown(v, t)
          BY <3>1, <3>2, <3>3, <5>1 DEF Returns
        <5>3. disk.rows = {IF IsKnown(v, t) THEN [v EXCEPT !.ready = TRUE] ELSE v : v \in disk.rows}
          BY <5>2
        <5>4. Reindexed(t)'
          BY <1>2, <1>3, <3>2, <4>1, <5>3 DEF Reindexed
        <5> QED
          BY <1>2, <2>6, <4>3, <5>4 DEF Completed
      <4> QED
        BY <1>5, <3>1, <3>3, <4>2, <4>3
    <3>4. CASE place[t].stmt = 2
      <4>1. pc'[t] = "commit"
        BY <1>5, <3>1, <3>4
      <4>2. /\ work'.rows = {IF IsKnown(v, t) THEN [v EXCEPT !.ready = TRUE] ELSE v : v \in disk.rows}
            /\ work'.current = disk.current /\ work'.raw = disk.raw \cup {known[t].hash}
        BY <1>1, <3>1, <3>2, <3>4, TableEffect
      <4>3. Reindexed(t)'
        BY <1>2, <1>3, <4>2 DEF Reindexed
      <4> QED
        BY <1>2, <2>6, <4>1, <4>3 DEF Completed
    <3> QED
      BY <3>1, <3>3, <3>4
  <2>7. CASE unit[t].kind = "search"
    <3>1. LastOperation(t) /\ Statement(t) = "select" /\ LastStatement(t) /\ ~Indexes(t) /\ ~Returns(t)
      BY <1>1, <1>9, <2>1, <2>7, StatementOf DEF Sweeps, Returns, Indexes
    <3>2. pc'[t] = "commit"
      BY <1>5, <3>1
    <3>3. work' = work /\ SameTables(disk, work)
      BY <1>1, <2>1, <2>7, <3>1, TableEffect DEF Putting, PutText, SameTables
    <3>4. answer'[t] = Found(t)
      BY <3>1 DEF Execute, UnitInv, Answers
    <3>5. native
      BY <1>1, <2>7 DEF Serving, Running
    <3>6. Found(t) = [h \in Hashes |->
                        IF h \in visible[t] \cap disk.raw \cap Hits(unit[t].query) THEN 1 ELSE 0]
      BY <1>1, <2>7, <3>3, <3>5, SearchAnswers DEF SameTables
    <3>7. Answered(t)'
      BY <1>2, <3>3, <3>4, <3>6 DEF Answered, SameTables
    <3> QED
      BY <1>2, <2>7, <3>2, <3>7 DEF Completed
  <2> QED
    BY <1>6, <2>2, <2>3, <2>4, <2>5, <2>6, <2>7
<1> QED
  BY <1>7, <1>8, <1>9

(* What another task does elsewhere changes nothing for a unit.            *)
LEMMA FaithfulStays ==
    ASSUME NEW s \in Tasks, UNCHANGED <<disk, work, native, unit>>,
           known'[s] = known[s], place'[s] = place[s], visible'[s] = visible[s]
    PROVE  /\ Progress(s) => Progress(s)'
           /\ Completed(s) /\ answer'[s] = answer[s] => Completed(s)'
           /\ Refused(s) /\ outcome'[s] = outcome[s] => Refused(s)'
           /\ Occupied(s)' = Occupied(s) /\ AsExpected(s)' = AsExpected(s)
           /\ MayPut(s)' = MayPut(s)
<1>1. /\ TextOf(s)' = TextOf(s) /\ NewRow(s)' = NewRow(s)
      /\ Indexes(s)' = Indexes(s) /\ Sweeps(s)' = Sweeps(s)
      /\ \A v : IsKnown(v, s)' <=> IsKnown(v, s)
  BY DEF TextOf, NewRow, Indexes, Sweeps, IsKnown
<1>2. /\ PutText(s)' = PutText(s) /\ PutRows(s)' = PutRows(s) /\ PutCurrent(s)' = PutCurrent(s)
      /\ Occupied(s)' = Occupied(s) /\ AsExpected(s)' = AsExpected(s)
      /\ MayPut(s)' = MayPut(s)
  BY <1>1 DEF PutText, PutRows, PutCurrent, MayPut, Occupied, AsExpected, Taken
<1>3. Progress(s) => Progress(s)'
  BY <1>1, <1>2 DEF Progress, Indexing, Sweeping, Putting, Referenced
<1>4. Put(s) => Put(s)'
  BY <1>2 DEF Put
<1>5. /\ Pruned(s) => Pruned(s)'
      /\ Swept(s) => Swept(s)'
  BY DEF Pruned, Swept, Referenced
<1>6. Reindexed(s) => Reindexed(s)'
  BY <1>1 DEF Reindexed
<1>7. Answered(s) /\ answer'[s] = answer[s] => Answered(s)'
  BY DEF Answered, SameTables
<1>8. Completed(s) /\ answer'[s] = answer[s] => Completed(s)'
  BY <1>4, <1>5, <1>6, <1>7 DEF Completed
<1>9. Refused(s) /\ outcome'[s] = outcome[s] => Refused(s)'
  BY <1>2 DEF Refused, Due
<1> QED
  BY <1>2, <1>3, <1>8, <1>9

(* A unit that the tables refuse has no right to its version.              *)
LEMMA RefusalIsDue ==
    ASSUME IInv, TextInv, UnitInv, NEW t \in Tasks, pc[t] = "run", Collides(t) \/ Conflicts(t)
    PROVE  /\ Collides(t) /\ unit[t].kind = "write" => Due(t, "collision")
           /\ Collides(t) /\ unit[t].kind = "cas" => Due(t, "integrity")
           /\ Conflicts(t) => Due(t, "conflict")
<1>1. /\ PlaceOf(t) /\ place[t].op \in Nat /\ place[t].stmt \in Nat /\ Serving /\ Progress(t)
  BY DEF TextInv, Serving, UnitInv, Faithful
<1>2. unit[t].kind \in {"write", "cas", "prune", "sweep", "reindex", "search"}
  BY <1>1, SqlAssumption DEF Serving
<1>3. Statement(t) \in {"insert", "swap"}
  BY DEF Collides, Conflicts
<1>4. ~(Indexes(t) /\ place[t].op = 1)
  <2>1. SUFFICES ASSUME Indexes(t), place[t].op = 1 PROVE FALSE
    OBVIOUS
  <2>2. place[t].stmt \in 1 .. 5 /\ Statement(t) = IndexText[place[t].stmt]
    BY <1>1, <2>1, StatementAt
  <2> QED
    BY <1>3, <2>2 DEF IndexText
<1>5. ~(Sweeps(t) /\ place[t].op = 2)
  <2>1. SUFFICES ASSUME Sweeps(t), place[t].op = 2 PROVE FALSE
    OBVIOUS
  <2>2. /\ place[t].stmt \in 1 .. 3
        /\ Statement(t) = <<"-text", "-fts", "-words">>[place[t].stmt]
    BY <1>1, <2>1, StatementAt
  <2> QED
    BY <1>3, <2>2
<1>6. Putting(t)
  BY <1>1, <1>4, <1>5 DEF Progress
<1>7. CASE unit[t].kind = "write"
  <2>1. place[t].stmt = 1 /\ Statement(t) = "insert"
    BY <1>1, <1>3, <1>4, <1>5, <1>7, StatementOf
  <2>2. work.rows = disk.rows /\ Collides(t)
    BY <1>6, <1>7, <2>1 DEF Putting, Conflicts
  <2> QED
    BY <1>7, <2>1, <2>2 DEF Collides, Conflicts, Due, Occupied, Taken
<1>8. CASE unit[t].kind = "cas"
  <2>1. /\ place[t].stmt \in 1 .. 2
        /\ place[t].stmt = 1 => Statement(t) = "swap"
        /\ place[t].stmt = 2 => Statement(t) = "insert"
    BY <1>1, <1>4, <1>5, <1>8, StatementOf
  <2>2. /\ work.rows = disk.rows
        /\ place[t].stmt = 1 => work.current = disk.current
        /\ place[t].stmt = 2 => AsExpected(t)
    BY <1>6, <1>8, <2>1 DEF Putting, AsExpected
  <2>3. Collides(t) => Due(t, "integrity")
    BY <1>8, <2>1, <2>2 DEF Collides, Due, Occupied, Taken
  <2>4. Conflicts(t) => Due(t, "conflict")
    BY <1>8, <2>1, <2>2 DEF Conflicts, Due, AsExpected
  <2> QED
    BY <1>8, <2>3, <2>4
<1>9. CASE unit[t].kind = "prune"
  BY <1>1, <1>3, <1>4, <1>5, <1>9, StatementOf
<1>10. CASE unit[t].kind = "sweep"
  BY <1>1, <1>3, <1>4, <1>5, <1>10, StatementOf
<1>11. CASE unit[t].kind = "search"
  BY <1>1, <1>3, <1>4, <1>5, <1>11, StatementOf
<1>12. CASE unit[t].kind = "reindex"
  <2>1. /\ place[t].stmt \in 1 .. 2
        /\ Statement(t) = <<"manifest", "artifact">>[place[t].stmt]
    BY <1>1, <1>4, <1>5, <1>12, StatementOf
  <2> QED
    BY <1>3, <2>1
<1> QED
  BY <1>2, <1>7, <1>8, <1>9, <1>10, <1>11, <1>12

(* At the start nothing has been done.                                     *)
LEMMA UnitInit == Init => UnitInv
<1> SUFFICES ASSUME Init PROVE UnitInv
  OBVIOUS
<1>1. SameTables(disk, work)
  BY DEF Init, SameTables
<1>2. Transactions /\ Answers
  BY DEF Init, Transactions, Answers, NoAnswer
<1>3. \A t \in Tasks : Faithful(t)
  BY DEF Init, Faithful
<1> QED
  BY <1>1, <1>2, <1>3 DEF UnitInv

(* Every step keeps what is known about the units at work.                 *)
LEMMA UnitStep ==
    ASSUME LiteralsAreMandatory, IInv, TextInv, UnitInv, [Next]_vars
    PROVE  UnitInv'
<1>1. /\ (\A t \in Tasks : ~Inside(t)) => SameTables(disk, work)
      /\ Transactions /\ Answers /\ \A t \in Tasks : Faithful(t)
  BY DEF UnitInv
<1>2. /\ pc \in [Tasks -> Running \cup Ended \cup {"idle"}]
      /\ outcome \in [Tasks -> Ended] /\ inTxn \in [Tasks -> BOOLEAN]
      /\ \A s \in Tasks : Inside(s) => lock = s
      /\ DOMAIN answer = Tasks
  BY <1>1 DEF IInv, TaskTypes, OneAtWork, Inside, Answers
<1>3. UNCHANGED <<unit, native>> => \A s \in Tasks : Transactional(s)' <=> Transactional(s)
  BY DEF Transactional
(* A task that is not inside the connection's critical section moves.      *)
<1>4. ASSUME NEW t \in Tasks, UNCHANGED <<disk, work, native, unit, answer, inTxn>>, ~Inside(t),
             \A s \in Tasks \ {t} : /\ pc'[s] = pc[s] /\ place'[s] = place[s]
                                    /\ known'[s] = known[s] /\ visible'[s] = visible[s]
                                    /\ outcome'[s] = outcome[s],
             pc'[t] \notin Working,
             pc'[t] \in {"begin", "enter"} => place'[t] = FirstPlace,
             pc'[t] = "enter" => ~Transactional(t)
      PROVE  UnitInv'
  <2>1. \A s \in Tasks : Inside(s)' <=> Inside(s)
    BY <1>4 DEF Inside
  <2>2. (\A s \in Tasks : ~Inside(s))' => SameTables(disk, work)'
    BY <1>1, <1>4, <2>1 DEF SameTables
  <2>3. ~inTxn[t]
    BY <1>4 DEF Inside
  <2>4. Transactions'
    BY <1>1, <1>3, <1>4, <2>3 DEF Transactions, Working
  <2>5. Answers'
    BY <1>1, <1>4 DEF Answers
  <2>6. \A s \in Tasks \ {t} : Faithful(s)'
    BY <1>1, <1>4, FaithfulStays DEF Faithful
  <2>7. Faithful(t)'
    BY <1>4, <2>3 DEF Faithful, Working
  <2> QED
    BY <2>2, <2>4, <2>5, <2>6, <2>7 DEF UnitInv
<1>5. ASSUME NEW t \in Tasks, Start(t) PROVE UnitInv'
  <2>1. /\ pc[t] = "idle" /\ UNCHANGED <<disk, work, native, unit, answer, inTxn, place, outcome>>
        /\ pc' = [pc EXCEPT ![t] = IF Transactional(t) THEN "begin" ELSE "enter"]
        /\ (\E k : known' = [known EXCEPT ![t] = k]) /\ (\E k : visible' = [visible EXCEPT ![t] = k])
    BY <1>5 DEF Start, Goto, store, life
  <2>2. ~Inside(t)
    BY <1>1, <2>1 DEF Transactions, Inside, Working
  <2>3. place[t] = FirstPlace
    BY <2>1 DEF TextInv, Serving
  <2>4. /\ pc'[t] \in {"begin", "enter"} /\ (pc'[t] = "enter" => ~Transactional(t))
        /\ \A s \in Tasks \ {t} : /\ pc'[s] = pc[s] /\ place'[s] = place[s]
                                  /\ known'[s] = known[s] /\ visible'[s] = visible[s]
                                  /\ outcome'[s] = outcome[s]
    BY <1>2, <2>1
  <2> QED
    BY <1>4, <2>1, <2>2, <2>3, <2>4 DEF Working
<1>6. ASSUME NEW t \in Tasks, CancelWaiting(t) PROVE UnitInv'
  <2>1. /\ pc[t] \in {"begin", "enter"} /\ ~inTxn[t]
        /\ UNCHANGED <<disk, work, native, unit, answer, inTxn>>
        /\ pc' = [pc EXCEPT ![t] = "gone"] /\ place' = [place EXCEPT ![t] = FirstPlace]
        /\ known' = [known EXCEPT ![t] = NoRow] /\ visible' = [visible EXCEPT ![t] = {}]
        /\ outcome' = [outcome EXCEPT ![t] = "done"]
    BY <1>6 DEF CancelWaiting, Forget, Goto, store, life
  <2>2. ~Inside(t)
    BY <2>1 DEF Inside, Working
  <2>3. /\ pc'[t] = "gone"
        /\ \A s \in Tasks \ {t} : /\ pc'[s] = pc[s] /\ place'[s] = place[s]
                                  /\ known'[s] = known[s] /\ visible'[s] = visible[s]
                                  /\ outcome'[s] = outcome[s]
    BY <1>2, <2>1
  <2> QED
    BY <1>4, <2>1, <2>2, <2>3 DEF Working
(* A task takes the lock, or has it: nobody else is inside.                *)
<1>7. ASSUME NEW t \in Tasks, BeginTransaction(t) \/ EnterOperation(t) PROVE UnitInv'
  <2>1. /\ UNCHANGED <<disk, work, native, unit, answer, place, known, visible, outcome>>
        /\ \/ /\ pc[t] = "begin" /\ lock = Nobody /\ inTxn' = [inTxn EXCEPT ![t] = TRUE]
              /\ pc' = [pc EXCEPT ![t] = "enter"]
           \/ /\ pc[t] = "enter" /\ (inTxn[t] \/ lock = Nobody) /\ inTxn' = inTxn
              /\ pc' = [pc EXCEPT ![t] = "run"]
    BY <1>7 DEF BeginTransaction, EnterOperation, Goto, life
  <2>2. \A s \in Tasks \ {t} : ~Inside(s)
    <3>1. CASE lock = Nobody
      BY <1>2, <3>1, SqlAssumption
    <3>2. CASE inTxn[t]
      BY <1>2, <3>2 DEF Inside
    <3> QED
      BY <2>1, <3>1, <3>2
  <2>3. Progress(t)
    <3>1. CASE inTxn[t]
      <4>1. pc[t] = "enter"
        BY <1>1, <2>1, <3>1 DEF Transactions
      <4> QED
        BY <1>1, <3>1, <4>1 DEF Faithful
    <3>2. CASE ~inTxn[t]
      <4>1. pc[t] \in {"begin", "enter"}
        BY <2>1
      <4>2. \A s \in Tasks : ~Inside(s)
        BY <2>2, <3>2, <4>1 DEF Inside, Working
      <4>3. place[t] = FirstPlace
        BY <1>1, <3>2, <4>1 DEF Transactions
      <4> QED
        BY <1>1, <4>2, <4>3, FirstProgress
    <3> QED
      BY <3>1, <3>2
  <2>4. Progress(t)'
    BY <2>1, <2>3, FaithfulStays
  <2>5. /\ pc'[t] \in {"enter", "run"} /\ (pc'[t] = "enter" => inTxn'[t])
        /\ Transactional(t)' => inTxn'[t]
        /\ \A s \in Tasks \ {t} : pc'[s] = pc[s] /\ inTxn'[s] = inTxn[s]
    BY <1>1, <1>2, <1>3, <2>1 DEF Transactions
  <2>6. Inside(t)'
    BY <2>5 DEF Inside, Working
  <2>7. \A s \in Tasks \ {t} : pc'[s] \notin Working /\ ~inTxn'[s]
    BY <2>2, <2>5 DEF Inside
  <2>8. \A s \in Tasks : Faithful(s)'
    BY <2>4, <2>5, <2>7 DEF Faithful, Working
  <2>9. Transactions'
    BY <1>1, <1>3, <2>1, <2>5 DEF Transactions
  <2>10. Answers'
    BY <1>1, <2>1 DEF Answers
  <2> QED
    BY <2>6, <2>8, <2>9, <2>10 DEF UnitInv
(* The task inside goes on inside.                                         *)
<1>8. ASSUME NEW t \in Tasks, UNCHANGED <<disk, native, unit, inTxn>>, Inside(t), Inside(t)',
             \A s \in Tasks \ {t} : pc'[s] = pc[s] /\ place'[s] = place[s] /\ answer'[s] = answer[s],
             pc'[t] \in {"enter", "run", "commit", "rollback"},
             pc'[t] = "enter" => inTxn[t], pc'[t] \in {"enter", "run"} => pc[t] \in {"enter", "run"},
             DOMAIN answer' = Tasks,
             unit[t].kind # "search" => answer'[t] = NoAnswer,
             pc'[t] \in {"enter", "run"} => Progress(t)',
             pc'[t] = "commit" => Completed(t)',
             pc'[t] = "rollback" => Refused(t)'
      PROVE  UnitInv'
  <2>1. \A s \in Tasks \ {t} : ~Inside(s)
    BY <1>2, <1>8
  <2>2. \A s \in Tasks \ {t} : pc'[s] \notin Working /\ ~inTxn'[s]
    BY <1>8, <2>1 DEF Inside
  <2>3. \A s \in Tasks : Faithful(s)'
    BY <1>8, <2>2 DEF Faithful, Working
  <2>4. Transactions'
    BY <1>1, <1>3, <1>8 DEF Transactions
  <2>5. Answers'
    BY <1>1, <1>8 DEF Answers
  <2> QED
    BY <1>8, <2>3, <2>4, <2>5 DEF UnitInv
<1>9. ASSUME NEW t \in Tasks, Execute(t) PROVE UnitInv'
  <2>1. /\ pc[t] = "run" /\ Inside(t) /\ UNCHANGED <<disk, native, unit, inTxn>>
        /\ \E a : answer' = [answer EXCEPT ![t] = a]
        /\ Statement(t) # "select" => answer' = [answer EXCEPT ![t] = answer[t]]
    BY <1>9 DEF Execute, life, Inside, Working
  <2>2. /\ \A s \in Tasks \ {t} : place'[s] = place[s] /\ pc'[s] = pc[s]
        /\ pc'[t] \in {"commit", "enter", "run"}
        /\ pc'[t] = "enter" => ~LastOperation(t)
    BY <1>9, ExecutePlaces
  <2>3. /\ pc'[t] \in {"run", "enter"} => Progress(t)'
        /\ pc'[t] = "commit" => Completed(t)'
    BY <1>9, ExecuteProgress
  <2>4. /\ PlaceOf(t) /\ place[t].op \in Nat /\ place[t].stmt \in Nat /\ Serving
    BY <2>1 DEF TextInv, Serving
  <2>5. pc'[t] = "enter" => inTxn[t]
    <3>1. SUFFICES ASSUME pc'[t] = "enter" PROVE Transactional(t)
      BY <1>1, <2>1 DEF Transactions
    <3>2. Indexes(t) \/ Sweeps(t)
      BY <2>2, <2>4, <3>1, StatementAt
    <3> QED
      BY <3>2 DEF Indexes, Sweeps, Transactional
  <2>6. \A s \in Tasks \ {t} : answer'[s] = answer[s]
    BY <1>2, <2>1
  <2>7. unit[t].kind # "search" => answer'[t] = NoAnswer
    <3>1. SUFFICES ASSUME unit[t].kind # "search" PROVE Statement(t) # "select"
      BY <1>1, <2>1 DEF Answers
    <3>2. CASE Indexes(t) /\ place[t].op = 1
      <4>1. place[t].stmt \in 1 .. 5 /\ Statement(t) = IndexText[place[t].stmt]
        BY <2>4, <3>2, StatementAt
      <4> QED
        BY <4>1 DEF IndexText
    <3>3. CASE Sweeps(t) /\ place[t].op = 2
      <4>1. /\ place[t].stmt \in 1 .. 3
            /\ Statement(t) = <<"-text", "-fts", "-words">>[place[t].stmt]
        BY <2>4, <3>3, StatementAt
      <4> QED
        BY <4>1
    <3>4. CASE ~(Indexes(t) /\ place[t].op = 1) /\ ~(Sweeps(t) /\ place[t].op = 2)
      <4>1. unit[t].kind \in {"write", "cas", "prune", "sweep", "reindex"}
        BY <2>4, <3>1, SqlAssumption DEF Serving
      <4>2. /\ unit[t].kind = "write" =>
                 place[t].stmt \in 1 .. 2 /\ Statement(t) = <<"insert", "point">>[place[t].stmt]
            /\ unit[t].kind = "cas" =>
                 place[t].stmt \in 1 .. 2 /\ Statement(t) = <<"swap", "insert">>[place[t].stmt]
            /\ unit[t].kind = "reindex" =>
                 place[t].stmt \in 1 .. 2 /\ Statement(t) = <<"manifest", "artifact">>[place[t].stmt]
            /\ unit[t].kind = "prune" => Statement(t) = "drop"
            /\ unit[t].kind = "sweep" => Statement(t) = "references"
        BY <2>4, <3>4, StatementOf
      <4> QED
        BY <4>1, <4>2
    <3> QED
      BY <3>2, <3>3, <3>4
  <2>8. Inside(t)' /\ DOMAIN answer' = Tasks
    BY <1>2, <2>1, <2>2, <2>5 DEF Inside, Working
  <2> QED
    BY <1>8, <2>1, <2>2, <2>3, <2>5, <2>6, <2>7, <2>8
<1>10. ASSUME NEW t \in Tasks, Raise(t) \/ Break(t) \/ PendingRollback(t) PROVE UnitInv'
  <2>1. /\ pc[t] \in {"run", "commit"} /\ pc' = [pc EXCEPT ![t] = "rollback"]
        /\ UNCHANGED <<disk, work, native, unit, inTxn, place, known, visible, answer>>
        /\ \/ outcome' = [outcome EXCEPT ![t] = "failed"]
           \/ /\ pc[t] = "run" /\ (Collides(t) \/ Conflicts(t))
              /\ \E how : /\ outcome' = [outcome EXCEPT ![t] = how]
                          /\ \/ how = "collision" /\ Collides(t) /\ unit[t].kind = "write"
                             \/ how = "integrity" /\ Collides(t) /\ unit[t].kind = "cas"
                             \/ how = "conflict" /\ Conflicts(t)
    BY <1>10 DEF Raise, Break, PendingRollback, RaiseAs, Goto, store, life
  <2>2. pc'[t] = "rollback" /\ Inside(t) /\ Inside(t)'
    BY <1>2, <2>1 DEF Inside, Working
  <2>3. Occupied(t)' = Occupied(t) /\ AsExpected(t)' = AsExpected(t)
    BY <2>1, FaithfulStays
  <2>4. Refused(t)'
    <3>1. CASE outcome' = [outcome EXCEPT ![t] = "failed"]
      BY <1>2, <3>1 DEF Refused
    <3>2. CASE pc[t] = "run" /\ (Collides(t) \/ Conflicts(t)) /\ outcome' # [outcome EXCEPT ![t] = "failed"]
      <4>1. PICK how : /\ outcome' = [outcome EXCEPT ![t] = how]
                       /\ \/ how = "collision" /\ Collides(t) /\ unit[t].kind = "write"
                          \/ how = "integrity" /\ Collides(t) /\ unit[t].kind = "cas"
                          \/ how = "conflict" /\ Conflicts(t)
        BY <2>1, <3>2
      <4>2. Due(t, how)
        BY <3>2, <4>1, RefusalIsDue
      <4>3. outcome'[t] = how /\ unit'[t] = unit[t]
        BY <1>2, <2>1, <4>1
      <4> QED
        BY <2>3, <4>2, <4>3 DEF Refused, Due
    <3> QED
      BY <2>1, <3>1, <3>2
  <2>5. \A s \in Tasks \ {t} : pc'[s] = pc[s] /\ place'[s] = place[s] /\ answer'[s] = answer[s]
    BY <1>2, <2>1
  <2>6. DOMAIN answer' = Tasks /\ (unit[t].kind # "search" => answer'[t] = NoAnswer)
    BY <1>1, <2>1 DEF Answers
  <2> QED
    BY <1>8, <2>1, <2>2, <2>4, <2>5, <2>6
(* The task inside leaves, and nothing is left on the connection.          *)
<1>11. ASSUME UNCHANGED <<native, unit, answer>>, SameTables(disk, work)',
              \A s \in Tasks : pc'[s] \notin Working /\ ~inTxn'[s],
              \A s \in Tasks : pc'[s] \in {"begin", "enter"} =>
                    pc[s] = pc'[s] /\ inTxn'[s] = inTxn[s] /\ place'[s] = place[s]
       PROVE  UnitInv'
  <2>1. \A s \in Tasks : Faithful(s)'
    BY <1>11 DEF Faithful, Working
  <2>2. Transactions'
    BY <1>1, <1>3, <1>11 DEF Transactions, Working
  <2>3. Answers'
    BY <1>1, <1>11 DEF Answers
  <2> QED
    BY <1>11, <2>1, <2>2, <2>3 DEF UnitInv
<1>12. ASSUME NEW t \in Tasks, Commit(t) \/ Rollback(t) \/ CancelWorking(t) PROVE UnitInv'
  <2>1. /\ pc[t] \in Working /\ UNCHANGED <<native, unit, answer>>
        /\ work'.rows = disk'.rows /\ work'.current = disk'.current /\ work'.raw = disk'.raw
        /\ place' = [place EXCEPT ![t] = FirstPlace] /\ inTxn' = [inTxn EXCEPT ![t] = FALSE]
        /\ \E e \in Ended : pc' = [pc EXCEPT ![t] = e]
    <3>1. pc[t] \in Working
      BY <1>12 DEF Commit, Rollback, CancelWorking, Working
    <3>2. CASE Commit(t)
      BY <3>1, <3>2 DEF Commit, Release, Forget, Goto, life, Ended
    <3>3. CASE Rollback(t)
      BY <1>2, <3>1, <3>3 DEF Rollback, Release, Forget, Goto, life
    <3>4. CASE CancelWorking(t)
      BY <3>1, <3>4 DEF CancelWorking, Release, Forget, Goto, life, Ended
    <3> QED
      BY <1>12, <3>2, <3>3, <3>4
  <2>2. \A s \in Tasks \ {t} : ~Inside(s)
    BY <1>2, <2>1 DEF Inside
  <2>3. pc'[t] \in Ended /\ ~inTxn'[t]
    BY <1>2, <2>1
  <2>4. \A s \in Tasks \ {t} : pc'[s] = pc[s] /\ inTxn'[s] = inTxn[s] /\ place'[s] = place[s]
    BY <1>2, <2>1
  <2>5. \A s \in Tasks : pc'[s] \notin Working /\ ~inTxn'[s]
    BY <2>2, <2>3, <2>4 DEF Inside, Working, Ended
  <2>6. pc'[t] \notin {"begin", "enter"}
    BY <2>3 DEF Ended
  <2> QED
    BY <1>11, <2>1, <2>4, <2>5, <2>6 DEF SameTables
<1>13. ASSUME Initialize PROVE UnitInv'
  <2>1. up # "open" /\ UNCHANGED <<unit, pc, place, inTxn, answer, known, visible, outcome>>
    BY <1>13 DEF Initialize, Connect, FillWords, ExposeIndex, SetupFails, InitStep, task
  <2>2. \A s \in Tasks : pc[s] \notin Running /\ ~inTxn[s]
    <3>1. \A s \in Tasks : pc[s] \notin Running
      BY <2>1 DEF TextInv, Serving
    <3> QED
      BY <1>1, <3>1 DEF Transactions, Running
  <2>3. SameTables(disk, work)
    BY <1>1, <2>2 DEF Inside, Working, Running
  <2>4. /\ work'.rows = disk'.rows /\ work'.current = disk'.current /\ work'.raw = disk'.raw
    <3>1. CASE Connect
      BY <2>3, <3>1 DEF Connect, SameTables
    <3>2. CASE FillWords
      <4>1. Tabled(work) /\ \E f : work' = [work EXCEPT !.words = f]
        BY <3>2 DEF FillWords, TextInv
      <4> QED
        BY <2>3, <3>2, <4>1 DEF FillWords, Tabled, SameTables
    <3>3. CASE ExposeIndex \/ SetupFails
      BY <3>3 DEF ExposeIndex, SetupFails
    <3> QED
      BY <1>13, <3>1, <3>2, <3>3 DEF Initialize
  <2>5. \A s \in Tasks : Faithful(s)'
    BY <2>1, <2>2 DEF Faithful, Running
  <2>6. Transactions' /\ Answers'
    BY <1>1, <2>1, <2>2 DEF Transactions, Answers, Running
  <2> QED
    BY <2>4, <2>5, <2>6 DEF UnitInv, SameTables
<1>14. ASSUME Die PROVE UnitInv'
  <2>1. /\ work' = disk /\ disk' = disk /\ UNCHANGED <<unit, answer>>
        /\ inTxn' = [s \in Tasks |-> FALSE]
        /\ \A s \in Tasks : pc'[s] = IF pc[s] \in Running THEN "gone" ELSE pc[s]
    BY <1>14 DEF Die
  <2>2. \A s \in Tasks : pc'[s] \notin Running /\ ~inTxn'[s]
    BY <2>1 DEF Running
  <2>3. \A s \in Tasks : Faithful(s)'
    BY <2>2 DEF Faithful, Running
  <2>4. Transactions' /\ Answers'
    BY <1>1, <2>1, <2>2 DEF Transactions, Answers, Running
  <2> QED
    BY <2>1, <2>3, <2>4 DEF UnitInv, SameTables
<1>15. ASSUME UNCHANGED vars PROVE UnitInv'
  <2>1. UNCHANGED <<disk, work, native, unit, pc, inTxn, place, known, visible, answer, outcome>>
    BY <1>15 DEF vars, store, task, life
  <2>2. \A s \in Tasks : Faithful(s)'
    BY <1>1, <2>1, FaithfulStays DEF Faithful
  <2>3. Transactions' /\ Answers' /\ ((\A s \in Tasks : ~Inside(s))' => SameTables(disk, work)')
    BY <1>1, <1>3, <2>1 DEF Transactions, Answers, Inside, SameTables
  <2> QED
    BY <2>2, <2>3 DEF UnitInv
<1> QED
  BY <1>5, <1>6, <1>7, <1>9, <1>10, <1>12, <1>13, <1>14, <1>15 DEF Next, Step

(* A unit that commits does what the abstract unit does in one step.       *)
LEMMA ChangeMaps ==
    ASSUME NEW t \in Tasks, Completed(t), TextInv, disk' = work, unit[t].kind # "search"
    PROVE  A!Change(t)
<1>1. unit[t].kind \in {"write", "cas", "prune", "sweep", "reindex"}
  BY SqlAssumption DEF TextInv, Serving
<1>2. CASE unit[t].kind \in {"write", "cas"}
  <2>1. Put(t) /\ A!Made(t) = NewRow(t)
    BY <1>2 DEF Completed, A!Made, NewRow
  <2>2. NewRow(t).path = unit[t].path
    BY DEF NewRow
  <2>3. A!MayPut(t)
    BY <2>1, <2>2 DEF Put, MayPut, A!MayPut, Occupied, AsExpected, A!Occupied, A!AsExpected, Taken, A!Taken
  <2>4. PutText(t) = IF native THEN disk.raw \cup {unit[t].hash} ELSE disk.raw
    BY <1>2 DEF PutText, Indexes, TextOf
  <2>5. A!Put(t)
    BY <1>2, <2>1, <2>3, <2>4 DEF A!Put, Put, PutRows, PutCurrent
  <2> QED
    BY <2>5 DEF A!Change
<1>3. CASE unit[t].kind = "prune"
  <2>1. A!Prune(t)
    BY <1>3 DEF Completed, Pruned, A!Prune
  <2> QED
    BY <2>1 DEF A!Change
<1>4. CASE unit[t].kind = "sweep"
  <2>1. A!Sweep(t)
    BY <1>4 DEF Completed, Swept, A!Sweep, Referenced
  <2> QED
    BY <2>1 DEF A!Change
<1>5. CASE unit[t].kind = "reindex"
  <2>1. A!Reindex(t)
    BY <1>5 DEF Completed, Reindexed, A!Reindex, IsKnown
  <2> QED
    BY <2>1 DEF A!Change
<1> QED
  BY <1>1, <1>2, <1>3, <1>4, <1>5

(* How the abstract status and answers follow from a step of one task.     *)
LEMMA StatusMaps ==
    ASSUME NEW t \in Tasks, pc \in [Tasks -> Running \cup Ended \cup {"idle"}],
           NEW e \in Running \cup Ended \cup {"idle"}, pc' = [pc EXCEPT ![t] = e]
    PROVE  /\ [s \in Tasks |-> StatusOf(s)]'
                = [[s \in Tasks |-> StatusOf(s)] EXCEPT ![t] = IF e \in Running THEN "asked" ELSE e]
           /\ answer' = answer /\ ((e = "done" \/ pc[t] = "done") => answer[t] = NoAnswer) =>
                [s \in Tasks |-> IF pc[s] = "done" THEN answer[s] ELSE NoAnswer]'
                  = [s \in Tasks |-> IF pc[s] = "done" THEN answer[s] ELSE NoAnswer]
<1>1. \A s \in Tasks : pc'[s] = IF s = t THEN e ELSE pc[s]
  OBVIOUS
<1>2. \A s \in Tasks : StatusOf(s)' = IF s = t THEN (IF e \in Running THEN "asked" ELSE e)
                                      ELSE StatusOf(s)
  BY <1>1 DEF StatusOf, Running
<1>3. [s \in Tasks |-> StatusOf(s)]'
        = [[s \in Tasks |-> StatusOf(s)] EXCEPT ![t] = IF e \in Running THEN "asked" ELSE e]
  BY <1>2
<1>4. ASSUME answer' = answer, (e = "done" \/ pc[t] = "done") => answer[t] = NoAnswer
      PROVE  [s \in Tasks |-> IF pc[s] = "done" THEN answer[s] ELSE NoAnswer]'
               = [s \in Tasks |-> IF pc[s] = "done" THEN answer[s] ELSE NoAnswer]
  <2>1. NoAnswer' = NoAnswer
    BY DEF NoAnswer
  <2>2. \A s \in Tasks : (IF pc'[s] = "done" THEN answer'[s] ELSE NoAnswer)
                         = (IF pc[s] = "done" THEN answer[s] ELSE NoAnswer)
    BY <1>1, <1>4
  <2> QED
    BY <2>1, <2>2
<1> QED
  BY <1>3, <1>4

(* The tables it opens are those of the abstract store.                    *)
LEMMA InitMaps == Init => A!Init
<1> SUFFICES ASSUME Init PROVE A!Init
  OBVIOUS
<1>1. unit \in [Tasks -> Units]
  BY SqlAssumption DEF Init
<1>2. [t \in Tasks |-> StatusOf(t)] = [t \in Tasks |-> "idle"]
  BY DEF Init, StatusOf, Running
<1>3. [t \in Tasks |-> IF pc[t] = "done" THEN answer[t] ELSE NoAnswer] = [t \in Tasks |-> A!NoAnswer]
  BY DEF Init, A!NoAnswer, NoAnswer
<1> QED
  BY <1>1, <1>2, <1>3 DEF A!Init, Init

(* Every step is a step of the abstract store, or none.                    *)
LEMMA StepMaps == IInv /\ TextInv /\ UnitInv /\ [Next]_vars => [A!Next]_(A!avars)
<1> SUFFICES ASSUME IInv, TextInv, UnitInv, [Next]_vars PROVE [A!Next]_(A!avars)
  OBVIOUS
<1> DEFINE status == [s \in Tasks |-> StatusOf(s)]
           answers == [s \in Tasks |-> IF pc[s] = "done" THEN answer[s] ELSE NoAnswer]
<1>1. /\ pc \in [Tasks -> Running \cup Ended \cup {"idle"}] /\ outcome \in [Tasks -> Ended]
      /\ \A s \in Tasks : unit[s].kind # "search" => answer[s] = NoAnswer
      /\ \A s \in Tasks : Faithful(s)
      /\ \A s \in Tasks : pc[s] \in Running => up = "open"
      /\ Running \cap Ended = {} /\ "idle" \notin Running
  BY Places DEF IInv, TaskTypes, UnitInv, Answers, TextInv, Serving
<1>2. ASSUME UNCHANGED <<disk, native, unit, known, visible, answer>>, up' = up,
             NEW t \in Tasks, pc[t] \in Running, NEW e \in Running, pc' = [pc EXCEPT ![t] = e]
      PROVE  UNCHANGED A!avars
  <2>1. status' = status /\ answers' = answers
    <3>1. pc[t] # "done" /\ e # "done"
      BY <1>1, <1>2 DEF Ended
    <3>2. answers' = answers /\ status' = [status EXCEPT ![t] = "asked"]
      BY <1>1, <1>2, <3>1, StatusMaps
    <3>3. status[t] = "asked" /\ status = [s \in Tasks |-> status[s]]
      BY <1>2 DEF StatusOf
    <3> QED
      BY <3>2, <3>3
  <2> HIDE DEF status, answers
  <2> QED
    BY <1>2, <2>1 DEF A!avars, A!tables, status, answers
<1>3. ASSUME NEW t \in Tasks, Start(t) PROVE A!Next
  <2>1. /\ pc[t] = "idle" /\ answer' = answer
        /\ \E e \in {"begin", "enter"} : pc' = [pc EXCEPT ![t] = e]
    BY <1>3 DEF Start, Goto
  <2>2. status' = [status EXCEPT ![t] = "asked"] /\ answers' = answers
    <3>1. PICK e \in {"begin", "enter"} : pc' = [pc EXCEPT ![t] = e]
      BY <2>1
    <3>2. e \in Running /\ e # "done" /\ pc[t] # "done"
      BY <2>1, <3>1 DEF Running
    <3> QED
      BY <1>1, <2>1, <3>1, <3>2, StatusMaps
  <2>3. status[t] = "idle"
    BY <1>1, <2>1 DEF StatusOf
  <2>4. A!KnownNow(unit[t].path) = KnownNow(unit[t].path)
    BY DEF A!KnownNow, KnownNow, A!IsCurrent, IsCurrent
  <2>5. {v.hash : v \in {w \in disk.rows : A!IsCurrent(w) /\ w.ready}}
          = {v.hash : v \in {w \in disk.rows : IsCurrent(disk, w) /\ w.ready}}
    BY DEF A!IsCurrent, IsCurrent
  <2> HIDE DEF status, answers
  <2>6. A!Start(t)
    BY <1>3, <2>2, <2>3, <2>4, <2>5 DEF Start, A!Start, A!tables, store, life, status, answers
  <2> QED
    BY <2>6 DEF A!Next
<1>4. ASSUME NEW t \in Tasks, pc[t] \in Running, NEW e \in Ended, pc' = [pc EXCEPT ![t] = e],
             UNCHANGED <<up, native, unit>>,
             known' = [known EXCEPT ![t] = NoRow], visible' = [visible EXCEPT ![t] = {}]
      PROVE  A!End(t, e)
  <2>1. status' = [status EXCEPT ![t] = e] /\ status[t] = "asked"
    BY <1>1, <1>4, StatusMaps DEF StatusOf
  <2> HIDE DEF status
  <2> QED
    BY <1>4, <2>1 DEF A!End, status
<1>5. ASSUME NEW t \in Tasks, pc[t] \in Running, NEW e \in Ended, pc' = [pc EXCEPT ![t] = e],
             answer' = answer, e = "done" => answer[t] = NoAnswer
      PROVE  answers' = answers
  <2>1. pc[t] # "done"
    BY <1>1, <1>5 DEF Ended
  <2> QED
    BY <1>1, <1>5, <2>1, StatusMaps
<1>6. ASSUME NEW t \in Tasks, BeginTransaction(t) \/ EnterOperation(t) PROVE UNCHANGED A!avars
  <2>1. /\ pc[t] \in Running /\ \E e \in Running : pc' = [pc EXCEPT ![t] = e]
        /\ UNCHANGED <<disk, native, unit, known, visible, answer, up>>
    BY <1>6 DEF BeginTransaction, EnterOperation, Goto, life, Running
  <2> QED
    BY <1>2, <2>1
<1>7. ASSUME NEW t \in Tasks, Execute(t) PROVE UNCHANGED A!avars
  <2>1. /\ pc[t] = "run" /\ UNCHANGED <<disk, native, unit, known, visible, up>>
        /\ \E a : answer' = [answer EXCEPT ![t] = a]
        /\ \E e : pc' = [pc EXCEPT ![t] = e]
    BY <1>7 DEF Execute, Goto, life
  <2>2. pc'[t] \in {"commit", "enter", "run"}
    BY <1>7, ExecutePlaces
  <2>3. \A s \in Tasks : s # t => pc'[s] = pc[s] /\ answer'[s] = answer[s]
    BY <2>1 DEF UnitInv, Answers
  <2>4. NoAnswer' = NoAnswer
    BY DEF NoAnswer
  <2>5. \A s \in Tasks : /\ StatusOf(s)' = StatusOf(s)
                         /\ (IF pc'[s] = "done" THEN answer'[s] ELSE NoAnswer)
                            = (IF pc[s] = "done" THEN answer[s] ELSE NoAnswer)
    BY <2>1, <2>2, <2>3 DEF StatusOf, Running
  <2>6. status' = status /\ answers' = answers
    BY <2>4, <2>5
  <2> HIDE DEF status, answers
  <2> QED
    BY <2>1, <2>6 DEF A!avars, A!tables, status, answers
<1>8. ASSUME NEW t \in Tasks, Raise(t) \/ Break(t) \/ PendingRollback(t) PROVE UNCHANGED A!avars
  <2>1. /\ pc[t] \in Running /\ \E e \in Running : pc' = [pc EXCEPT ![t] = e]
        /\ UNCHANGED <<disk, native, unit, known, visible, answer, up>>
    BY <1>8 DEF Raise, Break, PendingRollback, RaiseAs, Goto, store, life, Running
  <2> QED
    BY <1>2, <2>1
<1>9. ASSUME NEW t \in Tasks, Commit(t) PROVE A!Next
  <2>1. /\ pc[t] = "commit" /\ pc[t] \in Running /\ disk' = work /\ pc' = [pc EXCEPT ![t] = "done"]
        /\ UNCHANGED <<up, native, unit, answer>> /\ "done" \in Ended
        /\ known' = [known EXCEPT ![t] = NoRow] /\ visible' = [visible EXCEPT ![t] = {}]
    BY <1>9 DEF Commit, Release, Forget, Goto, life, Running, Ended
  <2>2. Completed(t)
    BY <1>1, <2>1 DEF Faithful
  <2>3. A!End(t, "done")
    BY <1>4, <2>1
  <2>4. CASE unit[t].kind # "search"
    <3>1. A!Change(t)
      BY <2>1, <2>2, <2>4, ChangeMaps
    <3>2. answers' = answers
      BY <1>1, <1>5, <2>1, <2>4
    <3> HIDE DEF answers
    <3>3. A!Perform(t)
      BY <2>3, <3>1, <3>2 DEF A!Perform, answers
    <3> QED
      BY <3>3 DEF A!Next
  <2>5. CASE unit[t].kind = "search"
    <3>1. Answered(t)
      BY <2>2, <2>5 DEF Completed
    <3>2. answer[t] = A!Answer(t)
      BY <3>1 DEF Answered, A!Answer
    <3>3. answers' = [answers EXCEPT ![t] = A!Answer(t)]
      <4>1. NoAnswer' = NoAnswer
        BY DEF NoAnswer
      <4>2. \A s \in Tasks : (IF pc'[s] = "done" THEN answer'[s] ELSE NoAnswer)
                             = IF s = t THEN A!Answer(t)
                               ELSE (IF pc[s] = "done" THEN answer[s] ELSE NoAnswer)
        BY <1>1, <2>1, <3>2
      <4> QED
        BY <4>1, <4>2
    <3>4. disk'.rows = disk.rows /\ disk'.current = disk.current /\ disk'.raw = disk.raw
      BY <2>1, <3>1 DEF Answered, SameTables
    <3> HIDE DEF answers
    <3>5. A!Search(t)
      BY <2>3, <2>5, <3>3, <3>4 DEF A!Search, A!tables, answers
    <3> QED
      BY <3>5 DEF A!Next
  <2> QED
    BY <2>4, <2>5
<1>10. ASSUME NEW t \in Tasks, Rollback(t) PROVE A!Next
  <2>1. /\ pc[t] = "rollback" /\ pc[t] \in Running /\ pc' = [pc EXCEPT ![t] = outcome[t]]
        /\ UNCHANGED <<disk, up, native, unit, answer>>
        /\ known' = [known EXCEPT ![t] = NoRow] /\ visible' = [visible EXCEPT ![t] = {}]
    BY <1>10 DEF Rollback, Release, Forget, Goto, life, Running
  <2>2. Refused(t) /\ outcome[t] \in Ended
    BY <1>1, <2>1 DEF Faithful
  <2>3. A!End(t, outcome[t])
    BY <1>4, <2>1, <2>2
  <2>4. answers' = answers
    BY <1>5, <2>1, <2>2 DEF Refused, Due
  <2> HIDE DEF answers
  <2>5. CASE outcome[t] = "failed"
    <3>1. A!Fail(t)
      BY <2>1, <2>3, <2>4, <2>5 DEF A!Fail, A!tables, answers
    <3> QED
      BY <3>1 DEF A!Next
  <2>6. CASE outcome[t] # "failed"
    <3>1. Due(t, outcome[t])
      BY <2>2, <2>6 DEF Refused
    <3>2. A!Made(t) = NewRow(t) /\ NewRow(t).path = unit[t].path
      BY DEF A!Made, NewRow
    <3>3. /\ A!Occupied(t) <=> Occupied(t)
          /\ A!AsExpected(t) <=> AsExpected(t)
      BY <3>2 DEF Occupied, A!Occupied, AsExpected, A!AsExpected, Taken, A!Taken
    <3>4. A!Refuse(t)
      BY <2>1, <2>3, <2>4, <3>1, <3>3 DEF A!Refuse, A!tables, answers, Due
    <3> QED
      BY <3>4 DEF A!Next
  <2> QED
    BY <2>5, <2>6
<1>11. ASSUME NEW t \in Tasks, CancelWaiting(t) \/ CancelWorking(t) PROVE A!Next
  <2>1. /\ pc[t] \in Running /\ pc' = [pc EXCEPT ![t] = "gone"]
        /\ UNCHANGED <<up, native, unit, answer>> /\ "gone" \in Ended
        /\ known' = [known EXCEPT ![t] = NoRow] /\ visible' = [visible EXCEPT ![t] = {}]
        /\ disk' = disk \/ (disk' = work /\ pc[t] = "commit")
    BY <1>11 DEF CancelWaiting, CancelWorking, Release, Forget, Goto, life, store, Running, Ended
  <2>2. A!End(t, "gone")
    BY <1>4, <2>1
  <2>3. answers' = answers
    BY <1>5, <2>1
  <2>4. A!Change(t) \/ UNCHANGED <<disk.rows, disk.current, disk.raw>>
    <3>1. CASE disk' = disk
      BY <3>1
    <3>2. CASE disk' = work /\ pc[t] = "commit"
      <4>1. Completed(t)
        BY <1>1, <3>2 DEF Faithful
      <4>2. CASE unit[t].kind # "search"
        BY <3>2, <4>1, <4>2, ChangeMaps
      <4>3. CASE unit[t].kind = "search"
        BY <3>2, <4>1, <4>3 DEF Completed, Answered, SameTables
      <4> QED
        BY <4>2, <4>3
    <3> QED
      BY <2>1, <3>1, <3>2
  <2> HIDE DEF answers
  <2>5. A!Cancel(t)
    BY <2>2, <2>3, <2>4 DEF A!Cancel, A!tables, answers
  <2> QED
    BY <2>5 DEF A!Next
<1>12. ASSUME Initialize PROVE A!Next \/ UNCHANGED A!avars
  <2>1. up # "open" /\ UNCHANGED <<unit, pc, answer, known, visible>>
    BY <1>12 DEF Initialize, Connect, FillWords, ExposeIndex, SetupFails, InitStep, task
  <2>2. status' = status /\ answers' = answers
    BY <2>1 DEF StatusOf, NoAnswer
  <2> HIDE DEF status, answers
  <2>3. CASE Connect \/ FillWords
    <3>1. UNCHANGED <<disk, native>> /\ up' # "open"
      BY <2>3 DEF Connect, FillWords, InitStep
    <3> QED
      BY <2>1, <2>2, <3>1 DEF A!avars, A!tables, status, answers
  <2>4. CASE ExposeIndex \/ SetupFails
    <3>1. /\ disk'.rows = disk.rows /\ disk'.current = disk.current /\ disk'.raw = disk.raw
      <4>1. \A s \in Tasks : ~Inside(s)
        BY <1>1, <2>1 DEF UnitInv, Transactions, Inside, Working, Running
      <4> QED
        BY <2>4, <4>1 DEF UnitInv, SameTables, ExposeIndex, SetupFails
    <3>2. native' \in BOOLEAN /\ up' = "open"
      <4>1. native' = native \/ native' = TRUE
        BY <2>4 DEF ExposeIndex, SetupFails
      <4>2. native \in BOOLEAN
        BY DEF TextInv, Serving
      <4>3. native' \in BOOLEAN
        BY <4>1, <4>2
      <4>4. up' = "open"
        BY <2>4 DEF ExposeIndex, SetupFails, InitStep
      <4> QED
        BY <4>3, <4>4
    <3>3. A!Open
      BY <2>1, <2>2, <3>1, <3>2 DEF A!Open, A!tables, status, answers
    <3> QED
      BY <3>3 DEF A!Next
  <2> QED
    BY <1>12, <2>3, <2>4 DEF Initialize
<1>13. ASSUME Die PROVE A!Next
  <2>1. /\ disk' = disk /\ up' = "down" /\ native' = FALSE /\ UNCHANGED <<unit, answer>>
        /\ pc' = [s \in Tasks |-> IF pc[s] \in Running THEN "gone" ELSE pc[s]]
        /\ known' = [s \in Tasks |-> NoRow] /\ visible' = [s \in Tasks |-> {}]
    BY <1>13 DEF Die
  <2>2. \A s \in Tasks : StatusOf(s)' = IF StatusOf(s) = "asked" THEN "gone" ELSE StatusOf(s)
    <3>1. \A s \in Tasks : pc[s] # "asked"
      BY <1>1 DEF Running, Ended
    <3> QED
      BY <2>1, <3>1 DEF StatusOf, Running
  <2>3. status' = [s \in Tasks |-> IF status[s] = "asked" THEN "gone" ELSE status[s]]
    BY <2>2
  <2>4. \A s \in Tasks : pc'[s] = "done" <=> pc[s] = "done"
    BY <2>1 DEF Running
  <2>5. answers' = answers
    BY <2>1, <2>4 DEF NoAnswer
  <2> HIDE DEF status, answers
  <2>6. A!Die
    BY <2>1, <2>3, <2>5 DEF A!Die, A!tables, status, answers
  <2> QED
    BY <2>6 DEF A!Next
<1>14. ASSUME UNCHANGED vars PROVE UNCHANGED A!avars
  <2>1. UNCHANGED <<disk, up, native, unit, pc, answer, known, visible>>
    BY <1>14 DEF vars, store, task, life
  <2>2. status' = status /\ answers' = answers
    BY <2>1 DEF StatusOf, NoAnswer
  <2> HIDE DEF status, answers
  <2> QED
    BY <2>1, <2>2 DEF A!avars, A!tables, status, answers
<1> QED
  BY <1>3, <1>6, <1>7, <1>8, <1>9, <1>10, <1>11, <1>12, <1>13, <1>14 DEF Next, Step

(* Where the prefilter asks for nothing a match may lack, the lock, the    *)
(* transactions, the rollbacks and the two indexes together make every unit*)
(* of work happen in one step or not at all, and every search answer from  *)
(* the committed text (sql_metadata.py:163-183, 671-695,                   *)
(* sqlite_metadata.py).                                                    *)
THEOREM UnitsAreAtomic == LiteralsAreMandatory => (Spec => ImplementsAtomicStore)
<1> SUFFICES ASSUME LiteralsAreMandatory PROVE Spec => ImplementsAtomicStore
  OBVIOUS
<1>1. Spec => [](IInv /\ TextInv)
  BY TextInit, TextStep, SqlInvariance, PTL DEF Spec
<1>2. IInv /\ TextInv /\ UnitInv /\ [Next]_vars => UnitInv'
  BY UnitStep
<1>3. Spec => [](IInv /\ TextInv /\ UnitInv)
  BY UnitInit, <1>1, <1>2, PTL DEF Spec
<1> QED
  BY InitMaps, StepMaps, <1>3, PTL DEF Spec, ImplementsAtomicStore, A!Spec
=============================================================================
