----------------------------- MODULE Execution -----------------------------
(* One call of VFS.execute: its checks, the sandboxed code with the two     *)
(* surfaces it has (the injected verbs of FsOperations and the mounted      *)
(* SessionFsPort), the budget and the size caps they share, the timeout,    *)
(* and how the provider's failure becomes an ExecutionResult. Other clients *)
(* of the namespace write and delete meanwhile. An operation of the VFS     *)
(* itself is one step here; Vfs opens it.                                   *)
(*                                                                          *)
(* The content of a file is the set of the pieces written into it, its      *)
(* length their number. The interpreters are external: the code may make    *)
(* any calls, catch any error, raise any it has seen or one of its own.     *)
EXTENDS Naturals, Sequences, FiniteSets

CONSTANTS
    Files,
    Cwd,            \* the directory it is executed in
    Pieces,
    Data,           \* the contents the code may write
    Others,         \* the contents other clients may write
    Providers,      \* the provider names asked for
    Grants,         \* the permissions the principal may have, from Files and Cwd
    Starts,         \* the files there may be at the start
    Calls,          \* the calls that may be in flight
    MaxOperations, MaxReadBytes, MaxWriteBytes, \* ResourceLimits
    MaxNumber       \* bound on the versions of a file

Verbs == [injected |-> {"cat", "write"},
          mount    |-> {"read", "write", "append", "openw", "opena", "delete"}]
Surfaces == DOMAIN Verbs
Permissions == {"read", "write", "delete", "execute"}
ErrorKinds == {"permission", "missing", "conflict", "operations", "oversize"}
File == [number : Nat, content : SUBSET Pieces, dead : BOOLEAN]
Error == [kind : ErrorKinds, path : Files]

ASSUME ExecutionAssumption ==
    /\ Cwd \notin Files
    /\ Providers \subseteq {"monty", "just-bash", "unknown"}
    /\ Grants \subseteq [Files \cup {Cwd} -> SUBSET Permissions]
    /\ Starts \subseteq [Files -> File]
    /\ Data \cup Others \subseteq SUBSET Pieces
    /\ {MaxOperations, MaxReadBytes, MaxWriteBytes, MaxNumber} \subseteq Nat

(* A tombstone has no content, nor has a path that was never written.       *)
ASSUME StartsAssumption ==
    \A start \in Starts : \A f \in Files :
        start[f].number = 0 \/ start[f].dead => start[f].content = {}

VARIABLES
    provider, may,
    files,      \* the current version of each file; number 0 for none
    phase,      \* how far the execution is
    call,       \* the calls in flight
    spent,      \* the operations charged on each surface
    sink,       \* the first VFS error of the execution (Monty)
    raised,     \* the VFS errors the code has seen
    result,     \* the error_type of the result, or "success"
    cause,      \* history: what the code ended with
    effects,    \* history: the versions the code made, and whether it had ended
    returned    \* history: how long the contents it was given were

world == <<provider, may>>
outcome == <<result, cause>>
histories == <<effects, returned>>
vars == <<world, files, phase, call, spent, sink, raised, outcome, histories>>

----------------------------------------------------------------------------
NoCall == [at |-> "idle"]
InFlight(c) == call[c].at # "idle"

OnMount(c) == InFlight(c) /\ call[c].surface = "mount"
Holds(p, f) == p \in may[f]
Length(content) == Cardinality(content)
Ended == phase \in {"ended", "audited"}

Err(k, f) == [kind |-> k, path |-> f]
Unfinished == "none"

Init ==
    /\ provider \in Providers
    /\ may \in Grants
    /\ files \in Starts
    /\ phase = "asked"
    /\ call = [c \in Calls |-> NoCall]
    /\ spent = [s \in Surfaces |-> 0]
    /\ sink = <<>>
    /\ raised = {}
    /\ result = Unfinished
    /\ cause = Unfinished
    /\ effects = {}
    /\ returned = {}

----------------------------------------------------------------------------
(* Tier 1: what fails here is raised to the caller; nothing is dispatched.  *)

Advance(from, ok, to) ==
    /\ phase = from
    /\ phase' = IF ok THEN to ELSE "raised"
    /\ UNCHANGED <<world, files, call, spent, sink, raised, outcome, histories>>

CheckExecute == Advance("asked", Holds("execute", Cwd), "resolving")
ResolveProvider == Advance("resolving", provider # "unknown", "entering")
EnterCwd == Advance("entering", Holds("read", Cwd), "running")

----------------------------------------------------------------------------
(* The calls of the code. The counter is charged first, on both surfaces.   *)

(* Mutant: each surface has a counter of its own.                           *)
SpentHere(surface) == spent[surface]

Spent(surface) == spent["injected"] + spent["mount"]

Affordable(surface) == Spent(surface) < MaxOperations

Charge(surface) == spent' = [spent EXCEPT ![surface] = @ + 1]

(* The first VFS error of the execution is kept, whoever catches it.        *)
Capture(e) == sink' = IF provider = "monty" /\ sink = <<>> THEN <<e>> ELSE sink

Raise(c, k) ==
    /\ Capture(Err(k, call[c].path))
    /\ raised' = raised \cup {Err(k, call[c].path)}
    /\ call' = [call EXCEPT ![c] = NoCall]

Return(c) ==
    /\ call' = [call EXCEPT ![c] = NoCall]
    /\ UNCHANGED <<sink, raised>>

Goto(c, step) ==
    /\ call' = [call EXCEPT ![c] = step]
    /\ UNCHANGED <<sink, raised>>

(* An injected verb returns a structured error where the mount raises.      *)
TooLong(c) == IF call[c].surface = "injected" THEN Return(c) ELSE Raise(c, "oversize")

FirstStep(verb) ==
    CASE verb \in {"cat", "read", "append"} -> "stat"
      [] verb \in {"write", "openw"} -> "write"
      [] verb = "opena" -> "exists"
      [] verb = "delete" -> "delete"

(* A mount call blocks the code until it is answered.                       *)
Begin(c, surface, verb, f, data) ==
    /\ phase = "running" /\ ~InFlight(c)
    /\ \A d \in Calls : ~OnMount(d)
    /\ verb \in Verbs[surface]
    /\ IF verb \in {"write", "append"} THEN data \in Data ELSE data = {}
    /\ call' = [call EXCEPT ![c] =
           [at |-> "charge", surface |-> surface, verb |-> verb, path |-> f,
            data |-> data, number |-> 0, next |-> FirstStep(verb)]]
    /\ UNCHANGED <<world, files, phase, spent, sink, raised, outcome, histories>>

(* check_and_increment, and for a write the cap, before the first await.    *)
Account(c) ==
    LET me == call[c]
    IN  /\ me.at = "charge"
        /\ IF ~Affordable(me.surface)
           THEN Raise(c, "operations") /\ UNCHANGED spent
           ELSE /\ Charge(me.surface)
                /\ IF me.next = "write" /\ Length(me.data) > MaxWriteBytes
                   THEN TooLong(c) ELSE Goto(c, [me EXCEPT !.at = me.next])
        /\ UNCHANGED <<world, files, phase, outcome, histories>>

(* Mutant: whatever read raises is taken for an empty file.                 *)
TakenAnyway(k) == TRUE

(* The mount's append is a read and a write, each charged; a file that is   *)
(* not there is taken for an empty one, and the error stays in the sink.    *)
TakenForEmpty(k) == k = "missing"

WriteNext(c, old) ==
    [call[c] EXCEPT !.at = "charge", !.next = "write", !.data = old \cup @,
                    !.number = files[call[c].path].number]

ReadFails(c, k) ==
    IF call[c].verb = "append" /\ TakenForEmpty(k)
    THEN /\ Capture(Err(k, call[c].path))
         /\ call' = [call EXCEPT ![c] = WriteNext(c, {})]
         /\ UNCHANGED raised
    ELSE Raise(c, k)

(* Before a read, stat, which finds deleted files too, ...                  *)
Stat(c) ==
    LET f == call[c].path
    IN  /\ call[c].at = "stat"
        /\ IF ~Holds("read", f) THEN ReadFails(c, "permission")
           ELSE IF files[f].number = 0 THEN ReadFails(c, "missing")
           ELSE Goto(c, [call[c] EXCEPT !.at = "size"])
        /\ UNCHANGED <<world, files, phase, spent, outcome, histories>>

(* ... and the size that is stored with the version that is current then.   *)
AskSize(c) ==
    LET file == files[call[c].path]
    IN  /\ call[c].at = "size"
        /\ IF Length(file.content) > MaxReadBytes
           THEN IF call[c].surface = "injected" THEN Return(c) ELSE ReadFails(c, "oversize")
           ELSE Goto(c, [call[c] EXCEPT !.at = "read", !.number = file.number])
        /\ UNCHANGED <<world, files, phase, spent, outcome, histories>>

(* Mutant: the size check before the read is relied on.                     *)
NothingWithheld(c) == FALSE

(* cat looks at the length again; the mount's read returns what there is.   *)
Withheld(c) == call[c].verb = "cat" /\ Length(files[call[c].path].content) > MaxReadBytes

Fetch(c) ==
    LET me   == call[c]
        file == files[me.path]
    IN  /\ me.at = "read"
        /\ IF file.dead
           THEN ReadFails(c, "missing") /\ UNCHANGED returned
           ELSE /\ IF me.verb = "append" THEN Goto(c, WriteNext(c, file.content))
                   ELSE Return(c)
                /\ returned' = IF Withheld(c) THEN returned
                               ELSE returned \cup {[verb   |-> me.verb,
                                                    over   |-> Length(file.content) > MaxReadBytes,
                                                    raced  |-> file.number # me.number]}
        /\ UNCHANGED <<world, files, phase, spent, outcome, effects>>

Change(f, content, dead) ==
    /\ files[f].number < MaxNumber
    /\ files' = [files EXCEPT ![f] = [number |-> @.number + 1, content |-> content, dead |-> dead]]

Effect(f) == effects' = effects \cup {[path |-> f, number |-> files[f].number + 1, late |-> Ended]}

Refused(c, k) == Raise(c, k) /\ UNCHANGED <<files, effects>>

Commit(c, f, content, dead) == Return(c) /\ Change(f, content, dead) /\ Effect(f)

(* A write is refused as well when others took its number five times, a     *)
(* deletion when they took it once (Vfs has those others; here it may just  *)
(* happen).                                                                 *)
Put(c) ==
    LET f == call[c].path
    IN  /\ call[c].at = "write"
        /\ \/ ~Holds("write", f) /\ Refused(c, "permission")
           \/ Holds("write", f) /\ (Refused(c, "conflict") \/ Commit(c, f, call[c].data, FALSE))
        /\ UNCHANGED <<world, phase, spent, outcome, returned>>

Remove(c) ==
    LET f == call[c].path
    IN  /\ call[c].at = "delete"
        /\ \/ ~Holds("delete", f) /\ Refused(c, "permission")
           \/ Holds("delete", f) /\ files[f].number = 0 /\ Refused(c, "missing")
           \/ /\ Holds("delete", f) /\ files[f].number > 0
              /\ Refused(c, "conflict") \/ Commit(c, f, {}, TRUE)
        /\ UNCHANGED <<world, phase, spent, outcome, returned>>

(* open(path, "a") creates the file when exists says that there is none.    *)
AskExists(c) ==
    LET f == call[c].path
    IN  /\ call[c].at = "exists"
        /\ IF ~Holds("read", f) THEN Raise(c, "permission")
           ELSE IF files[f].number = 0 THEN Goto(c, WriteNext(c, {}))
           ELSE Return(c)
        /\ UNCHANGED <<world, files, phase, spent, outcome, histories>>

----------------------------------------------------------------------------
(* The end of the code and of the execution.                                *)

(* The errors of these verbs; those of verbs that are not here (an          *)
(* unsupported operation, an unavailable search) and what the translation   *)
(* does not know (internal_error) are left out.                             *)
Translate(k) ==
    CASE k = "permission" -> "permission_denied"
      [] k = "missing" -> "not_found"
      [] k = "conflict" -> "conflict"
      [] k \in {"operations", "oversize"} -> "budget_exceeded"

(* Mutant: the error in the sink is raised whatever ended the code.         *)
AlwaysCorresponds(captured, e) == TRUE

(* Monty loses the class of an error. The provider raises the one in the    *)
(* sink if it corresponds to the one that ended the code; of two errors of  *)
(* one kind it may not tell which it was. It also takes for it an error of  *)
(* the code's own that repeats its message word for word; that one is left  *)
(* out.                                                                     *)
Corresponds(captured, e) == captured.kind = e.kind

MontyResults(e) ==
    IF sink # <<>> /\ Corresponds(sink[1], e)
    THEN {Translate(sink[1].kind)} \cup (IF sink[1] = e THEN {} ELSE {"provider_error"})
    ELSE {"provider_error"}

(* An error of the code's own has no kind the sink could have.              *)
Own == [kind |-> "own", path |-> Cwd]

Results(e) ==
    CASE provider = "monty" -> MontyResults(e)
      [] provider # "monty" /\ e # Own -> {Translate(e.kind)}
      [] OTHER -> {"nonzero_exit"}

(* Mutant: nothing is cancelled.                                            *)
AllRunOn(c) == TRUE

(* What is in flight when the execution ends is cancelled, but a mount call *)
(* of Monty is a coroutine a worker thread has submitted to the loop, and   *)
(* runs on with whatever it still has to do. That the calls of the injected *)
(* verbs end with the coroutine that is cancelled is assumed of the         *)
(* interpreter, which is external.                                          *)
RunsOn(c) == provider = "monty" /\ OnMount(c)

Finish(why, res) ==
    /\ phase = "running"
    /\ phase' = "ended"
    /\ cause' = why
    /\ result' = res
    /\ call' = [c \in Calls |-> IF RunsOn(c) THEN call[c] ELSE NoCall]
    /\ UNCHANGED <<world, files, spent, sink, raised, histories>>

CodeReturns ==
    /\ \A c \in Calls : ~InFlight(c)
    /\ Finish("return", "success")

CodeFails(e) ==
    /\ \A c \in Calls : ~OnMount(c)
    /\ \E r \in Results(e) : Finish(e.kind, r)

Timeout == Finish("timeout", "timeout")

RecordExecution ==
    /\ phase = "ended"
    /\ phase' = "audited"
    /\ UNCHANGED <<world, files, call, spent, sink, raised, outcome, histories>>

----------------------------------------------------------------------------
(* Other clients of the namespace.                                          *)

OutsideWrite(f, content) ==
    /\ Change(f, content, FALSE)
    /\ UNCHANGED <<world, phase, call, spent, sink, raised, outcome, histories>>

OutsideDelete(f) ==
    /\ files[f].number > 0
    /\ Change(f, {}, TRUE)
    /\ UNCHANGED <<world, phase, call, spent, sink, raised, outcome, histories>>

----------------------------------------------------------------------------
CallStep(c) ==
    \/ \E surface \in Surfaces, f \in Files, data \in Data \cup {{}} :
          \E verb \in Verbs[surface] : Begin(c, surface, verb, f, data)
    \/ Account(c) \/ Stat(c) \/ AskSize(c) \/ Fetch(c) \/ Put(c) \/ Remove(c) \/ AskExists(c)

Next ==
    \/ CheckExecute \/ ResolveProvider \/ EnterCwd
    \/ \E c \in Calls : CallStep(c)
    \/ CodeReturns \/ Timeout \/ RecordExecution
    \/ \E e \in raised \cup {Own} : CodeFails(e)
    \/ \E f \in Files : OutsideDelete(f) \/ \E content \in Others : OutsideWrite(f, content)

Spec == Init /\ [][Next]_vars

----------------------------------------------------------------------------
(* The budget bounds what sandboxed code does to the namespace whichever    *)
(* surface it uses, and what a call still does after the execution ended    *)
(* counts (vfs.py:981-986, fs_ops.py:41-61): never more versions than       *)
(* operations.                                                              *)
BudgetBoundsEffects == Cardinality(effects) <= MaxOperations

(* The code never gets more than max_read_bytes from cat; the mount's read  *)
(* returns more only when the file was rewritten between the size check and *)
(* the fetch (fs_port.py:69-99, fs_ops.py:100-150).                         *)
LongReadsRaced ==
    \A r \in returned : r.over => r.raced /\ r.verb # "cat"

(* A result that names a VFS error names one the code ended with: an error  *)
(* the code caught and survived is not reported in place of what stopped it *)
(* later (monty_provider.py:135-158).                                       *)
ReportedErrorStoppedCode ==
    result \in {Translate(k) : k \in ErrorKinds} =>
        cause \in ErrorKinds /\ result = Translate(cause)

(* After the result is known the namespace changes only through the one     *)
(* mount call of Monty that a timeout overtook.                             *)
LateEffectMeansTimeout ==
    \A e \in effects : e.late =>
        /\ cause = "timeout" /\ provider = "monty"
        /\ \A d \in effects : d.late => d = e

(* An append that replaces the version it read keeps what was in it: only a *)
(* write that came between its two halves can be lost, never content the    *)
(* append was not allowed or was too long to read (monty_os.py:139-147).    *)
AppendDropsOnlyRaced ==
    [][\A c \in Calls :
          call[c] # NoCall /\ call[c].verb = "append" /\ call[c].at = "write"
          /\ files'[call[c].path] # files[call[c].path] /\ call'[c] = NoCall
          => LET old == files[call[c].path]
             IN  old.number = call[c].number => old.content \subseteq files'[call[c].path].content]_vars
=============================================================================
