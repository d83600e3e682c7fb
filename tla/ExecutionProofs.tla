--------------------------- MODULE ExecutionProofs ---------------------------
(***************************************************************************)
(* Safety of an execution for every code it may run: any calls, on either  *)
(* surface, in any order, beside any other clients.                        *)
(*                                                                         *)
(* Four facts carry it.  A call past its charge has an operation of its    *)
(* own (Budget).  What survives the end is one mount call of Monty whose   *)
(* execution timed out (Survivor).  A read that has passed the size check  *)
(* knows the version whose size it checked (ReadChecked), and an append    *)
(* whose write is due the version it has read (AppendHolds).               *)
(***************************************************************************)
EXTENDS Execution, FiniteSetTheorems, TLAPS

AllVerbs == Verbs["injected"] \cup Verbs["mount"]
Steps == {"charge", "stat", "size", "read", "write", "exists", "delete"}
Entries == {"stat", "write", "exists", "delete"}
CallRecord == [at : Steps, surface : Surfaces, verb : AllVerbs, path : Files,
               data : SUBSET Pieces, number : Nat, next : Entries]

ExecTyped ==
    /\ provider \in Providers
    /\ may \in Grants
    /\ files \in [Files -> File]
    /\ phase \in {"asked", "resolving", "entering", "running", "raised", "ended", "audited"}
    /\ call \in [Calls -> CallRecord \cup {NoCall}]
    /\ spent \in [Surfaces -> Nat]
    /\ sink = <<>> \/ \E e \in Error : sink = <<e>>
    /\ raised \subseteq Error
    /\ \A e \in effects : e.late \in BOOLEAN

(* A call that has been charged and has not ended.                         *)
Paid == {c \in Calls : call[c].at \notin {"idle", "charge"}}

Budget ==
    /\ IsFiniteSet(effects) /\ IsFiniteSet(Paid)
    /\ Cardinality(effects) + Cardinality(Paid) <= spent["injected"] + spent["mount"]
    /\ spent["injected"] + spent["mount"] <= MaxOperations

(* At most one call is on the mount, and after the end no other is left.   *)
Survivor ==
    /\ \A c, d \in Calls : OnMount(c) /\ OnMount(d) => c = d
    /\ Ended => \A c \in Calls : InFlight(c) =>
                    OnMount(c) /\ provider = "monty" /\ cause = "timeout"
    /\ \A e \in effects : e.late =>
        /\ Ended /\ cause = "timeout" /\ provider = "monty"
        /\ \A c \in Calls : ~InFlight(c)
        /\ \A d \in effects : d.late => d = e

TooLongToRead(f) == Length(files[f].content) > MaxReadBytes

(* The version whose size was checked is not too long; a later one may be. *)
ReadChecked(c) ==
    call[c].at = "read" =>
        /\ call[c].number <= files[call[c].path].number
        /\ call[c].number = files[call[c].path].number => ~TooLongToRead(call[c].path)

(* A write that is due holds what the append has read.                     *)
AppendHolds(c) ==
    /\ call[c].at = "write" => call[c].next = "write"
    /\ call[c].at \in {"charge", "write"} /\ call[c].verb = "append" /\ call[c].next = "write" =>
        /\ call[c].number <= files[call[c].path].number
        /\ call[c].number = files[call[c].path].number
            => files[call[c].path].content \subseteq call[c].data

(* A file that is not there, or deleted, has no content.                   *)
DeadAreEmpty == \A f \in Files : files[f].number = 0 \/ files[f].dead => files[f].content = {}

ExecSafe ==
    /\ Budget
    /\ Survivor
    /\ DeadAreEmpty
    /\ \A c \in Calls : ReadChecked(c) /\ AppendHolds(c)
    /\ LongReadsRaced
    /\ ReportedErrorStoppedCode

ExecInv == ExecTyped /\ ExecSafe

----------------------------------------------------------------------------
(* Types.                                                                  *)

(* A call that is anywhere but idle is a record with its arguments.        *)
LEMMA FlyingIsRecord ==
    ASSUME ExecTyped, NEW c \in Calls, call[c].at # "idle"
    PROVE  /\ call[c] \in CallRecord /\ call[c].path \in Files /\ call[c].number \in Nat
           /\ call[c].data \subseteq Pieces /\ call[c].at \in Steps /\ call[c].next \in Entries
           /\ files[call[c].path] \in File /\ files[call[c].path].number \in Nat
BY DEF ExecTyped, NoCall, CallRecord, File

(* What a call may become: another record, or nothing.                     *)
LEMMA CallsTyped ==
    ASSUME ExecTyped, NEW c \in Calls, NEW x \in CallRecord \cup {NoCall},
           call' = [call EXCEPT ![c] = x]
    PROVE  call' \in [Calls -> CallRecord \cup {NoCall}]
BY DEF ExecTyped

(* The call's second half, when an append or an open for append writes.    *)
LEMMA WriteNextTyped ==
    ASSUME ExecTyped, NEW c \in Calls, call[c].at # "idle", NEW old \in SUBSET Pieces
    PROVE  /\ WriteNext(c, old) \in CallRecord
           /\ WriteNext(c, old).at = "charge" /\ WriteNext(c, old).next = "write"
           /\ WriteNext(c, old).data = old \cup call[c].data
           /\ WriteNext(c, old).number = files[call[c].path].number
           /\ WriteNext(c, old).path = call[c].path /\ WriteNext(c, old).verb = call[c].verb
           /\ WriteNext(c, old).surface = call[c].surface
BY FlyingIsRecord DEF WriteNext, CallRecord, Steps, Entries

(* The errors the sink and the code have.                                  *)
SinkTyped == (sink = <<>> \/ \E e \in Error : sink = <<e>>) /\ raised \subseteq Error

(* An error that is raised ends its call.                                  *)
LEMMA RaiseTyped ==
    ASSUME ExecTyped, NEW c \in Calls, call[c].at # "idle", NEW k \in ErrorKinds, Raise(c, k)
    PROVE  SinkTyped' /\ call' = [call EXCEPT ![c] = NoCall]
<1>1. Err(k, call[c].path) \in Error
  BY FlyingIsRecord DEF Err, Error
<1> QED
  BY <1>1 DEF Raise, Capture, SinkTyped, ExecTyped

(* A read that fails is over, or is an append that goes on as if empty.    *)
LEMMA ReadFailsTyped ==
    ASSUME ExecTyped, NEW c \in Calls, call[c].at # "idle", NEW k \in ErrorKinds, ReadFails(c, k)
    PROVE  /\ SinkTyped'
           /\ \/ call' = [call EXCEPT ![c] = NoCall]
              \/ call' = [call EXCEPT ![c] = WriteNext(c, {})] /\ k = "missing"
<1>1. Err(k, call[c].path) \in Error
  BY FlyingIsRecord DEF Err, Error
<1>2. CASE call[c].verb = "append" /\ TakenForEmpty(k)
  <2>1. SinkTyped'
    BY <1>1, <1>2 DEF ReadFails, Capture, SinkTyped, ExecTyped
  <2> QED
    BY <1>2, <2>1 DEF ReadFails, TakenForEmpty
<1>3. CASE ~(call[c].verb = "append" /\ TakenForEmpty(k))
  BY <1>3, RaiseTyped DEF ReadFails
<1> QED
  BY <1>2, <1>3

(* check_and_increment (Account): the call is refused, or goes on charged. *)
LEMMA AccountShape ==
    ASSUME ExecTyped, NEW c \in Calls, Account(c)
    PROVE  /\ call[c].at = "charge" /\ SinkTyped'
           /\ UNCHANGED <<world, files, phase, outcome, histories>>
           /\ \/ spent' = spent /\ call' = [call EXCEPT ![c] = NoCall]
              \/ /\ spent["injected"] + spent["mount"] < MaxOperations
                 /\ spent' = [spent EXCEPT ![call[c].surface] = @ + 1]
                 /\ \/ call' = [call EXCEPT ![c] = NoCall]
                    \/ call' = [call EXCEPT ![c] = [call[c] EXCEPT !.at = call[c].next]]
<1>1. call[c].at = "charge" /\ UNCHANGED <<world, files, phase, outcome, histories>>
  BY DEF Account
<1>2. {"operations", "oversize"} \subseteq ErrorKinds
  BY DEF ErrorKinds
<1>3. CASE ~Affordable(call[c].surface)
  BY <1>1, <1>2, <1>3, RaiseTyped DEF Account
<1>4. CASE Affordable(call[c].surface)
  <2>1. /\ spent["injected"] + spent["mount"] < MaxOperations
        /\ spent' = [spent EXCEPT ![call[c].surface] = @ + 1]
    BY <1>4 DEF Account, Affordable, Spent, Charge
  <2>2. CASE call[c].next = "write" /\ Length(call[c].data) > MaxWriteBytes
    <3>1. Return(c) \/ Raise(c, "oversize")
      BY <1>4, <2>2 DEF Account, TooLong
    <3> QED
      BY <1>1, <1>2, <2>1, <3>1, RaiseTyped DEF Return, SinkTyped, ExecTyped
  <2>3. CASE ~(call[c].next = "write" /\ Length(call[c].data) > MaxWriteBytes)
    <3>1. Goto(c, [call[c] EXCEPT !.at = call[c].next])
      BY <1>4, <2>3 DEF Account
    <3> QED
      BY <1>1, <2>1, <3>1 DEF Goto, SinkTyped, ExecTyped
  <2> QED
    BY <2>2, <2>3
<1> QED
  BY <1>3, <1>4

(* The checks before a read (Stat, AskSize): past them is a file that is    *)
(* not too long.                                                           *)
LEMMA AskSizeShape ==
    ASSUME ExecTyped, NEW c \in Calls, Stat(c) \/ AskSize(c)
    PROVE  /\ call[c].at \in {"stat", "size"} /\ SinkTyped'
           /\ UNCHANGED <<world, files, phase, spent, outcome, histories>>
           /\ \/ call' = [call EXCEPT ![c] = NoCall]
              \/ call' = [call EXCEPT ![c] = [call[c] EXCEPT !.at = "size"]]
              \/ /\ call' = [call EXCEPT ![c] = WriteNext(c, {})]
                 /\ files[call[c].path].number = 0
              \/ /\ call' = [call EXCEPT ![c] = [call[c] EXCEPT
                                !.at = "read", !.number = files[call[c].path].number]]
                 /\ ~TooLongToRead(call[c].path)
<1>1. /\ call[c].at \in {"stat", "size"} /\ call[c].at # "idle"
      /\ UNCHANGED <<world, files, phase, spent, outcome, histories>>
  BY DEF Stat, AskSize
<1>2. {"permission", "missing", "oversize"} \subseteq ErrorKinds
  BY DEF ErrorKinds
<1>3. CASE Stat(c)
  <2>1. CASE ~Holds("read", call[c].path)
    <3>1. ReadFails(c, "permission")
      BY <1>3, <2>1 DEF Stat
    <3> QED
      BY <1>1, <1>2, <3>1, ReadFailsTyped
  <2>2. CASE Holds("read", call[c].path) /\ files[call[c].path].number = 0
    <3>1. ReadFails(c, "missing")
      BY <1>3, <2>2 DEF Stat
    <3> QED
      BY <1>1, <1>2, <2>2, <3>1, ReadFailsTyped
  <2>3. CASE Holds("read", call[c].path) /\ files[call[c].path].number # 0
    <3>1. Goto(c, [call[c] EXCEPT !.at = "size"])
      BY <1>3, <2>3 DEF Stat
    <3> QED
      BY <1>1, <3>1 DEF Goto, SinkTyped, ExecTyped
  <2> QED
    BY <2>1, <2>2, <2>3
<1>4. CASE AskSize(c)
  <2>2. CASE TooLongToRead(call[c].path)
    <3>1. Return(c) \/ ReadFails(c, "oversize")
      BY <1>4, <2>2 DEF AskSize, TooLongToRead
    <3> QED
      BY <1>1, <1>2, <3>1, ReadFailsTyped DEF Return, SinkTyped, ExecTyped
  <2>3. CASE ~TooLongToRead(call[c].path)
    <3>1. Goto(c, [call[c] EXCEPT !.at = "read", !.number = files[call[c].path].number])
      BY <1>4, <2>3 DEF AskSize, TooLongToRead
    <3> QED
      BY <1>1, <2>3, <3>1 DEF Goto, SinkTyped, ExecTyped
  <2> QED
    BY <2>2, <2>3
<1> QED
  BY <1>3, <1>4

(* The read (Fetch): what is returned, and with what an append goes on.    *)
LEMMA FetchShape ==
    ASSUME ExecTyped, NEW c \in Calls, Fetch(c)
    PROVE  /\ call[c].at = "read" /\ SinkTyped'
           /\ UNCHANGED <<world, files, phase, spent, outcome, effects>>
           /\ \/ call' = [call EXCEPT ![c] = NoCall]
              \/ /\ call' = [call EXCEPT ![c] = WriteNext(c, {})]
                 /\ files[call[c].path].dead
              \/ call' = [call EXCEPT ![c] = WriteNext(c, files[call[c].path].content)]
           /\ \/ returned' = returned
              \/ /\ returned' = returned \cup
                       {[verb  |-> call[c].verb,
                         over  |-> TooLongToRead(call[c].path),
                         raced |-> files[call[c].path].number # call[c].number]}
                 /\ ~(call[c].verb = "cat" /\ TooLongToRead(call[c].path))
<1>1. call[c].at = "read" /\ UNCHANGED <<world, files, phase, spent, outcome, effects>>
  BY DEF Fetch
<1>2. "missing" \in ErrorKinds
  BY DEF ErrorKinds
<1>3. CASE files[call[c].path].dead
  <2>1. ReadFails(c, "missing") /\ returned' = returned
    BY <1>3 DEF Fetch
  <2> QED
    BY <1>1, <1>2, <1>3, <2>1, ReadFailsTyped
<1>4. CASE ~files[call[c].path].dead
  <2>1. SinkTyped' /\ \/ call' = [call EXCEPT ![c] = NoCall]
                      \/ call' = [call EXCEPT ![c] = WriteNext(c, files[call[c].path].content)]
    BY <1>4 DEF Fetch, Goto, Return, SinkTyped, ExecTyped
  <2>2. \/ returned' = returned
        \/ /\ returned' = returned \cup
                 {[verb  |-> call[c].verb,
                   over  |-> TooLongToRead(call[c].path),
                   raced |-> files[call[c].path].number # call[c].number]}
           /\ ~(call[c].verb = "cat" /\ TooLongToRead(call[c].path))
    BY <1>4 DEF Fetch, Withheld, TooLongToRead
  <2> QED
    BY <1>1, <2>1, <2>2
<1> QED
  BY <1>3, <1>4


(* The next version of a file.                                             *)
Changed(f, content, dead) ==
    [files EXCEPT ![f] = [number |-> files[f].number + 1, content |-> content, dead |-> dead]]

(* A write or a deletion (Put, Remove): it makes a version or is refused,  *)
(* and is over.                                                            *)
LEMMA EffectShape ==
    ASSUME ExecTyped, NEW c \in Calls, Put(c) \/ Remove(c)
    PROVE  /\ call[c].at \in {"write", "delete"} /\ SinkTyped'
           /\ UNCHANGED <<world, phase, spent, outcome, returned>>
           /\ call' = [call EXCEPT ![c] = NoCall]
           /\ \/ UNCHANGED <<files, effects>>
              \/ \E content \in SUBSET Pieces, dead \in BOOLEAN :
                    /\ dead => content = {}
                    /\ call[c].at = "write" => content = call[c].data
                    /\ files' = Changed(call[c].path, content, dead)
                    /\ effects' = effects \cup
                          {[path |-> call[c].path, number |-> files[call[c].path].number + 1,
                            late |-> Ended]}
<1>1. {"permission", "missing", "conflict"} \subseteq ErrorKinds
  BY DEF ErrorKinds
<1>2. CASE Put(c)
  <2>1. call[c].at = "write" /\ UNCHANGED <<world, phase, spent, outcome, returned>>
    BY <1>2 DEF Put
  <2>2. CASE Commit(c, call[c].path, call[c].data, FALSE)
    <3>1. /\ Return(c) /\ files' = Changed(call[c].path, call[c].data, FALSE)
          /\ Effect(call[c].path)
      BY <2>2 DEF Commit, Change, Changed
    <3>2. call[c].data \in SUBSET Pieces
      BY <2>1, FlyingIsRecord
    <3> QED
      BY <2>1, <3>1, <3>2 DEF Return, Effect, SinkTyped, ExecTyped
  <2>3. CASE \E k \in {"permission", "conflict"} : Refused(c, k)
    BY <1>1, <2>1, <2>3, RaiseTyped DEF Refused
  <2> QED
    BY <1>2, <2>2, <2>3 DEF Put
<1>3. CASE Remove(c)
  <2>1. call[c].at = "delete" /\ UNCHANGED <<world, phase, spent, outcome, returned>>
    BY <1>3 DEF Remove
  <2>2. CASE Commit(c, call[c].path, {}, TRUE)
    <3>1. /\ Return(c) /\ files' = Changed(call[c].path, {}, TRUE)
          /\ Effect(call[c].path)
      BY <2>2 DEF Commit, Change, Changed
    <3> QED
      BY <2>1, <3>1 DEF Return, Effect, SinkTyped, ExecTyped
  <2>3. CASE \E k \in {"permission", "missing", "conflict"} : Refused(c, k)
    BY <1>1, <2>1, <2>3, RaiseTyped DEF Refused
  <2> QED
    BY <1>3, <2>2, <2>3 DEF Remove
<1> QED
  BY <1>2, <1>3

(* open for append (AskExists): a write follows if there is no file.       *)
LEMMA AskExistsShape ==
    ASSUME ExecTyped, NEW c \in Calls, AskExists(c)
    PROVE  /\ call[c].at = "exists" /\ SinkTyped'
           /\ UNCHANGED <<world, files, phase, spent, outcome, histories>>
           /\ \/ call' = [call EXCEPT ![c] = NoCall]
              \/ /\ call' = [call EXCEPT ![c] = WriteNext(c, {})]
                 /\ files[call[c].path].number = 0
<1>1. call[c].at = "exists" /\ UNCHANGED <<world, files, phase, spent, outcome, histories>>
  BY DEF AskExists
<1>2. "permission" \in ErrorKinds
  BY DEF ErrorKinds
<1>3. CASE ~Holds("read", call[c].path)
  BY <1>1, <1>2, <1>3, RaiseTyped DEF AskExists
<1>4. CASE Holds("read", call[c].path)
  BY <1>1, <1>4 DEF AskExists, Goto, Return, SinkTyped, ExecTyped
<1> QED
  BY <1>3, <1>4

(* A call begins (Begin) while nobody is on the mount.                     *)
LEMMA BeginShape ==
    ASSUME ExecTyped, NEW c \in Calls, NEW surface \in Surfaces, NEW f \in Files,
           NEW data \in Data \cup {{}}, NEW verb \in Verbs[surface],
           Begin(c, surface, verb, f, data)
    PROVE  /\ phase = "running" /\ call[c].at = "idle" /\ \A d \in Calls : ~OnMount(d)
           /\ UNCHANGED <<world, files, phase, spent, sink, raised, outcome, histories>>
           /\ \E x \in CallRecord :
                /\ call' = [call EXCEPT ![c] = x]
                /\ x.at = "charge" /\ (x.verb = "append" => x.next = "stat")
<1> DEFINE x == [at |-> "charge", surface |-> surface, verb |-> verb, path |-> f,
                 data |-> data, number |-> 0, next |-> FirstStep(verb)]
<1>1. /\ phase = "running" /\ call[c].at = "idle" /\ \A d \in Calls : ~OnMount(d)
      /\ UNCHANGED <<world, files, phase, spent, sink, raised, outcome, histories>>
      /\ call' = [call EXCEPT ![c] = x]
  BY DEF Begin, InFlight
<1>2. verb \in {"cat", "write", "read", "append", "openw", "opena", "delete"} /\ verb \in AllVerbs
  BY DEF AllVerbs, Surfaces, Verbs
<1>3. FirstStep(verb) \in Entries /\ (verb = "append" => FirstStep(verb) = "stat")
  BY <1>2 DEF FirstStep, Entries
<1>4. data \in SUBSET Pieces
  BY ExecutionAssumption
<1>5. x \in CallRecord
  BY <1>2, <1>3, <1>4 DEF CallRecord, Steps
<1> QED
  BY <1>1, <1>3, <1>5


(* The end of an execution: only a mount call of Monty survives it, and    *)
(* only a timeout; what is reported is what stopped the code.              *)
LEMMA FinishShape ==
    ASSUME ExecTyped, CodeReturns \/ Timeout \/ \E e \in raised \cup {Own} : CodeFails(e)
    PROVE  /\ phase = "running" /\ phase' = "ended"
           /\ UNCHANGED <<world, files, spent, sink, raised, histories>>
           /\ call' \in [Calls -> CallRecord \cup {NoCall}]
           /\ \A c \in Calls :
                \/ call'[c] = NoCall
                \/ /\ call'[c] = call[c] /\ provider = "monty"
                   /\ OnMount(c) /\ cause' = "timeout"
           /\ ReportedErrorStoppedCode'
<1> DEFINE Ends == /\ phase = "running" /\ phase' = "ended"
                   /\ UNCHANGED <<world, files, spent, sink, raised, histories>>
                   /\ call' = [c \in Calls |-> IF RunsOn(c) THEN call[c] ELSE NoCall]
<1>1. CASE CodeReturns
  <2>1. Ends /\ result' = "success" /\ \A c \in Calls : ~RunsOn(c)
    BY <1>1 DEF CodeReturns, Finish, RunsOn, OnMount
  <2>2. ReportedErrorStoppedCode'
    BY <2>1 DEF ReportedErrorStoppedCode, Translate, ErrorKinds
  <2> QED
    BY <2>1, <2>2
<1>2. CASE Timeout
  <2>1. Ends /\ result' = "timeout" /\ cause' = "timeout"
    BY <1>2 DEF Timeout, Finish
  <2>2. ReportedErrorStoppedCode'
    BY <2>1 DEF ReportedErrorStoppedCode, Translate, ErrorKinds
  <2> QED
    BY <2>1, <2>2 DEF ExecTyped, RunsOn
<1>3. ASSUME NEW e \in raised \cup {Own}, CodeFails(e)
      PROVE  Ends /\ ReportedErrorStoppedCode' /\ \A c \in Calls : ~RunsOn(c)
  <2>1. PICK res \in Results(e) : Finish(e.kind, res)
    BY <1>3 DEF CodeFails
  <2>2. Ends /\ result' = res /\ cause' = e.kind /\ \A c \in Calls : ~RunsOn(c)
    BY <1>3, <2>1 DEF CodeFails, Finish, RunsOn
  <2>3. res \in {"provider_error", "nonzero_exit"} \/ (e.kind \in ErrorKinds /\ res = Translate(e.kind))
    <3>1. \A x \in Error : x.kind \in ErrorKinds
      BY DEF Error
    <3>2. CASE provider = "monty"
      <4>1. Results(e) = MontyResults(e)
        BY <3>2 DEF Results
      <4>2. CASE sink # <<>> /\ Corresponds(sink[1], e)
        <5>1. sink[1].kind \in ErrorKinds /\ sink[1].kind = e.kind
          BY <3>1, <4>2 DEF ExecTyped, Corresponds
        <5>2. res \in {Translate(sink[1].kind), "provider_error"}
          BY <2>1, <4>1, <4>2 DEF MontyResults
        <5> QED
          BY <5>1, <5>2
      <4>3. CASE ~(sink # <<>> /\ Corresponds(sink[1], e))
        BY <2>1, <4>1, <4>3 DEF MontyResults
      <4> QED
        BY <4>2, <4>3
    <3>3. CASE provider # "monty" /\ e # Own
      <4>1. e \in Error
        BY <1>3, <3>3 DEF ExecTyped
      <4>2. Results(e) = {Translate(e.kind)}
        BY <3>3 DEF Results
      <4> QED
        BY <2>1, <3>1, <4>1, <4>2
    <3>4. CASE provider # "monty" /\ e = Own
      <4>1. Results(e) = {"nonzero_exit"}
        BY <3>4 DEF Results
      <4> QED
        BY <2>1, <4>1
    <3> QED
      BY <3>2, <3>3, <3>4
  <2>4. ReportedErrorStoppedCode'
    BY <2>2, <2>3 DEF ReportedErrorStoppedCode, Translate, ErrorKinds
  <2> QED
    BY <2>2, <2>4
<1> QED
  BY <1>1, <1>2, <1>3 DEF ExecTyped

(* Another client makes a version of a file (OutsideWrite, OutsideDelete). *)
LEMMA OutsideShape ==
    ASSUME ExecTyped, NEW f \in Files,
           OutsideDelete(f) \/ \E content \in Others : OutsideWrite(f, content)
    PROVE  /\ UNCHANGED <<world, phase, call, spent, sink, raised, outcome, histories>>
           /\ \E content \in SUBSET Pieces, dead \in BOOLEAN :
                (dead => content = {}) /\ files' = Changed(f, content, dead)
<1>1. UNCHANGED <<world, phase, call, spent, sink, raised, outcome, histories>>
  BY DEF OutsideWrite, OutsideDelete
<1>2. ASSUME OutsideDelete(f) PROVE files' = Changed(f, {}, TRUE)
  BY <1>2 DEF OutsideDelete, Change, Changed
<1>3. ASSUME NEW content \in Others, OutsideWrite(f, content)
      PROVE  files' = Changed(f, content, FALSE) /\ content \in SUBSET Pieces
  BY <1>3, ExecutionAssumption DEF OutsideWrite, Change, Changed
<1> QED
  BY <1>1, <1>2, <1>3

(* The steps that only advance the execution.                              *)
LEMMA AdvanceShape ==
    ASSUME ExecTyped, CheckExecute \/ ResolveProvider \/ EnterCwd \/ RecordExecution
    PROVE  /\ UNCHANGED <<world, files, call, spent, sink, raised, outcome, histories>>
           /\ phase' \in {"resolving", "entering", "running", "raised", "audited"}
           /\ Ended' <=> Ended
BY DEF CheckExecute, ResolveProvider, EnterCwd, RecordExecution, Advance, Ended

(* Every version of a file is typed.                                       *)
LEMMA ChangedTyped ==
    ASSUME ExecTyped, NEW f \in Files, NEW content \in SUBSET Pieces, NEW dead \in BOOLEAN,
           files' = Changed(f, content, dead)
    PROVE  /\ files' \in [Files -> File]
           /\ \A g \in Files : g # f => files'[g] = files[g]
           /\ files'[f].number = files[f].number + 1 /\ files[f].number \in Nat
           /\ files'[f].content = content /\ files'[f].dead = dead
BY DEF ExecTyped, Changed, File

(* Types are kept.                                                         *)
LEMMA ExecTypedStep == ExecTyped /\ [Next]_vars => ExecTyped'
<1> SUFFICES ASSUME ExecTyped, [Next]_vars PROVE ExecTyped'
  OBVIOUS
<1>1. ASSUME NEW c \in Calls, NEW surface \in Surfaces, NEW f \in Files,
             NEW data \in Data \cup {{}}, NEW verb \in Verbs[surface],
             Begin(c, surface, verb, f, data)
      PROVE  ExecTyped'
  BY <1>1, BeginShape, CallsTyped DEF ExecTyped, world, histories
<1>2. ASSUME NEW c \in Calls, Account(c) PROVE ExecTyped'
  <2>1. call[c].at = "charge"
    BY <1>2, AccountShape
  <2>2. call[c].surface \in Surfaces /\ [call[c] EXCEPT !.at = call[c].next] \in CallRecord
    BY <2>1, FlyingIsRecord DEF CallRecord, Steps, Entries
  <2>3. spent' \in [Surfaces -> Nat]
    BY <1>2, <2>2, AccountShape DEF ExecTyped
  <2> QED
    BY <1>2, <2>2, <2>3, AccountShape, CallsTyped DEF ExecTyped, SinkTyped, world, histories
<1>3. ASSUME NEW c \in Calls, Stat(c) \/ AskSize(c) PROVE ExecTyped'
  <2>1. call[c].at \in {"stat", "size"} /\ call[c].at # "idle"
    BY <1>3, AskSizeShape
  <2>2. WriteNext(c, {}) \in CallRecord
    BY <2>1, WriteNextTyped
  <2>3. /\ [call[c] EXCEPT !.at = "read", !.number = files[call[c].path].number] \in CallRecord
        /\ [call[c] EXCEPT !.at = "size"] \in CallRecord
    BY <2>1, FlyingIsRecord DEF CallRecord, Steps
  <2> QED
    BY <1>3, <2>2, <2>3, AskSizeShape, CallsTyped DEF ExecTyped, SinkTyped, world, histories
<1>4. ASSUME NEW c \in Calls, Fetch(c) PROVE ExecTyped'
  <2>1. call[c].at = "read"
    BY <1>4, FetchShape
  <2>2. files[call[c].path].content \in SUBSET Pieces
    BY <2>1, FlyingIsRecord DEF File
  <2>3. WriteNext(c, {}) \in CallRecord /\ WriteNext(c, files[call[c].path].content) \in CallRecord
    BY <2>1, <2>2, WriteNextTyped
  <2> QED
    BY <1>4, <2>3, FetchShape, CallsTyped DEF ExecTyped, SinkTyped, world
<1>5. ASSUME NEW c \in Calls, Put(c) \/ Remove(c) PROVE ExecTyped'
  <2>1. call[c].path \in Files
    BY <1>5, EffectShape, FlyingIsRecord
  <2>2. CASE UNCHANGED <<files, effects>>
    BY <1>5, <2>2, EffectShape, CallsTyped DEF ExecTyped, SinkTyped, world
  <2>3. ASSUME NEW content \in SUBSET Pieces, NEW dead \in BOOLEAN,
               files' = Changed(call[c].path, content, dead)
        PROVE  files' \in [Files -> File]
    BY <2>1, <2>3, ChangedTyped
  <2>4. Ended \in BOOLEAN
    BY DEF Ended
  <2>5. CASE ~UNCHANGED <<files, effects>>
    <3>1. files' \in [Files -> File]
      BY <1>5, <2>3, <2>5, EffectShape
    <3>2. \A e \in effects' : e.late \in BOOLEAN
      BY <1>5, <2>4, <2>5, EffectShape DEF ExecTyped
    <3> QED
      BY <1>5, <3>1, <3>2, EffectShape, CallsTyped DEF ExecTyped, SinkTyped, world
  <2> QED
    BY <2>2, <2>5
<1>6. ASSUME NEW c \in Calls, AskExists(c) PROVE ExecTyped'
  <2>1. call[c].at = "exists"
    BY <1>6, AskExistsShape
  <2>2. WriteNext(c, {}) \in CallRecord
    BY <2>1, WriteNextTyped
  <2> QED
    BY <1>6, <2>2, AskExistsShape, CallsTyped DEF ExecTyped, SinkTyped, world, histories
<1>7. ASSUME CodeReturns \/ Timeout \/ \E e \in raised \cup {Own} : CodeFails(e) PROVE ExecTyped'
  BY <1>7, FinishShape DEF ExecTyped, world, histories
<1>8. ASSUME NEW f \in Files, OutsideDelete(f) \/ \E content \in Others : OutsideWrite(f, content)
      PROVE  ExecTyped'
  BY <1>8, OutsideShape, ChangedTyped DEF ExecTyped, world, histories
<1>9. ASSUME CheckExecute \/ ResolveProvider \/ EnterCwd \/ RecordExecution PROVE ExecTyped'
  BY <1>9, AdvanceShape DEF ExecTyped, world, histories
<1>10. CASE UNCHANGED vars
  BY <1>10 DEF ExecTyped, vars, world, histories
<1> QED
  BY <1>1, <1>2, <1>3, <1>4, <1>5, <1>6, <1>7, <1>8, <1>9, <1>10 DEF Next, CallStep


----------------------------------------------------------------------------
(* The budget.                                                             *)

(* Only the call that moves changes.                                       *)
LEMMA OneCallMoves ==
    ASSUME ExecTyped, NEW c \in Calls, NEW x, call' = [call EXCEPT ![c] = x]
    PROVE  call'[c] = x /\ \A d \in Calls : d # c => call'[d] = call[d]
BY DEF ExecTyped

(* One more element is at most one more.                                   *)
LEMMA OneMore ==
    ASSUME NEW S, IsFiniteSet(S), NEW x
    PROVE  IsFiniteSet(S \cup {x}) /\ Cardinality(S \cup {x}) <= Cardinality(S) + 1
<1>1. /\ IsFiniteSet(S \cup {x})
      /\ Cardinality(S \cup {x}) = IF x \in S THEN Cardinality(S) ELSE Cardinality(S) + 1
  BY FS_AddElement
<1>2. Cardinality(S) \in Nat
  BY FS_CardinalityType
<1> QED
  BY <1>1, <1>2

(* Calls may end without having made anything.                             *)
LEMMA PaidMayEnd ==
    ASSUME ExecTyped, Budget, UNCHANGED <<spent, effects>>, Paid' \subseteq Paid
    PROVE  Budget'
<1>1. IsFiniteSet(Paid') /\ Cardinality(Paid') <= Cardinality(Paid)
  BY FS_Subset DEF Budget
<1>2. {Cardinality(Paid), Cardinality(Paid'), Cardinality(effects), MaxOperations,
       spent["injected"], spent["mount"]} \subseteq Nat
  BY <1>1, FS_CardinalityType, ExecutionAssumption DEF Budget, ExecTyped, Surfaces, Verbs
<1>3. IsFiniteSet(effects') /\ Cardinality(effects') = Cardinality(effects)
  BY DEF Budget
<1> QED
  BY <1>1, <1>2, <1>3 DEF Budget

(* A charge pays for at most the one call.                                 *)
LEMMA ChargePays ==
    ASSUME ExecTyped, Budget, NEW c \in Calls, NEW s \in Surfaces, effects' = effects,
           Paid' \subseteq Paid \cup {c},
           spent["injected"] + spent["mount"] < MaxOperations,
           spent' = [spent EXCEPT ![s] = @ + 1]
    PROVE  Budget'
<1>1. IsFiniteSet(Paid \cup {c}) /\ Cardinality(Paid \cup {c}) <= Cardinality(Paid) + 1
  BY OneMore DEF Budget
<1>2. IsFiniteSet(Paid') /\ Cardinality(Paid') <= Cardinality(Paid \cup {c})
  BY <1>1, FS_Subset
<1>3. {Cardinality(Paid), Cardinality(Paid \cup {c}), Cardinality(Paid'), Cardinality(effects),
       MaxOperations, spent["injected"], spent["mount"]} \subseteq Nat
  BY <1>1, <1>2, FS_CardinalityType, ExecutionAssumption DEF Budget, ExecTyped, Surfaces, Verbs
<1>4. spent'["injected"] + spent'["mount"] = spent["injected"] + spent["mount"] + 1
  BY <1>3 DEF ExecTyped, Surfaces, Verbs
<1> HIDE DEF Paid
<1> QED
  BY <1>1, <1>2, <1>3, <1>4 DEF Budget

(* A version is made by a call that was paid for, and then is over.        *)
LEMMA EffectIsPaid ==
    ASSUME ExecTyped, Budget, NEW c \in Paid, NEW e, spent' = spent,
           effects' = effects \cup {e}, Paid' \subseteq Paid \ {c}
    PROVE  Budget'
<1>1. IsFiniteSet(effects') /\ Cardinality(effects') <= Cardinality(effects) + 1
  BY OneMore DEF Budget
<1>2. IsFiniteSet(Paid \ {c}) /\ Cardinality(Paid \ {c}) = Cardinality(Paid) - 1
  BY FS_RemoveElement DEF Budget
<1>3. IsFiniteSet(Paid') /\ Cardinality(Paid') <= Cardinality(Paid \ {c})
  BY <1>2, FS_Subset
<1>4. {Cardinality(Paid), Cardinality(Paid \ {c}), Cardinality(Paid'), Cardinality(effects),
       Cardinality(effects'), MaxOperations, spent["injected"], spent["mount"]} \subseteq Nat
  BY <1>1, <1>2, <1>3, FS_CardinalityType, ExecutionAssumption
     DEF Budget, ExecTyped, Surfaces, Verbs
<1> HIDE DEF Paid
<1> QED
  BY <1>1, <1>2, <1>3, <1>4 DEF Budget


----------------------------------------------------------------------------
(* What the other calls and the files keep.                                *)

(* Versions only grow.                                                     *)
MovedOn(f) == files'[f] = files[f] \/ (files'[f].number \in Nat /\ files'[f].number > files[f].number)

(* What a call knows of its file stays right while other calls and other   *)
(* clients move: it is of the current version, or of an older one.         *)
LEMMA StillKnows ==
    ASSUME ExecTyped, NEW c \in Calls, ReadChecked(c), AppendHolds(c), call'[c] = call[c],
           \A f \in Files : MovedOn(f)
    PROVE  ReadChecked(c)' /\ AppendHolds(c)'
<1>1. CASE call[c].at = "idle"
  BY <1>1 DEF ReadChecked, AppendHolds
<1>2. CASE call[c].at # "idle"
  <2>1. /\ call[c].path \in Files /\ call[c].number \in Nat
        /\ files[call[c].path].number \in Nat /\ MovedOn(call[c].path)
    BY <1>2, FlyingIsRecord
  <2>2. CASE files'[call[c].path] = files[call[c].path]
    BY <2>2 DEF ReadChecked, AppendHolds, TooLongToRead
  <2>3. CASE /\ files'[call[c].path].number \in Nat
             /\ files'[call[c].path].number > files[call[c].path].number
    <3>1. ReadChecked(c)'
      BY <2>1, <2>3 DEF ReadChecked
    <3>2. AppendHolds(c)'
      BY <2>1, <2>3 DEF AppendHolds
    <3> QED
      BY <3>1, <3>2
  <2> QED
    BY <2>1, <2>2, <2>3 DEF MovedOn
<1> QED
  BY <1>1, <1>2

(* Nothing is known of the file of a call that is over.                    *)
LEMMA OverKnowsNothing ==
    ASSUME NEW c \in Calls, call'[c] = NoCall
    PROVE  ReadChecked(c)' /\ AppendHolds(c)'
BY DEF NoCall, ReadChecked, AppendHolds

(* An append that goes on with all there is holds it.                      *)
LEMMA WriteNextHolds ==
    ASSUME ExecTyped, NEW c \in Calls, call[c].at # "idle", NEW old \in SUBSET Pieces,
           files[call[c].path].content \subseteq old, files' = files,
           call'[c] = WriteNext(c, old)
    PROVE  ReadChecked(c)' /\ AppendHolds(c)'
<1>1. /\ call'[c].at = "charge" /\ call'[c].data = old \cup call[c].data
      /\ call'[c].number = files[call[c].path].number /\ call'[c].path = call[c].path
  BY WriteNextTyped
<1>2. files[call[c].path].number \in Nat
  BY FlyingIsRecord
<1> QED
  BY <1>1, <1>2 DEF ReadChecked, AppendHolds

(* While calls only go on or end, those that survive are the same.         *)
LEMMA SurvivorStays ==
    ASSUME ExecTyped, Survivor, UNCHANGED <<provider, phase, cause, effects>>,
           \A c \in Calls : InFlight(c)' => InFlight(c) /\ (OnMount(c)' => OnMount(c))
                                            /\ (OnMount(c) => OnMount(c)')
    PROVE  Survivor'
<1>1. Ended' = Ended
  BY DEF Ended
<1>2. \A c \in Calls : OnMount(c)' => OnMount(c)
  BY DEF OnMount
<1>3. (\A c, d \in Calls : OnMount(c) /\ OnMount(d) => c = d)'
  BY <1>2 DEF Survivor
<1>4. (Ended => \A c \in Calls : InFlight(c) => OnMount(c) /\ provider = "monty" /\ cause = "timeout")'
  BY <1>1 DEF Survivor
<1>5. (\A e \in effects : e.late =>
        /\ Ended /\ cause = "timeout" /\ provider = "monty"
        /\ \A c \in Calls : ~InFlight(c)
        /\ \A d \in effects : d.late => d = e)'
  BY <1>1 DEF Survivor
<1> QED
  BY <1>3, <1>4, <1>5 DEF Survivor

(* A call that goes on stays on its surface.                               *)
LEMMA GoesOn ==
    ASSUME ExecTyped, Survivor, UNCHANGED <<provider, phase, cause, effects>>,
           NEW c \in Calls, call[c].at # "idle", NEW x, call' = [call EXCEPT ![c] = x],
           x = NoCall \/ x.surface = call[c].surface
    PROVE  Survivor'
<1>1. call'[c] = x /\ \A d \in Calls : d # c => call'[d] = call[d]
  BY OneCallMoves
<1>2. ASSUME NEW d \in Calls, InFlight(d)'
      PROVE  InFlight(d) /\ (OnMount(d)' => OnMount(d)) /\ (OnMount(d) => OnMount(d)')
  BY <1>1, <1>2 DEF InFlight, OnMount, NoCall
<1> QED
  BY <1>2, SurvivorStays

(* A version is added to the files; they move on, and the dead are empty.  *)
LEMMA ChangedMovesOn ==
    ASSUME ExecTyped, DeadAreEmpty, NEW f \in Files,
           NEW content \in SUBSET Pieces, NEW dead \in BOOLEAN, dead => content = {},
           files' = Changed(f, content, dead)
    PROVE  DeadAreEmpty' /\ \A g \in Files : MovedOn(g)
<1>1. /\ \A g \in Files : g # f => files'[g] = files[g]
      /\ files'[f].number = files[f].number + 1 /\ files[f].number \in Nat
      /\ files'[f].content = content /\ files'[f].dead = dead
  BY ChangedTyped
<1> QED
  BY <1>1 DEF DeadAreEmpty, MovedOn


----------------------------------------------------------------------------
(* The steps of a call.                                                    *)

(* A call that begins is the only one on the mount.                        *)
LEMMA BeginKeeps ==
    ASSUME ExecInv, NEW c \in Calls, NEW surface \in Surfaces, NEW f \in Files,
           NEW data \in Data \cup {{}}, NEW verb \in Verbs[surface],
           Begin(c, surface, verb, f, data)
    PROVE  ExecSafe'
<1>1. ExecTyped /\ ExecSafe
  BY DEF ExecInv
<1>2. /\ phase = "running" /\ call[c].at = "idle" /\ \A d \in Calls : ~OnMount(d)
      /\ UNCHANGED <<world, files, phase, spent, sink, raised, outcome, histories>>
  BY <1>1, BeginShape
<1>3. PICK x \in CallRecord : /\ call' = [call EXCEPT ![c] = x]
                              /\ x.at = "charge" /\ (x.verb = "append" => x.next = "stat")
  BY <1>1, BeginShape
<1>4. call'[c] = x /\ \A d \in Calls : d # c => call'[d] = call[d]
  BY <1>1, <1>3, OneCallMoves
<1>5. Budget'
  <2>1. Paid' \subseteq Paid
    BY <1>3, <1>4 DEF Paid
  <2> QED
    BY <1>1, <1>2, <2>1, PaidMayEnd DEF ExecSafe, histories
<1>6. Survivor'
  <2>1. \A d \in Calls : OnMount(d)' => d = c
    BY <1>2, <1>4 DEF OnMount, InFlight
  <2>2. ~Ended /\ ~Ended' /\ \A e \in effects' : ~e.late
    BY <1>1, <1>2 DEF Ended, ExecSafe, Survivor, histories
  <2>3. (\A d, e \in Calls : OnMount(d) /\ OnMount(e) => d = e)'
    BY <2>1
  <2> QED
    BY <2>2, <2>3 DEF Survivor
<1>7. \A d \in Calls : ReadChecked(d)' /\ AppendHolds(d)'
  <2>1. ReadChecked(c)' /\ AppendHolds(c)'
    BY <1>3, <1>4 DEF ReadChecked, AppendHolds
  <2>2. \A f_1 \in Files : MovedOn(f_1)
    BY <1>2 DEF MovedOn
  <2>3. \A d \in Calls : d # c => ReadChecked(d)' /\ AppendHolds(d)'
    BY <1>1, <1>4, <2>2, StillKnows DEF ExecSafe
  <2> QED
    BY <2>1, <2>3
<1>8. DeadAreEmpty' /\ LongReadsRaced' /\ ReportedErrorStoppedCode'
  BY <1>1, <1>2 DEF ExecSafe, DeadAreEmpty, LongReadsRaced, ReportedErrorStoppedCode,
                    histories, outcome
<1> QED
  BY <1>5, <1>6, <1>7, <1>8 DEF ExecSafe

(* A call is charged, once, before anything else it does.                  *)
LEMMA AccountKeeps ==
    ASSUME ExecInv, NEW c \in Calls, Account(c)
    PROVE  ExecSafe'
<1>1. ExecTyped /\ ExecSafe
  BY DEF ExecInv
<1>2. call[c].at = "charge" /\ UNCHANGED <<world, files, phase, outcome, histories>>
  BY <1>1, AccountShape
<1>3. call[c] \in CallRecord
  BY <1>1, <1>2, FlyingIsRecord
<1>4. PICK x : /\ call' = [call EXCEPT ![c] = x]
               /\ x = NoCall \/ x = [call[c] EXCEPT !.at = call[c].next]
  BY <1>1, AccountShape
<1>5. call'[c] = x /\ \A d \in Calls : d # c => call'[d] = call[d]
  BY <1>1, <1>4, OneCallMoves
<1>6. Budget'
  <2>1. CASE UNCHANGED <<spent>> /\ call' = [call EXCEPT ![c] = NoCall]
    <3>1. call'[c] = NoCall
      BY <1>1, <2>1, OneCallMoves
    <3>2. Paid' \subseteq Paid
      BY <1>5, <3>1 DEF Paid, NoCall
    <3> QED
      BY <1>1, <1>2, <2>1, <3>2, PaidMayEnd DEF ExecSafe, histories
  <2>2. CASE /\ spent["injected"] + spent["mount"] < MaxOperations
             /\ spent' = [spent EXCEPT ![call[c].surface] = @ + 1]
    <3>1. Paid' \subseteq Paid \cup {c}
      BY <1>5 DEF Paid
    <3>2. call[c].surface \in Surfaces /\ effects' = effects
      BY <1>2, <1>3 DEF CallRecord, histories
    <3> QED
      BY <1>1, <2>2, <3>1, <3>2, ChargePays DEF ExecSafe
  <2> QED
    BY <1>1, <2>1, <2>2, AccountShape
<1>7. Survivor'
  <2>1. x = NoCall \/ x.surface = call[c].surface
    BY <1>3, <1>4 DEF CallRecord
  <2> QED
    BY <1>1, <1>2, <1>4, <2>1, GoesOn DEF ExecSafe, world, outcome, histories
<1>8. \A d \in Calls : ReadChecked(d)' /\ AppendHolds(d)'
  <2>1. x = NoCall => ReadChecked(c)' /\ AppendHolds(c)'
    BY <1>5, OverKnowsNothing
  <2>2. ASSUME x = [call[c] EXCEPT !.at = call[c].next]
        PROVE  ReadChecked(c)' /\ AppendHolds(c)'
    <3>1. /\ x.at = call[c].next /\ x.next = call[c].next /\ x.path = call[c].path
          /\ x.number = call[c].number /\ x.verb = call[c].verb /\ x.data = call[c].data
          /\ call[c].next # "read" /\ call[c].next # "charge"
      BY <1>3, <2>2 DEF CallRecord, Entries
    <3>2. ReadChecked(c)'
      BY <1>5, <3>1 DEF ReadChecked
    <3>3. AppendHolds(c)'
      <4>1. AppendHolds(c) /\ files' = files
        BY <1>1, <1>2 DEF ExecSafe
      <4> QED
        BY <1>2, <1>5, <3>1, <4>1 DEF AppendHolds
    <3> QED
      BY <3>2, <3>3
  <2>3. \A f \in Files : MovedOn(f)
    BY <1>2 DEF MovedOn
  <2>4. \A d \in Calls : d # c => ReadChecked(d)' /\ AppendHolds(d)'
    BY <1>1, <1>5, <2>3, StillKnows DEF ExecSafe
  <2> QED
    BY <1>4, <2>1, <2>2, <2>4
<1>9. DeadAreEmpty' /\ LongReadsRaced' /\ ReportedErrorStoppedCode'
  BY <1>1, <1>2 DEF ExecSafe, DeadAreEmpty, LongReadsRaced, ReportedErrorStoppedCode,
                    histories, outcome
<1> QED
  BY <1>6, <1>7, <1>8, <1>9 DEF ExecSafe


(* A size that was looked at is that of the version there was.             *)
LEMMA AskSizeKeeps ==
    ASSUME ExecInv, NEW c \in Calls, Stat(c) \/ AskSize(c)
    PROVE  ExecSafe'
<1>1. ExecTyped /\ ExecSafe
  BY DEF ExecInv
<1>2. /\ call[c].at \in {"stat", "size"} /\ call[c].at # "idle"
      /\ UNCHANGED <<world, files, phase, spent, outcome, histories>>
  BY <1>1, AskSizeShape
<1>3. /\ call[c] \in CallRecord /\ call[c].path \in Files /\ files[call[c].path].number \in Nat
      /\ call[c].data \subseteq Pieces
  BY <1>1, <1>2, FlyingIsRecord
<1> DEFINE read == [call[c] EXCEPT !.at = "read", !.number = files[call[c].path].number]
<1> DEFINE found == [call[c] EXCEPT !.at = "size"]
<1>4. /\ read.at = "read" /\ read.number = files[call[c].path].number
      /\ read.path = call[c].path /\ read.surface = call[c].surface
      /\ found.at = "size" /\ found.surface = call[c].surface
  BY <1>3 DEF CallRecord
<1> HIDE DEF read, found
<1>5. PICK x : /\ call' = [call EXCEPT ![c] = x]
               /\ \/ x = NoCall
                  \/ x = WriteNext(c, {}) /\ files[call[c].path].number = 0
                  \/ x = read /\ ~TooLongToRead(call[c].path)
                  \/ x = found
  BY <1>1, AskSizeShape DEF read, found
<1>6. call'[c] = x /\ \A d \in Calls : d # c => call'[d] = call[d]
  BY <1>1, <1>5, OneCallMoves
<1>7. Budget'
  <2>1. Paid' \subseteq Paid
    BY <1>2, <1>6 DEF Paid
  <2> QED
    BY <1>1, <1>2, <2>1, PaidMayEnd DEF ExecSafe, histories
<1>8. Survivor'
  <2>1. x = NoCall \/ x.surface = call[c].surface
    BY <1>1, <1>2, <1>4, <1>5, WriteNextTyped
  <2> QED
    BY <1>1, <1>2, <1>5, <2>1, GoesOn DEF ExecSafe, world, outcome, histories
<1>9. \A d \in Calls : ReadChecked(d)' /\ AppendHolds(d)'
  <2>1. x = NoCall => ReadChecked(c)' /\ AppendHolds(c)'
    BY <1>6, OverKnowsNothing
  <2>2. x = WriteNext(c, {}) /\ files[call[c].path].number = 0 => ReadChecked(c)' /\ AppendHolds(c)'
    BY <1>1, <1>2, <1>3, <1>6, WriteNextHolds DEF ExecSafe, DeadAreEmpty
  <2>3. x = read /\ ~TooLongToRead(call[c].path) => ReadChecked(c)' /\ AppendHolds(c)'
    BY <1>2, <1>3, <1>4, <1>6 DEF ReadChecked, AppendHolds, TooLongToRead
  <2>4. x = found => ReadChecked(c)' /\ AppendHolds(c)'
    BY <1>4, <1>6 DEF ReadChecked, AppendHolds
  <2>5. \A f \in Files : MovedOn(f)
    BY <1>2 DEF MovedOn
  <2>6. \A d \in Calls : d # c => ReadChecked(d)' /\ AppendHolds(d)'
    BY <1>1, <1>6, <2>5, StillKnows DEF ExecSafe
  <2> QED
    BY <1>5, <2>1, <2>2, <2>3, <2>4, <2>6
<1>10. DeadAreEmpty' /\ LongReadsRaced' /\ ReportedErrorStoppedCode'
  BY <1>1, <1>2 DEF ExecSafe, DeadAreEmpty, LongReadsRaced, ReportedErrorStoppedCode,
                    histories, outcome
<1> QED
  BY <1>7, <1>8, <1>9, <1>10 DEF ExecSafe

(* What is returned is too long only if the file was rewritten meanwhile,  *)
(* and what an append goes on with is all there is.                        *)
LEMMA FetchKeeps ==
    ASSUME ExecInv, NEW c \in Calls, Fetch(c)
    PROVE  ExecSafe'
<1>1. ExecTyped /\ ExecSafe
  BY DEF ExecInv
<1>2. call[c].at = "read" /\ UNCHANGED <<world, files, phase, spent, outcome, effects>>
  BY <1>1, FetchShape
<1>3. /\ call[c] \in CallRecord /\ call[c].path \in Files /\ files[call[c].path].number \in Nat
      /\ call[c].data \subseteq Pieces /\ files[call[c].path].content \in SUBSET Pieces
  BY <1>1, <1>2, FlyingIsRecord DEF File
<1>4. PICK x : /\ call' = [call EXCEPT ![c] = x]
               /\ \/ x = NoCall
                  \/ x = WriteNext(c, {}) /\ files[call[c].path].dead
                  \/ x = WriteNext(c, files[call[c].path].content)
  BY <1>1, FetchShape
<1>5. call'[c] = x /\ \A d \in Calls : d # c => call'[d] = call[d]
  BY <1>1, <1>4, OneCallMoves
<1>6. Budget'
  <2>1. Paid' \subseteq Paid
    BY <1>2, <1>5 DEF Paid
  <2> QED
    BY <1>1, <1>2, <2>1, PaidMayEnd DEF ExecSafe
<1>7. Survivor'
  <2>1. x = NoCall \/ x.surface = call[c].surface
    BY <1>1, <1>2, <1>3, <1>4, WriteNextTyped
  <2> QED
    BY <1>1, <1>2, <1>4, <2>1, GoesOn DEF ExecSafe, world, outcome
<1>8. \A d \in Calls : ReadChecked(d)' /\ AppendHolds(d)'
  <2>1. x = NoCall => ReadChecked(c)' /\ AppendHolds(c)'
    BY <1>5, OverKnowsNothing
  <2>2. x = WriteNext(c, {}) /\ files[call[c].path].dead => ReadChecked(c)' /\ AppendHolds(c)'
    BY <1>1, <1>2, <1>3, <1>5, WriteNextHolds DEF ExecSafe, DeadAreEmpty
  <2>3. x = WriteNext(c, files[call[c].path].content) => ReadChecked(c)' /\ AppendHolds(c)'
    BY <1>1, <1>2, <1>3, <1>5, WriteNextHolds
  <2>4. \A f \in Files : MovedOn(f)
    BY <1>2 DEF MovedOn
  <2>5. \A d \in Calls : d # c => ReadChecked(d)' /\ AppendHolds(d)'
    BY <1>1, <1>5, <2>4, StillKnows DEF ExecSafe
  <2> QED
    BY <1>4, <2>1, <2>2, <2>3, <2>5
<1>9. LongReadsRaced'
  <2>1. CASE returned' = returned
    BY <1>1, <2>1 DEF ExecSafe, LongReadsRaced
  <2>2. CASE /\ returned' = returned \cup
                  {[verb  |-> call[c].verb,
                    over  |-> TooLongToRead(call[c].path),
                    raced |-> files[call[c].path].number # call[c].number]}
             /\ ~(call[c].verb = "cat" /\ TooLongToRead(call[c].path))
    <3> DEFINE r == [verb  |-> call[c].verb,
                     over  |-> TooLongToRead(call[c].path),
                     raced |-> files[call[c].path].number # call[c].number]
    <3>1. call[c].number = files[call[c].path].number => ~TooLongToRead(call[c].path)
      BY <1>1, <1>2 DEF ExecSafe, ReadChecked
    <3>2. /\ r.verb = call[c].verb /\ (r.over <=> TooLongToRead(call[c].path))
          /\ (r.raced <=> files[call[c].path].number # call[c].number)
      OBVIOUS
    <3>3. r.over => r.raced /\ r.verb # "cat"
      BY <2>2, <3>1, <3>2
    <3>4. returned' = returned \cup {r}
      BY <2>2
    <3> HIDE DEF r
    <3> QED
      BY <1>1, <3>3, <3>4 DEF ExecSafe, LongReadsRaced
  <2> QED
    BY <1>1, <2>1, <2>2, FetchShape
<1>10. DeadAreEmpty' /\ ReportedErrorStoppedCode'
  BY <1>1, <1>2 DEF ExecSafe, DeadAreEmpty, ReportedErrorStoppedCode, outcome
<1> QED
  BY <1>6, <1>7, <1>8, <1>9, <1>10 DEF ExecSafe


(* An open for append writes what is there: nothing.                       *)
LEMMA AskExistsKeeps ==
    ASSUME ExecInv, NEW c \in Calls, AskExists(c)
    PROVE  ExecSafe'
<1>1. ExecTyped /\ ExecSafe
  BY DEF ExecInv
<1>2. call[c].at = "exists" /\ UNCHANGED <<world, files, phase, spent, outcome, histories>>
  BY <1>1, AskExistsShape
<1>3. /\ call[c].path \in Files /\ files[call[c].path].number \in Nat
      /\ call[c].data \subseteq Pieces
  BY <1>1, <1>2, FlyingIsRecord
<1>4. PICK x : /\ call' = [call EXCEPT ![c] = x]
               /\ x = NoCall \/ (x = WriteNext(c, {}) /\ files[call[c].path].number = 0)
  BY <1>1, AskExistsShape
<1>5. call'[c] = x /\ \A d \in Calls : d # c => call'[d] = call[d]
  BY <1>1, <1>4, OneCallMoves
<1>6. Budget'
  <2>1. Paid' \subseteq Paid
    BY <1>2, <1>5 DEF Paid
  <2> QED
    BY <1>1, <1>2, <2>1, PaidMayEnd DEF ExecSafe, histories
<1>7. Survivor'
  <2>1. x = NoCall \/ x.surface = call[c].surface
    BY <1>1, <1>2, <1>4, WriteNextTyped
  <2> QED
    BY <1>1, <1>2, <1>4, <2>1, GoesOn DEF ExecSafe, world, outcome, histories
<1>8. \A d \in Calls : ReadChecked(d)' /\ AppendHolds(d)'
  <2>1. x = NoCall => ReadChecked(c)' /\ AppendHolds(c)'
    BY <1>5, OverKnowsNothing
  <2>2. x = WriteNext(c, {}) /\ files[call[c].path].number = 0 => ReadChecked(c)' /\ AppendHolds(c)'
    BY <1>1, <1>2, <1>3, <1>5, WriteNextHolds DEF ExecSafe, DeadAreEmpty
  <2>3. \A f \in Files : MovedOn(f)
    BY <1>2 DEF MovedOn
  <2>4. \A d \in Calls : d # c => ReadChecked(d)' /\ AppendHolds(d)'
    BY <1>1, <1>5, <2>3, StillKnows DEF ExecSafe
  <2> QED
    BY <1>4, <2>1, <2>2, <2>4
<1>9. DeadAreEmpty' /\ LongReadsRaced' /\ ReportedErrorStoppedCode'
  BY <1>1, <1>2 DEF ExecSafe, DeadAreEmpty, LongReadsRaced, ReportedErrorStoppedCode,
                    histories, outcome
<1> QED
  BY <1>6, <1>7, <1>8, <1>9 DEF ExecSafe

(* A version is made by a call that was charged for it and is over; if the *)
(* execution has ended, by the last call of all.                           *)
LEMMA EffectKeeps ==
    ASSUME ExecInv, NEW c \in Calls, Put(c) \/ Remove(c)
    PROVE  ExecSafe'
<1>1. ExecTyped /\ ExecSafe
  BY DEF ExecInv
<1>2. /\ call[c].at \in {"write", "delete"} /\ call' = [call EXCEPT ![c] = NoCall]
      /\ UNCHANGED <<world, phase, spent, outcome, returned>>
  BY <1>1, EffectShape
<1>3. call'[c] = NoCall /\ \A d \in Calls : d # c => call'[d] = call[d]
  BY <1>1, <1>2, OneCallMoves
<1>4. call[c].path \in Files /\ c \in Paid
  BY <1>1, <1>2, FlyingIsRecord DEF Paid
<1>5. Paid' \subseteq Paid \ {c}
  BY <1>3 DEF Paid, NoCall
<1>6. ReadChecked(c)' /\ AppendHolds(c)'
  BY <1>3, OverKnowsNothing
<1>7. LongReadsRaced' /\ ReportedErrorStoppedCode'
  BY <1>1, <1>2 DEF ExecSafe, LongReadsRaced, ReportedErrorStoppedCode, outcome
<1>8. CASE UNCHANGED <<files, effects>>
  <2>1. Budget'
    BY <1>1, <1>2, <1>5, <1>8, PaidMayEnd DEF ExecSafe
  <2>2. Survivor'
    BY <1>1, <1>2, <1>8, GoesOn DEF ExecSafe, world, outcome
  <2>3. \A f \in Files : MovedOn(f)
    BY <1>8 DEF MovedOn
  <2>4. \A d \in Calls : d # c => ReadChecked(d)' /\ AppendHolds(d)'
    BY <1>1, <1>3, <2>3, StillKnows DEF ExecSafe
  <2>5. DeadAreEmpty'
    BY <1>1, <1>8 DEF ExecSafe, DeadAreEmpty
  <2> QED
    BY <1>6, <1>7, <2>1, <2>2, <2>4, <2>5 DEF ExecSafe
<1>9. ASSUME NEW content \in SUBSET Pieces, NEW dead \in BOOLEAN, NEW e,
             dead => content = {}, files' = Changed(call[c].path, content, dead),
             effects' = effects \cup {e}, e.late = Ended
      PROVE  ExecSafe'
  <2>1. Budget'
    BY <1>1, <1>2, <1>4, <1>5, <1>9, EffectIsPaid DEF ExecSafe
  <2>2. \A f \in Files : MovedOn(f)
    BY <1>1, <1>4, <1>9, ChangedMovesOn DEF ExecSafe
  <2>3. DeadAreEmpty'
    BY <1>1, <1>4, <1>9, ChangedMovesOn DEF ExecSafe
  <2>4. \A d \in Calls : d # c => ReadChecked(d)' /\ AppendHolds(d)'
    BY <1>1, <1>3, <2>2, StillKnows DEF ExecSafe
  <2>5. Survivor'
    <3>1. /\ \A d \in Calls : InFlight(d)' => d # c /\ InFlight(d)
          /\ \A d \in Calls : OnMount(d)' => d # c /\ OnMount(d)
          /\ \A d \in Calls : d # c => (OnMount(d)' <=> OnMount(d))
      BY <1>3 DEF InFlight, OnMount, NoCall
    <3>2. Ended' = Ended /\ Ended \in BOOLEAN /\ provider' = provider /\ cause' = cause
      BY <1>2 DEF Ended, world, outcome
    <3>3. InFlight(c) /\ ~(\A d \in Calls : ~InFlight(d))
      BY <1>2 DEF InFlight
    <3>4. \A g \in effects : ~g.late
      BY <1>1, <3>3 DEF ExecSafe, Survivor
    <3>5. (\A d, g \in Calls : OnMount(d) /\ OnMount(g) => d = g)'
      BY <1>1, <3>1 DEF ExecSafe, Survivor
    <3>6. CASE ~Ended
      <4>1. \A g \in effects' : ~g.late
        BY <1>9, <3>4, <3>6
      <4> QED
        BY <3>2, <3>5, <3>6, <4>1 DEF Survivor
    <3>7. CASE Ended
      <4>1. /\ \A d \in Calls : InFlight(d) => OnMount(d) /\ d = c
            /\ provider = "monty" /\ cause = "timeout"
        BY <1>1, <3>3, <3>7 DEF ExecSafe, Survivor
      <4>2. \A d \in Calls : ~InFlight(d)'
        BY <3>1, <4>1
      <4>3. \A g \in effects' : g.late => g = e
        BY <1>9, <3>4
      <4> QED
        BY <3>2, <3>5, <3>7, <4>1, <4>2, <4>3 DEF Survivor
    <3> QED
      BY <3>6, <3>7
  <2> QED
    BY <1>6, <1>7, <2>1, <2>3, <2>4, <2>5 DEF ExecSafe
<1>10. CASE ~UNCHANGED <<files, effects>>
  <2>1. PICK content \in SUBSET Pieces, dead \in BOOLEAN :
             /\ dead => content = {}
             /\ files' = Changed(call[c].path, content, dead)
             /\ effects' = effects \cup
                   {[path |-> call[c].path, number |-> files[call[c].path].number + 1,
                     late |-> Ended]}
    BY <1>1, <1>10, EffectShape
  <2> DEFINE e == [path |-> call[c].path, number |-> files[call[c].path].number + 1, late |-> Ended]
  <2>2. e.late = Ended
    OBVIOUS
  <2>3. effects' = effects \cup {e}
    BY <2>1
  <2> HIDE DEF e
  <2> QED
    BY <1>9, <2>1, <2>2, <2>3
<1> QED
  BY <1>8, <1>10


----------------------------------------------------------------------------
(* The end, and the other clients.                                         *)

(* The end leaves at most the call that is on the mount.                   *)
LEMMA FinishKeeps ==
    ASSUME ExecInv, CodeReturns \/ Timeout \/ \E e \in raised \cup {Own} : CodeFails(e)
    PROVE  ExecSafe'
<1>1. ExecTyped /\ ExecSafe
  BY DEF ExecInv
<1>2. /\ phase = "running" /\ phase' = "ended"
      /\ UNCHANGED <<world, files, spent, sink, raised, histories>>
      /\ \A c \in Calls :
           \/ call'[c] = NoCall
           \/ /\ call'[c] = call[c] /\ provider = "monty"
              /\ OnMount(c) /\ cause' = "timeout"
      /\ ReportedErrorStoppedCode'
  BY <1>1, FinishShape
<1>3. Budget'
  <2>1. Paid' \subseteq Paid
    BY <1>2 DEF Paid, NoCall
  <2> QED
    BY <1>1, <1>2, <2>1, PaidMayEnd DEF ExecSafe, histories
<1>4. Survivor'
  <2>1. /\ \A c \in Calls : InFlight(c)' => /\ OnMount(c)' /\ OnMount(c)
                                            /\ provider = "monty" /\ cause' = "timeout"
        /\ \A c \in Calls : OnMount(c)' => InFlight(c)'
    BY <1>2 DEF InFlight, OnMount, NoCall
  <2>2. provider' = provider /\ Ended' /\ \A e \in effects' : ~e.late
    BY <1>1, <1>2 DEF Ended, ExecSafe, Survivor, world, histories
  <2>3. (\A c, d \in Calls : OnMount(c) /\ OnMount(d) => c = d)'
    BY <1>1, <2>1 DEF ExecSafe, Survivor
  <2> QED
    BY <2>1, <2>2, <2>3 DEF Survivor
<1>5. \A c \in Calls : ReadChecked(c)' /\ AppendHolds(c)'
  <2>1. \A f \in Files : MovedOn(f)
    BY <1>2 DEF MovedOn
  <2> QED
    BY <1>1, <1>2, <2>1, StillKnows, OverKnowsNothing DEF ExecSafe
<1>6. DeadAreEmpty' /\ LongReadsRaced'
  BY <1>1, <1>2 DEF ExecSafe, DeadAreEmpty, LongReadsRaced, histories
<1> QED
  BY <1>2, <1>3, <1>4, <1>5, <1>6 DEF ExecSafe

(* Another client adds a version.                                          *)
LEMMA OutsideKeeps ==
    ASSUME ExecInv, NEW f \in Files,
           OutsideDelete(f) \/ \E content \in Others : OutsideWrite(f, content)
    PROVE  ExecSafe'
<1>1. ExecTyped /\ ExecSafe
  BY DEF ExecInv
<1>2. /\ UNCHANGED <<world, phase, call, spent, sink, raised, outcome, histories>>
      /\ \E content \in SUBSET Pieces, dead \in BOOLEAN :
            (dead => content = {}) /\ files' = Changed(f, content, dead)
  BY <1>1, OutsideShape
<1>3. DeadAreEmpty' /\ \A g \in Files : MovedOn(g)
  BY <1>1, <1>2, ChangedMovesOn DEF ExecSafe
<1>4. Budget'
  BY <1>1, <1>2, PaidMayEnd DEF ExecSafe, histories, Paid
<1>5. Survivor'
  BY <1>1, <1>2, SurvivorStays DEF ExecSafe, world, outcome, histories, InFlight, OnMount
<1>6. \A c \in Calls : ReadChecked(c)' /\ AppendHolds(c)'
  BY <1>1, <1>2, <1>3, StillKnows DEF ExecSafe
<1>7. LongReadsRaced' /\ ReportedErrorStoppedCode'
  BY <1>1, <1>2 DEF ExecSafe, LongReadsRaced, ReportedErrorStoppedCode, histories, outcome
<1> QED
  BY <1>3, <1>4, <1>5, <1>6, <1>7 DEF ExecSafe

(* The steps that only advance the execution, and those that do nothing.   *)
LEMMA AdvanceKeeps ==
    ASSUME ExecInv,
           CheckExecute \/ ResolveProvider \/ EnterCwd \/ RecordExecution \/ UNCHANGED vars
    PROVE  ExecSafe'
<1>1. ExecTyped /\ ExecSafe
  BY DEF ExecInv
<1>2. /\ UNCHANGED <<world, files, call, spent, sink, raised, outcome, histories>>
      /\ Ended' <=> Ended
  BY <1>1, AdvanceShape DEF vars, Ended
<1>3. Budget'
  BY <1>1, <1>2, PaidMayEnd DEF ExecSafe, histories, Paid
<1>4. Survivor'
  BY <1>1, <1>2 DEF ExecSafe, Survivor, world, outcome, histories, InFlight, OnMount
<1>5. \A c \in Calls : ReadChecked(c)' /\ AppendHolds(c)'
  BY <1>1, <1>2, StillKnows DEF ExecSafe, MovedOn
<1>6. DeadAreEmpty' /\ LongReadsRaced' /\ ReportedErrorStoppedCode'
  BY <1>1, <1>2 DEF ExecSafe, DeadAreEmpty, LongReadsRaced, ReportedErrorStoppedCode,
                    histories, outcome
<1> QED
  BY <1>3, <1>4, <1>5, <1>6 DEF ExecSafe

(* Every step keeps the invariant.                                         *)
LEMMA ExecStep == ExecInv /\ [Next]_vars => ExecInv'
<1> SUFFICES ASSUME ExecInv, [Next]_vars PROVE ExecInv'
  OBVIOUS
<1>1. ExecTyped'
  BY ExecTypedStep DEF ExecInv
<1>2. ASSUME NEW c \in Calls, CallStep(c) PROVE ExecSafe'
  BY <1>2, BeginKeeps, AccountKeeps, AskSizeKeeps, FetchKeeps, AskExistsKeeps, EffectKeeps
     DEF CallStep
<1>3. ASSUME NEW f \in Files, OutsideDelete(f) \/ \E content \in Others : OutsideWrite(f, content)
      PROVE  ExecSafe'
  BY <1>3, OutsideKeeps
<1>4. ExecSafe'
  BY <1>2, <1>3, FinishKeeps, AdvanceKeeps DEF Next
<1> QED
  BY <1>1, <1>4 DEF ExecInv


(* Nothing has been charged, made or returned when the execution is asked. *)
LEMMA ExecInit == Init => ExecInv
<1> SUFFICES ASSUME Init PROVE ExecInv
  OBVIOUS
<1>1. \A c \in Calls : call[c] = NoCall /\ call[c].at = "idle"
  BY DEF Init, NoCall
<1>2. ExecTyped
  BY ExecutionAssumption DEF Init, ExecTyped
<1>3. Budget
  <2>1. Paid = {} /\ effects = {}
    BY <1>1 DEF Init, Paid
  <2>2. spent["injected"] = 0 /\ spent["mount"] = 0 /\ MaxOperations \in Nat
    BY ExecutionAssumption DEF Init, Surfaces, Verbs
  <2>3. IsFiniteSet({}) /\ Cardinality({}) = 0
    BY FS_EmptySet
  <2> QED
    BY <2>1, <2>2, <2>3 DEF Budget
<1>4. Survivor
  BY <1>1 DEF Init, Survivor, OnMount, InFlight, Ended
<1>5. DeadAreEmpty
  BY StartsAssumption DEF Init, DeadAreEmpty
<1>6. \A c \in Calls : ReadChecked(c) /\ AppendHolds(c)
  BY <1>1 DEF ReadChecked, AppendHolds
<1>7. LongReadsRaced /\ ReportedErrorStoppedCode
  BY DEF Init, LongReadsRaced, ReportedErrorStoppedCode, Unfinished, Translate, ErrorKinds
<1> QED
  BY <1>2, <1>3, <1>4, <1>5, <1>6, <1>7 DEF ExecInv, ExecSafe

(* The invariant of an execution.                                          *)
THEOREM ExecInvariance == Spec => []ExecInv
BY ExecInit, ExecStep, PTL DEF Spec

(* Whatever the code does, on whichever surface, in any interleaving and   *)
(* even after its end, it makes no more versions than max_operations.      *)
THEOREM BudgetHolds == Spec => []BudgetBoundsEffects
<1>1. ExecInv => BudgetBoundsEffects
  <2> SUFFICES ASSUME ExecInv PROVE BudgetBoundsEffects
    OBVIOUS
  <2>1. ExecTyped /\ Budget
    BY DEF ExecInv, ExecSafe
  <2>2. {Cardinality(effects), Cardinality(Paid), MaxOperations,
         spent["injected"], spent["mount"]} \subseteq Nat
    BY <2>1, FS_CardinalityType, ExecutionAssumption DEF Budget, ExecTyped, Surfaces, Verbs
  <2> QED
    BY <2>1, <2>2 DEF Budget, BudgetBoundsEffects
<1> QED
  BY <1>1, ExecInvariance, PTL

(* The mount's read returns more than max_read_bytes only when the file    *)
(* was rewritten after its size was checked, and cat never does.           *)
THEOREM LongReadsAreRaces == Spec => []LongReadsRaced
<1>1. ExecInv => LongReadsRaced
  BY DEF ExecInv, ExecSafe
<1> QED
  BY <1>1, ExecInvariance, PTL

(* The VFS error an execution reports is of the kind its code ended with.  *)
THEOREM ReportsWhatStoppedIt == Spec => []ReportedErrorStoppedCode
<1>1. ExecInv => ReportedErrorStoppedCode
  BY DEF ExecInv, ExecSafe
<1> QED
  BY <1>1, ExecInvariance, PTL

(* After the end there is at most one more version, of the mount call of   *)
(* Monty that a timeout overtook.                                          *)
THEOREM LateEffectsAreTimeouts == Spec => []LateEffectMeansTimeout
<1>1. ExecInv => LateEffectMeansTimeout
  BY DEF ExecInv, ExecSafe, Survivor, LateEffectMeansTimeout
<1> QED
  BY <1>1, ExecInvariance, PTL

(* An append keeps the content of the version it has read: the write that  *)
(* ends it replaces that version only with more.                           *)
THEOREM AppendsKeepWhatTheyRead == Spec => AppendDropsOnlyRaced
<1> DEFINE Keeps ==
      \A c \in Calls :
          call[c] # NoCall /\ call[c].verb = "append" /\ call[c].at = "write"
          /\ files'[call[c].path] # files[call[c].path] /\ call'[c] = NoCall
          => LET old == files[call[c].path]
             IN  old.number = call[c].number => old.content \subseteq files'[call[c].path].content
<1>1. ExecInv /\ [Next]_vars => Keeps
  <2> SUFFICES ASSUME ExecInv, [Next]_vars, NEW c \in Calls,
                      call[c].verb = "append", call[c].at = "write",
                      files'[call[c].path] # files[call[c].path], call'[c] = NoCall,
                      files[call[c].path].number = call[c].number
               PROVE  files[call[c].path].content \subseteq files'[call[c].path].content
    OBVIOUS
  <2>1. ExecTyped /\ AppendHolds(c)
    BY DEF ExecInv, ExecSafe
  <2>2. call'[c] # call[c] /\ files' # files
    BY DEF NoCall
  <2>3. Put(c) \/ Remove(c)
    <3>1. ~UNCHANGED vars /\ ~(\E f \in Files : OutsideDelete(f)
                                  \/ \E content \in Others : OutsideWrite(f, content))
      BY <2>1, <2>2, OutsideShape DEF vars
    <3>2. ~(CodeReturns \/ Timeout \/ \E e \in raised \cup {Own} : CodeFails(e))
      BY <2>1, <2>2, FinishShape
    <3>3. ~(CheckExecute \/ ResolveProvider \/ EnterCwd \/ RecordExecution)
      BY <2>1, <2>2, AdvanceShape
    <3>4. PICK d \in Calls : CallStep(d)
      BY <3>1, <3>2, <3>3 DEF Next
    <3>5. Put(d) \/ Remove(d)
      BY <2>1, <2>2, <3>4, BeginShape, AccountShape, AskSizeShape, FetchShape, AskExistsShape
         DEF CallStep
    <3>6. d = c
      BY <2>1, <2>2, <3>5, EffectShape, OneCallMoves
    <3> QED
      BY <3>5, <3>6
  <2>4. PICK content \in SUBSET Pieces, dead \in BOOLEAN :
          content = call[c].data /\ files' = Changed(call[c].path, content, dead)
    BY <2>1, <2>2, <2>3, EffectShape
  <2>5. files'[call[c].path].content = call[c].data
    BY <2>1, <2>4, FlyingIsRecord, ChangedTyped
  <2> QED
    BY <2>1, <2>5 DEF AppendHolds
<1> QED
  BY <1>1, ExecInvariance, PTL DEF Spec, AppendDropsOnlyRaced
=============================================================================
