----------------------------- MODULE VfsProofs -----------------------------
(***************************************************************************)
(* Safety of Vfs for every set of requests, calls, paths and contents and  *)
(* every retry limit.                                                      *)
(*                                                                         *)
(* The tables only grow (no collection here), so everything follows from   *)
(* what a request knows between its get_file and its commit: the pointer   *)
(* it read is at most the present one (SeenIsPast), so a version number    *)
(* that is still free can only be the one right after the present pointer  *)
(* (NextFree), and inserting it keeps the tables in agreement.             *)
(***************************************************************************)
EXTENDS VfsHistory, TLAPS

(* What a request has read is not ahead of the tables, and a version it    *)
(* has been given is in them.                                              *)
SeenIsPast(r) ==
    /\ pc[r] \in {"getfile", "commit"} /\ call[r].kind = "move"
        => seen[r].from <= files[call[r].from].number
    /\ pc[r] = "commit" =>
        /\ last[r] # 0
        /\ call[r].kind # "move" \/ ~skip[r] =>
            /\ last[r] = seen[r].path + 1
            /\ seen[r].path <= files[call[r].path].number

(* Which kinds of request reach a step.                                    *)
KindAt(r) ==
    /\ pc[r] = "putblob" => call[r].kind = "write"
    /\ pc[r] = "getsrc"  => call[r].kind \in {"copy", "move", "rollback", "read", "reindex"}
    /\ pc[r] = "getfrom" => call[r].kind = "move"
    /\ pc[r] = "getblob" => call[r].kind \in {"read", "reindex"}

CountsAttempts(r) ==
    /\ pc[r] \in Running => tries[r] < MaxWriteRetries
    /\ call[r].kind # "move" =>
        /\ first[r] + tries[r] <= files[call[r].path].number
        /\ pc[r] = "commit" => first[r] + tries[r] <= seen[r].path

HasItsVersion(r) ==
    /\ won[r] # 0 => pc[r] \in {"audit", "done", "crashed"}
    /\ won[r] # 0 /\ call[r].kind # "move" =>
        /\ won[r] = last[r]
        /\ NewVersion(r) \in versions
        /\ Expected(r) # NoCas => won[r] = Expected(r) + 1

OwnVersions ==
    \A r, s \in Requests :
        /\ r # s
        /\ won[r] # 0 /\ won[s] # 0
        /\ call[r].kind # "move" /\ call[s].kind # "move"
        /\ call[r].path = call[s].path
        => won[r] # won[s]

RequestInv(r) == KindAt(r) /\ SeenIsPast(r) /\ CountsAttempts(r) /\ HasItsVersion(r)

(* What a request knows without looking at the tables.                     *)
Sound(r) ==
    /\ KindAt(r)
    /\ pc[r] = "commit" => last[r] # 0
    /\ pc[r] \in Running => tries[r] < MaxWriteRetries

SoundlyTyped == TypeOK /\ \A r \in Requests : Sound(r)

IInv ==
    /\ TypeOK
    /\ PointerIsLatest
    /\ \A r \in Requests : RequestInv(r)
    /\ OwnVersions

----------------------------------------------------------------------------
(* Facts about the tables.                                                 *)

(* A free number that is not beyond the next one is the next one.          *)
LEMMA NextFree ==
    ASSUME NEW f \in [Paths -> Pointer], NEW rows, Agree(f, rows),
           NEW p \in Paths, NEW n \in Nat \ {0},
           n <= f[p].number + 1, ~Taken(rows, p, n)
    PROVE  n = f[p].number + 1
BY DEF Agree, Pointer

(* Inserting the next version of a path and moving its pointer there keeps *)
(* the tables in agreement.                                                *)
LEMMA PutKeepsAgreement ==
    ASSUME NEW f \in [Paths -> Pointer], NEW rows \in SUBSET Version, Agree(f, rows),
           NEW v \in Version, v.number = f[v.path].number + 1
    PROVE  /\ Agree([f EXCEPT ![v.path] = PointerTo(v)], rows \cup {v})
           /\ [f EXCEPT ![v.path] = PointerTo(v)] \in [Paths -> Pointer]
<1> DEFINE g == [f EXCEPT ![v.path] = PointerTo(v)]
           new == rows \cup {v}
<1>1. g \in [Paths -> Pointer]
  BY DEF PointerTo, Pointer, Version
<1>2. v.path \in Paths /\ v.number \in Nat /\ g[v.path] = PointerTo(v) /\ g[v.path].number = v.number
  BY DEF PointerTo, Version
<1>3. \A p \in Paths : p # v.path => g[p] = f[p]
  OBVIOUS
<1>4. \A w \in rows : w.path = v.path => w.number < v.number
  BY DEF Agree, Version, Pointer
<1>5. \A w, x \in new : w.path = x.path /\ w.number = x.number => w = x
  BY <1>4 DEF Agree, Version
<1>6. \A w \in new : /\ w.number <= g[w.path].number
                     /\ w.number = g[w.path].number => g[w.path] = PointerTo(w)
  <2> SUFFICES ASSUME NEW w \in new
               PROVE  /\ w.number <= g[w.path].number
                      /\ w.number = g[w.path].number => g[w.path] = PointerTo(w)
    OBVIOUS
  <2>1. CASE w = v
    BY <2>1, <1>2
  <2>2. CASE w \in rows /\ w.path = v.path
    BY <2>2, <1>2, <1>4 DEF Version
  <2>3. CASE w \in rows /\ w.path # v.path
    BY <2>3, <1>3 DEF Agree, Version
  <2> QED
    BY <2>1, <2>2, <2>3
<1>7. \A p \in Paths : \A n \in 1 .. g[p].number : Taken(new, p, n)
  <2> SUFFICES ASSUME NEW p \in Paths, NEW n \in 1 .. g[p].number
               PROVE  Taken(new, p, n)
    OBVIOUS
  <2>1. CASE p = v.path /\ n = v.number
    BY <2>1 DEF Taken
  <2>2. CASE p = v.path /\ n # v.number
    <3>1. n \in 1 .. f[p].number
      BY <2>2, <1>2 DEF Pointer
    <3> QED
      BY <3>1 DEF Agree, Taken
  <2>3. CASE p # v.path
    BY <2>3, <1>3 DEF Agree, Taken
  <2> QED
    BY <2>1, <2>2, <2>3
<1> QED
  BY <1>1, <1>5, <1>6, <1>7 DEF Agree

----------------------------------------------------------------------------
(* The steps.                                                              *)

(* The state in which the requests arrive: no request has read or written  *)
(* anything, and the tables are those of InitAssumption.                   *)
LEMMA InitSatisfies == Init => IInv
<1> SUFFICES ASSUME Init PROVE IInv
  OBVIOUS
<1> USE InitAssumption, CallAssumption, HashAssumption, RetryAssumption
<1>1. TypeOK
  <2>1. \A r \in Requests : call[r] \in Call /\ pc[r] \in Locations
    BY DEF Init, Call, Kinds, FirstStep, Locations, Running
  <2>2. blobs \subseteq Hashes /\ text \subseteq TextHashes
    BY DEF Init, Version
  <2>3. pc \in [Requests -> Locations]
    BY <2>1 DEF Init
  <2> QED
    BY <2>2, <2>3 DEF Init, TypeOK
<1>2. PointerIsLatest
  BY DEF Init, PointerIsLatest
<1>3. \A r \in Requests : RequestInv(r)
  <2> SUFFICES ASSUME NEW r \in Requests PROVE RequestInv(r)
    OBVIOUS
  <2>1. pc[r] \notin {"commit", "getfile"} \/ call[r].kind # "move"
    BY DEF Init, FirstStep
  <2>2. pc[r] # "commit" /\ won[r] = 0 /\ first[r] = 0 /\ tries[r] = 0
    BY DEF Init, FirstStep
  <2>3. files[call[r].path].number \in Nat
    BY DEF Init, Call, Pointer
  <2>4. KindAt(r)
    BY CallAssumption DEF Init, KindAt, FirstStep, Call, Kinds
  <2> QED
    BY <2>1, <2>2, <2>3, <2>4 DEF RequestInv, SeenIsPast, CountsAttempts, HasItsVersion
<1>4. OwnVersions
  BY DEF Init, OwnVersions
<1> QED
  BY <1>1, <1>2, <1>3, <1>4 DEF IInv

(* The version a request commits is a row of the versions table.           *)
LEMMA NewVersionType ==
    ASSUME TypeOK, NEW r \in Requests, last[r] # 0
    PROVE  NewVersion(r) \in Version
<1>1. call[r] \in Call /\ src[r] \in Version \cup {NoVersion} /\ last[r] \in Nat \ {0}
  BY CallAssumption DEF TypeOK
<1>2. src[r].hash \in Hashes \cup {Empty}
  BY <1>1 DEF Version, NoVersion
<1> QED
  BY <1>1, <1>2 DEF NewVersion, Version, Call

(* The tombstone move writes at src is a row of the versions table.        *)
LEMMA MoveTombstoneType ==
    ASSUME TypeOK, NEW r \in Requests
    PROVE  MoveTombstone(r) \in Version
BY CallAssumption DEF TypeOK, MoveTombstone, Version, Call

(* The invariant below implies this part of it.                            *)
LEMMA InvariantIsSound == IInv => SoundlyTyped
BY DEF IInv, RequestInv, SeenIsPast, CountsAttempts, SoundlyTyped, Sound

(* No step of a coroutine, and no crash, takes a variable out of its type. *)
LEMMA TypeStep == SoundlyTyped /\ [Next]_vars => TypeOK'
<1> SUFFICES ASSUME SoundlyTyped, [Next]_vars PROVE TypeOK'
  OBVIOUS
<1> USE CallAssumption, HashAssumption, RetryAssumption
<1>0. TypeOK /\ \A r \in Requests : Sound(r)
  BY DEF SoundlyTyped
<1>1. ASSUME NEW r \in Requests, PutBlob(r) PROVE TypeOK'
  BY <1>0, <1>1 DEF PutBlob, TypeOK, Goto, Locations, Running, Call
<1>2. ASSUME NEW r \in Requests, GetSource(r) PROVE TypeOK'
  <2>1. AfterSource(r) \in Locations
    <3>1. call[r].kind \in {"copy", "move", "rollback", "read", "reindex"}
      BY <1>0, <1>2 DEF GetSource, Sound, KindAt
    <3> QED
      BY <3>1 DEF AfterSource, Locations, Running
  <2> QED
    BY <2>1, <1>0, <1>2 DEF GetSource, TypeOK, Goto, stores, Acceptable
<1>3. ASSUME NEW r \in Requests, SourceMissing(r) PROVE TypeOK'
  BY <1>0, <1>3 DEF SourceMissing, TypeOK, Goto, stores, Locations, Terminal, Failures
<1>4. ASSUME NEW r \in Requests, GetFrom(r) PROVE TypeOK'
  <2>1. files[call[r].from].number \in Nat
    BY <1>0 DEF TypeOK, Call, Pointer
  <2> QED
    BY <2>1, <1>0, <1>4 DEF GetFrom, TypeOK, Goto, stores, Locations, Running
<1>5. ASSUME NEW r \in Requests, GetFile(r) PROVE TypeOK'
  <2>1. files[call[r].path].number \in Nat /\ DstCommitted(r) \in BOOLEAN
    BY <1>0 DEF TypeOK, Call, Pointer, DstCommitted
  <2> QED
    BY <2>1, <1>0, <1>5 DEF GetFile, TypeOK, Goto, stores, Locations, Running
<1>6. ASSUME NEW r \in Requests, NothingToDelete(r) PROVE TypeOK'
  BY <1>0, <1>6 DEF NothingToDelete, TypeOK, Goto, stores, Locations, Terminal, Failures
<1>7. ASSUME NEW r \in Requests, Commit(r) PROVE TypeOK'
  <2>1. last[r] # 0
    BY <1>0, <1>7 DEF Sound, Commit
  <2>2. NewVersion(r) \in Version
    BY <2>1, <1>0, NewVersionType
  <2>3. PointerTo(NewVersion(r)) \in Pointer /\ NewVersion(r).path \in Paths
    BY <2>2 DEF PointerTo, Pointer, Version
  <2>4. text' \subseteq TextHashes /\ NewVersion(r).number \in Nat
    BY <2>2, <1>0, <1>7 DEF Commit, TypeOK, Version
  <2> QED
    BY <2>2, <2>3, <2>4, <1>0, <1>7 DEF Commit, TypeOK, Goto, Locations, Running
<1>8. ASSUME NEW r \in Requests, MoveCommit(r) PROVE TypeOK'
  <2>1. last[r] # 0
    BY <1>0, <1>8 DEF Sound, MoveCommit
  <2>2. NewVersion(r) \in Version /\ MoveTombstone(r) \in Version
    BY <2>1, <1>0, NewVersionType, MoveTombstoneType
  <2>3. /\ PointerTo(NewVersion(r)) \in Pointer
        /\ PointerTo(MoveTombstone(r)) \in Pointer
        /\ NewVersion(r).number \in Nat
    BY <2>2 DEF PointerTo, Pointer, Version
  <2> QED
    BY <2>2, <2>3, <1>0, <1>8 DEF MoveCommit, TypeOK, Goto, Locations, Running
<1>9. ASSUME NEW r \in Requests, MoveFinish(r) PROVE TypeOK'
  <2>1. MoveTombstone(r) \in Version
    BY <1>0, MoveTombstoneType
  <2>2. PointerTo(MoveTombstone(r)) \in Pointer
    BY <2>1 DEF PointerTo, Pointer, Version
  <2> QED
    BY <2>1, <2>2, <1>0, <1>9 DEF MoveFinish, TypeOK, Goto, Locations, Running
<1>10. ASSUME NEW r \in Requests, CasConflict(r) PROVE TypeOK'
  BY <1>0, <1>10 DEF CasConflict, TypeOK, Goto, stores, Locations, Terminal, Failures
<1>11. ASSUME NEW r \in Requests, Collide(r) PROVE TypeOK'
  <2>1. tries[r] + 1 \in 0 .. MaxWriteRetries
    BY <1>0, <1>11 DEF Sound, Collide, TypeOK, Running
  <2>2. pc' \in [Requests -> Locations]
    BY <1>0, <1>11 DEF Collide, TypeOK, Goto, Locations, Running, Terminal, Failures, Retries
  <2> QED
    BY <2>1, <2>2, <1>0, <1>11 DEF Collide, TypeOK, stores
<1>12. ASSUME NEW r \in Requests, Audit(r) PROVE TypeOK'
  <2>1. Event(r) \in AuditEvent
    BY <1>0 DEF TypeOK, Event, AuditEvent, Call
  <2> QED
    BY <2>1, <1>0, <1>12 DEF Audit, TypeOK, Goto, Locations, Terminal
<1>13. ASSUME NEW r \in Requests, GetBlob(r) PROVE TypeOK'
  <2>1. pc' \in [Requests -> Locations]
    <3>1. call[r].kind \in {"read", "reindex"}
      BY <1>0, <1>13 DEF GetBlob, Sound, KindAt
    <3> QED
      BY <3>1, <1>0, <1>13 DEF GetBlob, TypeOK, Goto, Locations, Running, Terminal, Failures
  <2> QED
    BY <2>1, <1>0, <1>13 DEF GetBlob, TypeOK, stores
<1>14. ASSUME NEW r \in Requests, Index(r) PROVE TypeOK'
  BY <1>0, <1>14 DEF Index, TypeOK, Goto, Locations, Terminal
<1>15. ASSUME NEW r \in Requests, Crash(r) PROVE TypeOK'
  BY <1>0, <1>15 DEF Crash, TypeOK, Goto, stores, Locations, Terminal
<1>16. CASE UNCHANGED vars
  BY <1>0, <1>16 DEF TypeOK, vars, stores, locals
<1> QED
  BY <1>1, <1>2, <1>3, <1>4, <1>5, <1>6, <1>7, <1>8, <1>9, <1>10, <1>11, <1>12,
     <1>13, <1>14, <1>15, <1>16 DEF Next, Step

(* A step of r changes nothing of another request.                         *)
OthersKept(r) ==
    /\ call' = call
    /\ \A s \in Requests \ {r} :
        /\ pc'[s] = pc[s] /\ src'[s] = src[s] /\ seen'[s] = seen[s]
        /\ last'[s] = last[s] /\ skip'[s] = skip[s] /\ tries'[s] = tries[s]
        /\ won'[s] = won[s] /\ first'[s] = first[s]

(* A step changes no local variable of another request.                    *)
LEMMA StepIsLocal ==
    ASSUME TypeOK, NEW r \in Requests, Step(r) \/ Crash(r)
    PROVE  OthersKept(r)
<1> USE DEF TypeOK, OthersKept, Goto, stores
<1>1. CASE PutBlob(r)
  BY <1>1 DEF PutBlob
<1>2. CASE GetSource(r)
  BY <1>2 DEF GetSource
<1>3. CASE SourceMissing(r)
  BY <1>3 DEF SourceMissing
<1>4. CASE GetFrom(r)
  BY <1>4 DEF GetFrom
<1>5. CASE GetFile(r)
  BY <1>5 DEF GetFile
<1>6. CASE NothingToDelete(r)
  BY <1>6 DEF NothingToDelete
<1>7. CASE Commit(r)
  BY <1>7 DEF Commit
<1>8. CASE MoveCommit(r)
  BY <1>8 DEF MoveCommit
<1>9. CASE MoveFinish(r)
  BY <1>9 DEF MoveFinish
<1>10. CASE CasConflict(r)
  BY <1>10 DEF CasConflict
<1>11. CASE Collide(r)
  BY <1>11 DEF Collide
<1>12. CASE Audit(r)
  BY <1>12 DEF Audit
<1>13. CASE GetBlob(r)
  BY <1>13 DEF GetBlob
<1>14. CASE Index(r)
  BY <1>14 DEF Index
<1>15. CASE Crash(r)
  BY <1>15 DEF Crash
<1> QED
  BY <1>1, <1>2, <1>3, <1>4, <1>5, <1>6, <1>7, <1>8, <1>9, <1>10, <1>11, <1>12,
     <1>13, <1>14, <1>15 DEF Step

(* Each step leaves its request sound, and the others as they were.        *)
LEMMA SoundStep == SoundlyTyped /\ [Next]_vars => SoundlyTyped'
<1> SUFFICES ASSUME SoundlyTyped, [Next]_vars PROVE SoundlyTyped'
  OBVIOUS
<1> USE RetryAssumption
<1>1. TypeOK /\ TypeOK' /\ \A r \in Requests : Sound(r)
  BY TypeStep DEF SoundlyTyped
<1>2. ASSUME NEW r \in Requests, NEW s \in Requests \ {r}, Step(r) \/ Crash(r) PROVE Sound(s)'
  BY <1>1, <1>2, StepIsLocal DEF OthersKept, Sound, KindAt
<1>3. ASSUME NEW r \in Requests, Step(r) \/ Crash(r) PROVE Sound(r)'
  <2> USE <1>1 DEF Sound, KindAt, Goto, TypeOK, Running, stores
  <2>0. call[r].kind \in Kinds /\ files[call[r].path].number \in Nat
    BY CallAssumption DEF Call, Pointer
  <2>1. CASE PutBlob(r) \/ SourceMissing(r) \/ GetFrom(r)
    BY <2>1 DEF PutBlob, SourceMissing, GetFrom
  <2>2. CASE GetSource(r)
    BY <2>2 DEF GetSource, AfterSource
  <2>3. CASE GetFile(r)
    BY <2>0, <2>3 DEF GetFile, DstCommitted
  <2>4. CASE NothingToDelete(r) \/ CasConflict(r)
    BY <2>4 DEF NothingToDelete, CasConflict
  <2>5. CASE Commit(r) \/ MoveCommit(r) \/ MoveFinish(r)
    BY <2>5 DEF Commit, MoveCommit, MoveFinish
  <2>6. CASE Collide(r)
    <3>1. tries'[r] = tries[r] + 1 /\ call' = call /\ tries[r] \in Nat
      BY <2>6 DEF Collide
    <3>2. pc'[r] \in Running =>
              /\ tries'[r] < MaxWriteRetries
              /\ pc'[r] = IF call[r].kind = "move" THEN "getfrom" ELSE "getfile"
      BY <2>6, <3>1 DEF Collide, Retries
    <3> QED
      BY <3>1, <3>2
  <2>7. CASE Audit(r) \/ Index(r) \/ Crash(r)
    BY <2>7 DEF Audit, Index, Crash
  <2>8. CASE GetBlob(r)
    BY <2>8 DEF GetBlob
  <2> QED
    BY <1>3, <2>1, <2>2, <2>3, <2>4, <2>5, <2>6, <2>7, <2>8 DEF Step
<1>4. CASE UNCHANGED vars
  BY <1>1, <1>4 DEF vars, locals, Sound, KindAt, SoundlyTyped
<1> QED
  BY <1>1, <1>2, <1>3, <1>4 DEF SoundlyTyped, Next

(* A committing request holds the number right after the pointer.          *)
LEMMA CommitsNext ==
    ASSUME IInv, NEW r \in Requests, pc[r] = "commit",
           call[r].kind # "move" \/ ~skip[r],
           ~Taken(versions, call[r].path, last[r])
    PROVE  last[r] = files[call[r].path].number + 1
<1>1. TypeOK /\ Agree(files, versions) /\ RequestInv(r)
  BY DEF IInv, PointerIsLatest
<1>2. /\ last[r] = seen[r].path + 1
      /\ seen[r].path <= files[call[r].path].number
  BY <1>1 DEF RequestInv, SeenIsPast
<1>3. call[r].path \in Paths /\ files[call[r].path].number \in Nat /\ seen[r].path \in Nat
  BY <1>1, CallAssumption DEF TypeOK, Call, Pointer
<1> QED
  BY <1>1, <1>2, <1>3, NextFree DEF TypeOK

(* No step removes a version, moves a pointer back or parts the tables.    *)
LEMMA TablesGrow ==
    IInv /\ [Next]_vars =>
        /\ PointerIsLatest'
        /\ versions \subseteq versions'
        /\ \A p \in Paths : files[p].number <= files'[p].number
<1> DEFINE Goal == /\ PointerIsLatest'
                   /\ versions \subseteq versions'
                   /\ \A p \in Paths : files[p].number <= files'[p].number
<1> SUFFICES ASSUME IInv, [Next]_vars PROVE Goal
  OBVIOUS
<1> USE CallAssumption
<1>0. /\ TypeOK /\ Agree(files, versions)
      /\ files \in [Paths -> Pointer] /\ versions \in SUBSET Version
      /\ \A r \in Requests : RequestInv(r)
      /\ \A p \in Paths : files[p].number \in Nat
  BY DEF IInv, PointerIsLatest, TypeOK, Pointer
<1>1. ASSUME UNCHANGED <<files, versions>> PROVE Goal
  BY <1>0, <1>1 DEF PointerIsLatest
<1>2. ASSUME NEW r \in Requests, Commit(r) PROVE Goal
  <2> DEFINE v == NewVersion(r)
  <2>1. v \in Version /\ v.path = call[r].path /\ v.number = last[r]
    BY <1>0, <1>2, NewVersionType DEF Commit, RequestInv, SeenIsPast, NewVersion
  <2>2. v.number = files[v.path].number + 1
    BY <2>1, <1>2, CommitsNext DEF Commit
  <2>3. Agree(files', versions')
    BY <2>1, <2>2, <1>0, <1>2, PutKeepsAgreement DEF Commit
  <2>4. \A p \in Paths : files[p].number <= files'[p].number
    BY <2>2, <1>0, <1>2 DEF Commit, PointerTo
  <2> QED
    BY <2>3, <2>4, <1>2 DEF PointerIsLatest, Commit
<1>3. ASSUME NEW r \in Requests, MoveCommit(r) PROVE Goal
  <2> DEFINE v == NewVersion(r)
             t == MoveTombstone(r)
             f == [files EXCEPT ![v.path] = PointerTo(v)]
             rows == versions \cup {v}
  <2>1. v \in Version /\ v.path = call[r].path /\ v.number = last[r]
    BY <1>0, <1>3, NewVersionType DEF MoveCommit, RequestInv, SeenIsPast, NewVersion
  <2>2. v.number = files[v.path].number + 1
    BY <2>1, <1>3, CommitsNext DEF MoveCommit
  <2>3. Agree(f, rows) /\ f \in [Paths -> Pointer] /\ rows \in SUBSET Version
    BY <2>1, <2>2, <1>0, PutKeepsAgreement
  <2>4. \A p \in Paths : files[p].number <= f[p].number /\ f[p].number \in Nat
    BY <2>2, <2>3, <1>0 DEF PointerTo, Pointer
  <2>5. t \in Version /\ t.path = call[r].from /\ t.number = seen[r].from + 1
    BY <1>0, MoveTombstoneType DEF MoveTombstone
  <2>6. t.number <= f[t.path].number + 1
    <3>1. seen[r].from <= files[call[r].from].number
      BY <1>0, <1>3 DEF MoveCommit, RequestInv, SeenIsPast
    <3>2. seen[r].from \in Nat /\ call[r].from \in Paths
      BY <1>0 DEF TypeOK, Call
    <3> QED
      BY <3>1, <3>2, <2>4, <2>5, <1>0
  <2>7. ~Taken(rows, t.path, t.number)
    BY <1>3 DEF MoveCommit
  <2>8. t.number = f[t.path].number + 1
    BY <2>3, <2>5, <2>6, <2>7, NextFree DEF Version
  <2>9. Agree([f EXCEPT ![t.path] = PointerTo(t)], rows \cup {t})
    BY <2>3, <2>5, <2>8, PutKeepsAgreement
  <2>10. files' = [f EXCEPT ![t.path] = PointerTo(t)] /\ versions' = rows \cup {t}
    BY <1>3 DEF MoveCommit
  <2>11. \A p \in Paths : files[p].number <= files'[p].number
    BY <2>3, <2>4, <2>8, <2>10 DEF PointerTo
  <2> QED
    BY <2>9, <2>10, <2>11 DEF PointerIsLatest
<1>4. ASSUME NEW r \in Requests, MoveFinish(r) PROVE Goal
  <2> DEFINE t == MoveTombstone(r)
  <2>1. t \in Version /\ t.path = call[r].from /\ t.number = seen[r].from + 1
    BY <1>0, MoveTombstoneType DEF MoveTombstone
  <2>2. seen[r].from <= files[call[r].from].number
    BY <1>0, <1>4 DEF MoveFinish, RequestInv, SeenIsPast
  <2>3. t.number <= files[t.path].number + 1
    BY <2>1, <2>2, <1>0 DEF TypeOK, Call
  <2>4. ~Taken(versions, t.path, t.number)
    BY <1>4 DEF MoveFinish
  <2>5. t.number = files[t.path].number + 1
    BY <2>1, <2>3, <2>4, <1>0, NextFree DEF Version
  <2>6. Agree(files', versions')
    BY <2>1, <2>5, <1>0, <1>4, PutKeepsAgreement DEF MoveFinish
  <2>7. \A p \in Paths : files[p].number <= files'[p].number
    BY <2>5, <1>0, <1>4 DEF MoveFinish, PointerTo
  <2> QED
    BY <2>6, <2>7, <1>4 DEF PointerIsLatest, MoveFinish
<1>5. ASSUME NEW r \in Requests, Step(r) \/ Crash(r),
             ~Commit(r), ~MoveCommit(r), ~MoveFinish(r)
      PROVE  UNCHANGED <<files, versions>>
  BY <1>5 DEF Step, Crash, PutBlob, GetSource, SourceMissing, GetFrom, GetFile,
              NothingToDelete, CasConflict, Collide, Audit, GetBlob, Index, stores
<1>6. CASE UNCHANGED vars
  BY <1>1, <1>6 DEF vars, stores
<1> QED
  BY <1>1, <1>2, <1>3, <1>4, <1>5, <1>6 DEF Next

(* What a request knows stays true while other requests take their steps.  *)
LEMMA OthersStay ==
    ASSUME IInv, NEW r \in Requests, NEW s \in Requests \ {r}, OthersKept(r),
           TypeOK', versions \subseteq versions',
           \A p \in Paths : files[p].number <= files'[p].number
    PROVE  RequestInv(s)'
<1>1. RequestInv(s) /\ call[s] \in Call
  BY CallAssumption DEF IInv, TypeOK
<1>2. /\ call[s].path \in Paths /\ call[s].from \in Paths
      /\ \A p \in Paths : files[p].number \in Nat /\ files'[p].number \in Nat
      /\ first[s] \in Nat /\ tries[s] \in Nat
      /\ seen[s].path \in Nat /\ seen[s].from \in Nat
  BY <1>1 DEF IInv, TypeOK, Call, Pointer
<1>3. NewVersion(s)' = NewVersion(s) /\ Expected(s)' = Expected(s)
  BY DEF OthersKept, NewVersion, Expected
<1>4. KindAt(s)'
  BY <1>1 DEF RequestInv, KindAt, OthersKept
<1>5. SeenIsPast(s)'
  BY <1>1, <1>2 DEF RequestInv, SeenIsPast, OthersKept
<1>6. CountsAttempts(s)'
  BY <1>1, <1>2 DEF RequestInv, CountsAttempts, OthersKept
<1>7. HasItsVersion(s)'
  BY <1>1, <1>3 DEF RequestInv, HasItsVersion, OthersKept
<1> QED
  BY <1>4, <1>5, <1>6, <1>7 DEF RequestInv

(* What the request that takes the step knows afterwards.                  *)
LEMMA ActorStays ==
    ASSUME IInv, NEW r \in Requests, Step(r) \/ Crash(r), TypeOK',
           \A p \in Paths : files[p].number <= files'[p].number
    PROVE  RequestInv(r)'
<1> USE CallAssumption, RetryAssumption
<1>0. /\ TypeOK /\ Agree(files, versions) /\ RequestInv(r)
      /\ call[r] \in Call /\ call[r].path \in Paths /\ call[r].from \in Paths
      /\ \A p \in Paths : files[p].number \in Nat /\ files'[p].number \in Nat
      /\ first[r] \in Nat /\ tries[r] \in Nat /\ last[r] \in Nat
      /\ seen[r].path \in Nat /\ seen[r].from \in Nat
  BY DEF IInv, PointerIsLatest, TypeOK, Call, Pointer
<1> USE <1>0 DEF RequestInv, KindAt, SeenIsPast, CountsAttempts, HasItsVersion, Goto,
                 TypeOK, Running, stores
<1>1. CASE PutBlob(r)
  BY <1>1 DEF PutBlob
<1>2. CASE GetSource(r)
  BY <1>2 DEF GetSource, AfterSource
<1>3. CASE SourceMissing(r)
  BY <1>3 DEF SourceMissing
<1>4. CASE GetFrom(r)
  BY <1>4 DEF GetFrom
<1>5. CASE GetFile(r)
  BY <1>5 DEF GetFile, DstCommitted
<1>6. CASE NothingToDelete(r)
  BY <1>6 DEF NothingToDelete
<1>7. CASE Commit(r)
  <2>1. /\ last[r] = files[call[r].path].number + 1
        /\ Expected(r) # NoCas => files[call[r].path].number = Expected(r)
    BY <1>7, CommitsNext DEF Commit, NewVersion, CasHolds
  <2>2. NewVersion(r)' = NewVersion(r) /\ Expected(r)' = Expected(r)
    BY <1>7 DEF Commit, NewVersion, Expected
  <2>3. won'[r] = last[r] /\ last' = last /\ call' = call /\ pc'[r] = "audit"
    BY <1>7 DEF Commit, NewVersion
  <2>4. NewVersion(r) \in versions' /\ tries' = tries /\ first' = first
    BY <1>7 DEF Commit
  <2> QED
    BY <1>7, <2>1, <2>2, <2>3, <2>4 DEF Commit
<1>8. CASE MoveCommit(r)
  BY <1>8 DEF MoveCommit
<1>9. CASE MoveFinish(r)
  BY <1>9 DEF MoveFinish
<1>10. CASE CasConflict(r)
  BY <1>10 DEF CasConflict
<1>11. CASE Collide(r)
  <2>1. call[r].kind # "move" =>
            seen[r].path + 1 <= files[call[r].path].number
    <3> SUFFICES ASSUME call[r].kind # "move"
                 PROVE  seen[r].path + 1 <= files[call[r].path].number
      OBVIOUS
    <3>1. last[r] = seen[r].path + 1
      BY <1>11 DEF Collide
    <3>2. PICK v \in versions : v.path = call[r].path /\ v.number = last[r]
      BY <1>11 DEF Collide, Refused, NewVersion, Taken
    <3> QED
      BY <3>1, <3>2 DEF Agree
  <2>2. /\ tries'[r] = tries[r] + 1 /\ UNCHANGED <<files, call, seen, won, first, last>>
        /\ won[r] = 0
    BY <1>11 DEF Collide
  <2>3. pc'[r] \in Running =>
            /\ tries'[r] < MaxWriteRetries
            /\ pc'[r] = IF call[r].kind = "move" THEN "getfrom" ELSE "getfile"
    BY <1>11, <2>2 DEF Collide, Retries
  <2>4. KindAt(r)' /\ SeenIsPast(r)' /\ HasItsVersion(r)'
    BY <2>2, <2>3
  <2>5. CountsAttempts(r)'
    <3>1. call[r].kind # "move" => first[r] + tries[r] <= seen[r].path
      BY <1>11 DEF Collide
    <3>2. call[r].kind # "move" =>
              first'[r] + tries'[r] <= files'[call'[r].path].number
      <4>1. /\ files[call[r].path].number \in Nat /\ seen[r].path \in Nat
            /\ first[r] \in Nat /\ tries[r] \in Nat
        OBVIOUS
      <4>2. /\ first'[r] = first[r] /\ tries'[r] = tries[r] + 1
            /\ files'[call'[r].path].number = files[call[r].path].number
        BY <2>2
      <4>3. call[r].kind # "move" => first[r] + (tries[r] + 1) <= files[call[r].path].number
        BY <2>1, <3>1, <4>1
      <4> QED
        BY <4>2, <4>3
    <3>3. pc'[r] # "commit"
      BY <2>3
    <3> QED
      BY <2>2, <2>3, <3>2, <3>3
  <2> QED
    BY <2>4, <2>5
<1>12. CASE Audit(r)
  <2>1. NewVersion(r)' = NewVersion(r) /\ Expected(r)' = Expected(r)
    BY <1>12 DEF Audit, NewVersion, Expected
  <2> QED
    BY <1>12, <2>1 DEF Audit
<1>13. CASE GetBlob(r)
  BY <1>13 DEF GetBlob
<1>14. CASE Index(r)
  BY <1>14 DEF Index
<1>15. CASE Crash(r)
  <2>1. NewVersion(r)' = NewVersion(r) /\ Expected(r)' = Expected(r)
    BY <1>15 DEF Crash, NewVersion, Expected
  <2> QED
    BY <1>15, <2>1 DEF Crash
<1> QED
  BY <1>1, <1>2, <1>3, <1>4, <1>5, <1>6, <1>7, <1>8, <1>9, <1>10, <1>11, <1>12,
     <1>13, <1>14, <1>15 DEF Step

(* No step gives a version to a second request: the number committed is    *)
(* new in the table.                                                       *)
LEMMA VersionsStayOwn == IInv /\ [Next]_vars => OwnVersions'
<1> SUFFICES ASSUME IInv, [Next]_vars PROVE OwnVersions'
  OBVIOUS
<1>0. TypeOK /\ OwnVersions /\ \A r \in Requests : RequestInv(r)
  BY DEF IInv
<1>1. CASE UNCHANGED vars
  BY <1>0, <1>1 DEF vars, locals, OwnVersions
<1>2. ASSUME NEW r \in Requests, Step(r) \/ Crash(r), won' = won PROVE OwnVersions'
  <2>1. call' = call
    BY <1>0, <1>2, StepIsLocal DEF OthersKept
  <2> QED
    BY <1>0, <1>2, <2>1 DEF OwnVersions
<1>3. ASSUME NEW r \in Requests, Commit(r) PROVE OwnVersions'
  <2>1. /\ call' = call /\ won'[r] = last[r] /\ \A s \in Requests \ {r} : won'[s] = won[s]
        /\ ~Taken(versions, call[r].path, last[r])
    BY <1>0, <1>3 DEF Commit, NewVersion, TypeOK
  <2>2. ASSUME NEW s \in Requests \ {r}, won[s] # 0,
               call[s].kind # "move", call[s].path = call[r].path
        PROVE  won[s] # last[r]
    <3>1. NewVersion(s) \in versions /\ won[s] = last[s]
      BY <1>0, <2>2 DEF RequestInv, HasItsVersion
    <3>2. NewVersion(s).path = call[r].path /\ NewVersion(s).number = last[s]
      BY <2>2 DEF NewVersion
    <3> QED
      BY <2>1, <3>1, <3>2 DEF Taken
  <2> QED
    BY <1>0, <2>1, <2>2 DEF OwnVersions
<1>4. ASSUME NEW r \in Requests, MoveCommit(r) \/ MoveFinish(r) PROVE OwnVersions'
  <2>1. call' = call /\ call[r].kind = "move" /\ \A s \in Requests \ {r} : won'[s] = won[s]
    BY <1>0, <1>4 DEF MoveCommit, MoveFinish, TypeOK
  <2> QED
    BY <1>0, <2>1 DEF OwnVersions
<1>5. ASSUME NEW r \in Requests, Step(r) \/ Crash(r),
             ~Commit(r), ~MoveCommit(r), ~MoveFinish(r)
      PROVE  won' = won
  BY <1>5 DEF Step, Crash, PutBlob, GetSource, SourceMissing, GetFrom, GetFile,
              NothingToDelete, CasConflict, Collide, Audit, GetBlob, Index
<1> QED
  BY <1>1, <1>2, <1>3, <1>4, <1>5 DEF Next

(* The invariant is inductive: every step of every method preserves it.    *)
LEMMA StepKeepsInvariant == IInv /\ [Next]_vars => IInv'
<1> SUFFICES ASSUME IInv, [Next]_vars PROVE IInv'
  OBVIOUS
<1>1. TypeOK' /\ OwnVersions'
  BY InvariantIsSound, TypeStep, VersionsStayOwn
<1>2. /\ PointerIsLatest' /\ versions \subseteq versions'
      /\ \A p \in Paths : files[p].number <= files'[p].number
  BY TablesGrow
<1>3. ASSUME NEW s \in Requests PROVE RequestInv(s)'
  <2>1. CASE UNCHANGED vars
    BY <2>1 DEF IInv, vars, stores, locals, RequestInv, KindAt, SeenIsPast,
                CountsAttempts, HasItsVersion, NewVersion, Expected
  <2>2. ASSUME NEW r \in Requests, Step(r) \/ Crash(r), r # s PROVE RequestInv(s)'
    BY <1>1, <1>2, <2>2, StepIsLocal, OthersStay DEF IInv
  <2>3. ASSUME Step(s) \/ Crash(s) PROVE RequestInv(s)'
    BY <1>1, <1>2, <2>3, ActorStays
  <2> QED
    BY <2>1, <2>2, <2>3 DEF Next
<1> QED
  BY <1>1, <1>2, <1>3 DEF IInv

----------------------------------------------------------------------------
(* The theorems.                                                           *)

(* The inductive invariant holds in every state the VFS reaches, for any   *)
(* requests, calls and paths.                                              *)
THEOREM Invariance == Spec => []IInv
<1>1. Init => IInv
  BY InitSatisfies
<1>2. IInv /\ [Next]_vars => IInv'
  BY StepKeepsInvariant
<1> QED
  BY <1>1, <1>2, PTL DEF Spec

(* Every variable keeps its type.                                          *)
THEOREM TypeCorrectness == Spec => []TypeOK
<1>1. IInv => TypeOK
  BY DEF IInv
<1> QED
  BY <1>1, Invariance, PTL

(* Without collection the pointer of a file is its highest version, and    *)
(* version numbers have neither gaps nor duplicates (put_version).         *)
THEOREM PointersAgree == Spec => []PointerIsLatest
<1>1. IInv => PointerIsLatest
  BY DEF IInv
<1> QED
  BY <1>1, Invariance, PTL

(* A compare-and-swap that returns made version expected + 1 (write and    *)
(* copy with expected_version).                                            *)
THEOREM CasSucceedsOnTop == Spec => []CasWritesOnTop
<1>1. IInv => CasWritesOnTop
  BY DEF IInv, RequestInv, HasItsVersion, CasWritesOnTop, Acked, Expected
<1> QED
  BY <1>1, Invariance, PTL

(* No update is lost: what write, copy, delete or rollback returned is in  *)
(* the history as that request asked for it, and is nobody else's.         *)
THEOREM UpdatesAreKept == Spec => []AckedVersionKept
<1>1. IInv => AckedVersionKept
  <2> SUFFICES ASSUME IInv, NEW r \in Requests, Acked(r), call[r].kind # "move"
               PROVE  /\ [NewVersion(r) EXCEPT !.number = won[r]] \in versions
                      /\ \A s \in Requests \ {r} :
                          Acked(s) /\ call[s].kind # "move" /\ call[s].path = call[r].path
                              => won[s] # won[r]
    BY DEF AckedVersionKept
  <2>1. NewVersion(r) \in versions /\ won[r] = last[r]
    BY DEF IInv, RequestInv, HasItsVersion, Acked
  <2>2. [NewVersion(r) EXCEPT !.number = won[r]] = NewVersion(r)
    BY <2>1 DEF NewVersion
  <2> QED
    BY <2>1, <2>2 DEF IInv, OwnVersions, Acked
<1> QED
  BY <1>1, Invariance, PTL

(* A request that collided saw the file advance once for every attempt:    *)
(* the retry loops of write and copy give up only under contention.        *)
THEOREM CollisionsAreContention == Spec => []CollisionMeansContention
<1>1. IInv => CollisionMeansContention
  <2> SUFFICES ASSUME IInv, NEW r \in Requests, call[r].kind # "move"
               PROVE  tries[r] <= files[call[r].path].number - first[r]
    BY DEF CollisionMeansContention
  <2>1. first[r] + tries[r] <= files[call[r].path].number
    BY DEF IInv, RequestInv, CountsAttempts
  <2>2. first[r] \in Nat /\ tries[r] \in Nat /\ files[call[r].path].number \in Nat
    BY CallAssumption DEF IInv, TypeOK, Call, Pointer
  <2> QED
    BY <2>1, <2>2
<1> QED
  BY <1>1, Invariance, PTL

----------------------------------------------------------------------------
(* Contents.                                                               *)

SourceKinds == {"copy", "move", "rollback"}

(* What a request that is about to write relies on: the blob it put, the   *)
(* row it read, the row its delete found, the version its move takes for   *)
(* its own.                                                                *)
Prepared(r) ==
    /\ pc[r] \in {"getfrom", "getfile", "commit"} =>
        /\ call[r].kind \notin {"read", "reindex"}
        /\ call[r].kind = "write" => call[r].hash \in blobs
        /\ call[r].kind \in SourceKinds =>
            /\ src[r] \in versions
            /\ src[r].path = call[r].from
            /\ call[r].kind = "rollback" => call[r].target \in {0, src[r].number}
            /\ call[r].kind # "rollback" => ~src[r].tombstone
    /\ pc[r] = "commit" =>
        /\ call[r].kind = "delete" => seen[r].path # 0
        /\ call[r].kind = "move" /\ skip[r] => last[r] <= files[call[r].path].number

AllPrepared == \A r \in Requests : Prepared(r)

(* A request that arrives has nothing to prepare but a delete, which reads *)
(* the file first.                                                         *)
LEMMA InitPrepared == Init => AllPrepared
<1> SUFFICES ASSUME Init, NEW r \in Requests PROVE Prepared(r)
  BY DEF AllPrepared
<1>1. pc[r] \in {"putblob", "getfile", "getsrc"} /\ (pc[r] = "getfile" => call[r].kind = "delete")
  BY CallAssumption DEF Init, FirstStep, Call, Kinds
<1> QED
  BY <1>1 DEF Prepared, SourceKinds

(* Contents are only added here: the collector is another module's.        *)
LEMMA ContentsGrow == [Next]_vars => blobs \subseteq blobs' /\ text \subseteq text'
<1> SUFFICES ASSUME [Next]_vars PROVE blobs \subseteq blobs' /\ text \subseteq text'
  OBVIOUS
<1>1. ASSUME NEW r \in Requests, Step(r) \/ Crash(r)
      PROVE  blobs \subseteq blobs' /\ text \subseteq text'
  BY <1>1 DEF Step, Crash, PutBlob, GetSource, SourceMissing, GetFrom, GetFile,
              NothingToDelete, Commit, MoveCommit, MoveFinish, CasConflict, Collide,
              Audit, GetBlob, Index, stores
<1> QED
  BY <1>1 DEF Next, vars, stores

(* What another request has prepared is not touched by a step.             *)
LEMMA OthersStayPrepared ==
    ASSUME IInv, NEW r \in Requests, NEW s \in Requests \ {r}, OthersKept(r), Prepared(s),
           TypeOK', versions \subseteq versions', blobs \subseteq blobs',
           \A p \in Paths : files[p].number <= files'[p].number
    PROVE  Prepared(s)'
<1>1. /\ call[s].path \in Paths /\ last[s] \in Nat
      /\ \A p \in Paths : files[p].number \in Nat /\ files'[p].number \in Nat
  BY CallAssumption DEF IInv, TypeOK, Call, Pointer
<1>2. last[s] <= files[call[s].path].number => last[s] <= files'[call[s].path].number
  BY <1>1
<1> QED
  BY <1>2 DEF OthersKept, Prepared

(* What the request that takes the step has prepared.                      *)
LEMMA ActorStaysPrepared ==
    ASSUME IInv, NEW r \in Requests, Step(r) \/ Crash(r), Prepared(r)
    PROVE  Prepared(r)'
<1>0. /\ TypeOK /\ KindAt(r) /\ call[r] \in Call
  BY CallAssumption DEF IInv, TypeOK, RequestInv
<1> USE <1>0 DEF Prepared, KindAt, SourceKinds, TypeOK, Goto, stores
<1>1. CASE PutBlob(r)
  BY <1>1 DEF PutBlob
<1>2. CASE GetSource(r)
  <2>1. /\ pc[r] = "getsrc" /\ src'[r] \in versions /\ Acceptable(r, src'[r])
        /\ pc'[r] = AfterSource(r) /\ UNCHANGED <<call, versions, blobs>>
    BY <1>2 DEF GetSource
  <2>2. /\ src'[r].path = call[r].from
        /\ call[r].kind = "rollback" => call[r].target \in {0, src'[r].number}
        /\ call[r].kind # "rollback" => ~src'[r].tombstone
    BY <2>1 DEF Acceptable, IsVersion, IsLatest, SourceNumber
  <2>3. pc'[r] # "commit" /\ (pc'[r] \in {"getfrom", "getfile"} => call[r].kind \in SourceKinds)
    BY <2>1 DEF AfterSource
  <2> QED
    BY <2>1, <2>2, <2>3
<1>3. CASE SourceMissing(r)
  BY <1>3 DEF SourceMissing
<1>4. CASE GetFrom(r)
  BY <1>4 DEF GetFrom
<1>5. CASE GetFile(r)
  <2>1. /\ pc[r] = "getfile" /\ pc'[r] = "commit" /\ UNCHANGED <<call, versions, blobs, src, files>>
        /\ seen'[r].path = files[call[r].path].number
        /\ call[r].kind = "delete" => files[call[r].path].number # 0
        /\ skip'[r] = DstCommitted(r)
        /\ DstCommitted(r) => last'[r] = last[r]
    BY <1>5 DEF GetFile
  <2>2. call[r].kind = "move" /\ skip'[r] => last'[r] <= files'[call[r].path].number
    BY <2>1, CallAssumption DEF DstCommitted, Call, Pointer
  <2> QED
    BY <2>1, <2>2
<1>6. CASE NothingToDelete(r)
  BY <1>6 DEF NothingToDelete
<1>7. CASE Commit(r) \/ MoveCommit(r) \/ MoveFinish(r)
  BY <1>7 DEF Commit, MoveCommit, MoveFinish
<1>8. CASE CasConflict(r)
  BY <1>8 DEF CasConflict
<1>9. CASE Collide(r)
  <2>1. /\ pc[r] = "commit" /\ pc'[r] \in {"getfrom", "getfile", "collision", "integrity"}
        /\ UNCHANGED <<call, versions, blobs, src>>
    BY <1>9 DEF Collide
  <2> QED
    BY <2>1
<1>10. CASE Audit(r) \/ Index(r) \/ Crash(r)
  BY <1>10 DEF Audit, Index, Crash
<1>11. CASE GetBlob(r)
  <2>1. pc'[r] \in {"noblob", "done", "index"}
    BY <1>11 DEF GetBlob
  <2> QED
    BY <2>1
<1> QED
  BY <1>1, <1>2, <1>3, <1>4, <1>5, <1>6, <1>7, <1>8, <1>9, <1>10, <1>11 DEF Step

(* A step leaves every request prepared.                                   *)
LEMMA StepKeepsPrepared ==
    IInv /\ AllPrepared /\ [Next]_vars => AllPrepared'
<1> SUFFICES ASSUME IInv, AllPrepared, [Next]_vars, NEW s \in Requests
             PROVE  Prepared(s)'
  BY DEF AllPrepared
<1> USE DEF AllPrepared
<1>1. /\ TypeOK' /\ versions \subseteq versions' /\ blobs \subseteq blobs'
      /\ \A p \in Paths : files[p].number <= files'[p].number
  BY InvariantIsSound, TypeStep, TablesGrow, ContentsGrow
<1>2. CASE UNCHANGED vars
  BY <1>2 DEF vars, stores, locals, Prepared
<1>3. ASSUME NEW r \in Requests, Step(r) \/ Crash(r), r # s PROVE Prepared(s)'
  BY <1>1, <1>3, StepIsLocal, OthersStayPrepared DEF IInv
<1>4. ASSUME Step(s) \/ Crash(s) PROVE Prepared(s)'
  BY <1>4, ActorStaysPrepared
<1> QED
  BY <1>2, <1>3, <1>4 DEF Next

(* A rollback that restored a tombstone has done so for good.              *)
LEMMA RestoredForGood ==
    ASSUME IInv, [Next]_vars, TombstoneRestored
    PROVE  TombstoneRestored'
<1>1. CASE \E v \in InitVersions : Hollow(v)
  BY <1>1 DEF TombstoneRestored
<1>2. ASSUME NEW s \in Requests, call[s].kind = "rollback", won[s] # 0, src[s].tombstone
      PROVE  call'[s].kind = "rollback" /\ won'[s] # 0 /\ src'[s].tombstone
  <2>1. pc[s] \in {"audit", "done", "crashed"}
    BY <1>2 DEF IInv, RequestInv, HasItsVersion
  <2>2. ASSUME NEW r \in Requests \ {s}, Step(r) \/ Crash(r)
        PROVE  call'[s] = call[s] /\ won'[s] = won[s] /\ src'[s] = src[s]
    BY <2>2, StepIsLocal DEF IInv, OthersKept
  <2>3. ASSUME Step(s) \/ Crash(s)
        PROVE  call'[s] = call[s] /\ won'[s] = won[s] /\ src'[s] = src[s]
    BY <2>1, <2>3 DEF Step, Crash, PutBlob, GetSource, SourceMissing, GetFrom, GetFile,
              NothingToDelete, Commit, MoveCommit, MoveFinish, CasConflict, Collide,
              Audit, GetBlob, Index
  <2>4. CASE UNCHANGED vars
    BY <1>2, <2>4 DEF vars, locals
  <2> QED
    BY <1>2, <2>2, <2>3, <2>4 DEF Next
<1> QED
  BY <1>1, <1>2 DEF TombstoneRestored

(* A version made of one that can be read, or of a blob just put.          *)
LEMMA NewContentResolves ==
    ASSUME IInv, NEW r \in Requests, Prepared(r), pc[r] = "commit", ContentResolvable,
           blobs \subseteq blobs', text \subseteq text',
           call[r].kind = "write" /\ call[r].hash \in TextHashes => call[r].hash \in text',
           TombstoneRestored => TombstoneRestored',
           call' = call, src' = src, won'[r] # 0
    PROVE  /\ NewVersion(r).hash # Empty =>
                /\ NewVersion(r).hash \in blobs'
                /\ NewVersion(r).hash \in TextHashes => NewVersion(r).hash \in text'
           /\ Hollow(NewVersion(r)) => TombstoneRestored'
<1>0. call[r].kind \in {"write", "delete"} \cup SourceKinds /\ call[r].hash \in Hashes
  BY CallAssumption DEF IInv, TypeOK, Call, Kinds, Prepared, SourceKinds
<1>1. CASE call[r].kind = "write"
  BY <1>0, <1>1, HashAssumption DEF Prepared, NewVersion, Hollow
<1>2. CASE call[r].kind = "delete"
  BY <1>2 DEF NewVersion, Hollow
<1>3. CASE call[r].kind \in SourceKinds
  <2>1. NewVersion(r).hash = src[r].hash /\ src[r] \in versions
    BY <1>3 DEF NewVersion, Prepared, SourceKinds
  <2>2. CASE src[r].tombstone
    <3>1. call[r].kind = "rollback"
      BY <1>3, <2>2 DEF Prepared
    <3>2. TombstoneRestored'
      BY <2>2, <3>1 DEF TombstoneRestored
    <3> QED
      BY <2>1, <3>2 DEF ContentResolvable
  <2>3. CASE ~src[r].tombstone
    BY <2>1, <2>3 DEF ContentResolvable, Hollow
  <2> QED
    BY <2>2, <2>3
<1> QED
  BY <1>0, <1>1, <1>2, <1>3

(* A step that adds a version adds one whose content resolves.             *)
LEMMA ResolvableStep ==
    IInv /\ AllPrepared /\ ContentResolvable /\ [Next]_vars => ContentResolvable'
<1> SUFFICES ASSUME IInv, AllPrepared, ContentResolvable, [Next]_vars
             PROVE  ContentResolvable'
  OBVIOUS
<1> USE DEF AllPrepared
<1>0. /\ blobs \subseteq blobs' /\ text \subseteq text'
      /\ TombstoneRestored => TombstoneRestored'
  BY ContentsGrow, RestoredForGood
<1>1. CASE versions' = versions
  BY <1>0, <1>1 DEF ContentResolvable
<1>2. ASSUME NEW r \in Requests, Commit(r) \/ MoveCommit(r) \/ MoveFinish(r)
      PROVE  ContentResolvable'
  <2>1. /\ pc[r] = "commit" /\ call' = call /\ src' = src
        /\ call[r].kind = "write" /\ call[r].hash \in TextHashes => call[r].hash \in text'
    BY <1>2 DEF Commit, MoveCommit, MoveFinish, NewVersion
  <2>2. won'[r] # 0
    BY <1>2, <2>1 DEF IInv, RequestInv, SeenIsPast, TypeOK, Commit, MoveCommit, MoveFinish,
                      NewVersion
  <2>3. /\ NewVersion(r).hash # Empty =>
              /\ NewVersion(r).hash \in blobs'
              /\ NewVersion(r).hash \in TextHashes => NewVersion(r).hash \in text'
        /\ Hollow(NewVersion(r)) => TombstoneRestored'
    BY <1>0, <2>1, <2>2, NewContentResolves
  <2>4. MoveTombstone(r).hash = Empty /\ ~Hollow(MoveTombstone(r))
    BY DEF MoveTombstone, Hollow
  <2>5. versions' \subseteq versions \cup {NewVersion(r), MoveTombstone(r)}
    BY <1>2 DEF Commit, MoveCommit, MoveFinish
  <2> QED
    BY <1>0, <2>3, <2>4, <2>5 DEF ContentResolvable
<1>3. ASSUME NEW r \in Requests, Step(r) \/ Crash(r), versions' # versions
      PROVE  Commit(r) \/ MoveCommit(r) \/ MoveFinish(r)
  BY <1>3 DEF Step, Crash, PutBlob, GetSource, SourceMissing, GetFrom, GetFile,
              NothingToDelete, CasConflict, Collide, Audit, GetBlob, Index, stores
<1>4. CASE UNCHANGED vars
  BY <1>1, <1>4 DEF vars, stores
<1> QED
  BY <1>1, <1>2, <1>3, <1>4 DEF Next

(* Every version's content can be fetched and searched - put before the    *)
(* commit, indexed with it, or taken from a row that can - unless a        *)
(* rollback restored a tombstone, which has no content (write, copy, move, *)
(* rollback).                                                              *)
THEOREM ContentsResolve == Spec => []ContentResolvable
<1>1. Init => ContentResolvable
  BY DEF Init, ContentResolvable, TombstoneRestored
<1> QED
  BY <1>1, InitPrepared, StepKeepsPrepared, ResolvableStep, Invariance, PTL DEF Spec

(* Every change a request made is audited, about to be, or was cut off.    *)
AuditedBy(r, v) ==
    /\ Made(r, v)
    /\ pc[r] \in {"audit", "crashed"} \/ Event(r) \in audit

(* The request that made a version keeps answering for it.                 *)
LEMMA StaysAudited ==
    ASSUME IInv, [Next]_vars, NEW r \in Requests, NEW v, AuditedBy(r, v)
    PROVE  AuditedBy(r, v)'
<1>1. audit \subseteq audit'
  BY DEF Next, Step, Crash, PutBlob, GetSource, SourceMissing, GetFrom, GetFile,
         NothingToDelete, Commit, MoveCommit, MoveFinish, CasConflict, Collide,
         Audit, GetBlob, Index, stores, vars
<1>2. pc[r] \in {"audit", "done", "crashed"}
  BY DEF AuditedBy, Made, IInv, RequestInv, HasItsVersion
<1>3. ASSUME UNCHANGED <<call, seen[r], won[r]>>,
             pc'[r] \in {"audit", "crashed"} \/ Event(r) \in audit'
      PROVE  AuditedBy(r, v)'
  BY <1>3 DEF AuditedBy, Made, Event, MoveTombstone
<1>4. ASSUME NEW s \in Requests \ {r}, Step(s) \/ Crash(s) PROVE AuditedBy(r, v)'
  BY <1>1, <1>3, <1>4, StepIsLocal DEF IInv, OthersKept, AuditedBy
<1>5. CASE Audit(r)
  BY <1>3, <1>5 DEF Audit, Event
<1>6. CASE Crash(r)
  BY <1>3, <1>6 DEF Crash, Goto, stores, IInv, TypeOK
<1>7. ASSUME Step(r) PROVE Audit(r)
  BY <1>2, <1>7 DEF Step, PutBlob, GetSource, SourceMissing, GetFrom, GetFile,
         NothingToDelete, Commit, MoveCommit, MoveFinish, CasConflict, Collide,
         GetBlob, Index
<1>8. CASE UNCHANGED vars
  BY <1>1, <1>3, <1>8 DEF vars, stores, locals, AuditedBy
<1> QED
  BY <1>4, <1>5, <1>6, <1>7, <1>8 DEF Next

(* A commit makes the versions it adds, and is about to audit them.        *)
LEMMA NewIsAudited ==
    ASSUME IInv, NEW r \in Requests, Step(r) \/ Crash(r), NEW v \in versions' \ versions
    PROVE  AuditedBy(r, v)'
<1> USE DEF IInv, TypeOK, RequestInv, SeenIsPast
<1>1. CASE Commit(r)
  BY <1>1 DEF Commit, NewVersion, AuditedBy, Made, Goto
<1>2. CASE MoveCommit(r)
  <2>1. /\ pc'[r] = "audit" /\ call' = call /\ seen' = seen /\ call[r].kind = "move"
        /\ won'[r] = last[r] /\ last[r] # 0
        /\ v \in {NewVersion(r), MoveTombstone(r)}
    BY <1>2 DEF MoveCommit, NewVersion, Goto
  <2> QED
    BY <2>1 DEF NewVersion, MoveTombstone, AuditedBy, Made
<1>3. CASE MoveFinish(r)
  <2>1. /\ pc'[r] = "audit" /\ call' = call /\ seen' = seen /\ call[r].kind = "move"
        /\ won'[r] = last[r] /\ last[r] # 0
        /\ v = MoveTombstone(r)
    BY <1>3 DEF MoveFinish, Goto
  <2> QED
    BY <2>1 DEF MoveTombstone, AuditedBy, Made
<1> QED
  BY <1>1, <1>2, <1>3 DEF Step, Crash, PutBlob, GetSource, SourceMissing, GetFrom, GetFile,
         NothingToDelete, CasConflict, Collide, Audit, GetBlob, Index, stores

(* No version enters the history unaudited, unless its request died        *)
(* between its commit and its audit write (the two are separate store      *)
(* operations in write, delete, copy, move and rollback).                  *)
THEOREM ChangesAudited == Spec => []EveryChangeAudited
<1>1. Init => EveryChangeAudited
  BY DEF Init, EveryChangeAudited
<1>2. IInv /\ EveryChangeAudited /\ [Next]_vars => EveryChangeAudited'
  <2> SUFFICES ASSUME IInv, EveryChangeAudited, [Next]_vars, NEW v \in versions' \ InitVersions
               PROVE  \E r \in Requests : AuditedBy(r, v)'
    BY DEF EveryChangeAudited, AuditedBy
  <2>1. CASE v \in versions
    BY <2>1, StaysAudited DEF EveryChangeAudited, AuditedBy
  <2>2. CASE v \notin versions
    BY <2>2, NewIsAudited DEF Next, vars, stores
  <2> QED
    BY <2>1, <2>2
<1> QED
  BY <1>1, <1>2, Invariance, PTL DEF Spec

----------------------------------------------------------------------------
(* The histories.                                                          *)

(* An entry of a history is the row with its number.                       *)
LEMMA RowOfItsNumber ==
    ASSUME NEW f, NEW rows, Agree(f, rows), NEW v \in rows
    PROVE  RowOf(rows, v.path, v.number) = v
BY DEF RowOf, Agree

(* Every position of a history has a row.                                  *)
LEMMA RowOfPosition ==
    ASSUME NEW f, NEW rows, Agree(f, rows), NEW p \in Paths, NEW n \in 1 .. f[p].number
    PROVE  /\ RowOf(rows, p, n) \in rows
           /\ RowOf(rows, p, n).path = p
           /\ RowOf(rows, p, n).number = n
BY DEF RowOf, Agree, Taken

(* A path's history is a sequence as long as its pointer says.             *)
LEMMA HistoryIsSequence ==
    ASSUME NEW f \in [Paths -> Pointer], NEW rows \in SUBSET Version, Agree(f, rows),
           NEW p \in Paths
    PROVE  /\ HistoryOf(f, rows)[p] \in Seq(H!Entry)
           /\ Len(HistoryOf(f, rows)[p]) = f[p].number
<1>1. f[p].number \in Nat
  BY DEF Pointer
<1>2. \A n \in 1 .. f[p].number : EntryOf(RowOf(rows, p, n)) \in H!Entry
  BY RowOfPosition DEF Version, EntryOf, H!Entry
<1> QED
  BY <1>1, <1>2 DEF HistoryOf

(* A version put into the files table, and into the histories.             *)
Put(f, v) == [f EXCEPT ![v.path] = PointerTo(v)]
Appended(h, v) == [h EXCEPT ![v.path] = Append(@, EntryOf(v))]

(* Putting the next version of a path appends its entry to the history.    *)
LEMMA PutAppends ==
    ASSUME NEW f \in [Paths -> Pointer], NEW rows \in SUBSET Version, Agree(f, rows),
           NEW v \in Version, v.number = f[v.path].number + 1
    PROVE  HistoryOf(Put(f, v), rows \cup {v}) = Appended(HistoryOf(f, rows), v)
<1> USE DEF Put, Appended
<1> DEFINE g == [f EXCEPT ![v.path] = PointerTo(v)]
           new == rows \cup {v}
           old == HistoryOf(f, rows)
           k == f[v.path].number
<1>1. Agree(g, new) /\ v.path \in Paths /\ k \in Nat
  BY PutKeepsAgreement DEF Version, Pointer
<1>2. ASSUME NEW p \in Paths, NEW n \in 1 .. f[p].number
      PROVE  RowOf(new, p, n) = RowOf(rows, p, n)
  <2>1. PICK w \in rows : w.path = p /\ w.number = n
    BY DEF Agree, Taken
  <2>2. w \in new
    OBVIOUS
  <2> QED
    BY <1>1, <2>1, <2>2, RowOfItsNumber
<1>3. RowOf(new, v.path, k + 1) = v
  BY <1>1, RowOfItsNumber
<1>4. ASSUME NEW p \in Paths \ {v.path} PROVE HistoryOf(g, new)[p] = old[p]
  BY <1>2 DEF HistoryOf
<1>5. HistoryOf(g, new)[v.path] = Append(old[v.path], EntryOf(v))
  <2>1. old[v.path] \in Seq(H!Entry) /\ Len(old[v.path]) = k /\ EntryOf(v) \in H!Entry
    BY <1>1, HistoryIsSequence DEF EntryOf, H!Entry, Version
  <2>2. /\ HistoryOf(g, new)[v.path] = [n \in 1 .. k + 1 |-> EntryOf(RowOf(new, v.path, n))]
        /\ old[v.path] = [n \in 1 .. k |-> EntryOf(RowOf(rows, v.path, n))]
    BY <1>1 DEF HistoryOf, PointerTo
  <2>3. \A n \in 1 .. k : RowOf(new, v.path, n) = RowOf(rows, v.path, n)
    BY <1>1, <1>2
  <2>4. Append(old[v.path], EntryOf(v))
          = [n \in 1 .. k + 1 |-> IF n <= k THEN old[v.path][n] ELSE EntryOf(v)]
    BY <1>1, <2>1
  <2>5. \A n \in 1 .. k + 1 :
          EntryOf(RowOf(new, v.path, n)) = IF n <= k THEN old[v.path][n] ELSE EntryOf(v)
    <3> SUFFICES ASSUME NEW n \in 1 .. k + 1
                 PROVE  EntryOf(RowOf(new, v.path, n))
                          = IF n <= k THEN old[v.path][n] ELSE EntryOf(v)
      OBVIOUS
    <3>1. CASE n = k + 1
      BY <1>1, <1>3, <3>1
    <3>2. CASE n \in 1 .. k
      <4>1. old[v.path][n] = EntryOf(RowOf(rows, v.path, n))
        BY <1>1, <3>2 DEF HistoryOf
      <4>2. RowOf(new, v.path, n) = RowOf(rows, v.path, n)
        BY <2>3, <3>2
      <4>3. n <= k
        BY <1>1, <3>2
      <4> HIDE DEF g, new, old, k
      <4> QED
        BY <4>1, <4>2, <4>3
    <3> QED
      BY <1>1, <3>1, <3>2
  <2> HIDE DEF g, new, old, k
  <2> QED
    BY <2>2, <2>4, <2>5
<1> QED
  BY <1>1, <1>4, <1>5 DEF HistoryOf

(* A row is an entry of its path's history.                                *)
LEMMA RowIsEntry ==
    ASSUME IInv, NEW v \in versions
    PROVE  /\ v.number \in DOMAIN HistoryOf(files, versions)[v.path]
           /\ HistoryOf(files, versions)[v.path][v.number] = EntryOf(v)
<1>1. /\ v \in Version /\ Agree(files, versions)
      /\ v.path \in Paths /\ files[v.path].number \in Nat
  BY DEF IInv, TypeOK, PointerIsLatest, Version, Pointer
<1>2. v.number \in 1 .. files[v.path].number
  BY <1>1 DEF Agree, Version
<1> QED
  BY <1>1, <1>2, RowOfItsNumber DEF HistoryOf

(* A version made from a live one is a live entry of the source's history. *)
LEMMA SourceIsLive ==
    ASSUME IInv, NEW r \in Requests, src[r] \in versions, src[r].path = call[r].from,
           ~src[r].tombstone
    PROVE  EntryOf(src[r]) \in H!LiveEntries(call[r].from)
BY RowIsEntry DEF H!LiveEntries, EntryOf

(* The history after a step is the one of the tables after it.             *)
LEMMA HistoryPrimed == HistoryOf(files, versions)' = HistoryOf(files', versions')
BY DEF HistoryOf, RowOf, EntryOf

(* What the step of a request at its commit has to work with.              *)
LEMMA AtCommit ==
    ASSUME IInv, AllPrepared, NEW r \in Requests, pc[r] = "commit"
    PROVE  /\ TypeOK /\ Agree(files, versions) /\ call[r] \in Call
           /\ files \in [Paths -> Pointer] /\ versions \in SUBSET Version
           /\ SeenIsPast(r) /\ Prepared(r) /\ won[r] = 0
           /\ NewVersion(r) \in Version /\ MoveTombstone(r) \in Version
           /\ \A p \in Paths : /\ files[p].number \in Nat
                               /\ HistoryOf(files, versions)[p] \in Seq(H!Entry)
                               /\ Len(HistoryOf(files, versions)[p]) = files[p].number
<1>1. /\ TypeOK /\ Agree(files, versions) /\ call[r] \in Call
      /\ files \in [Paths -> Pointer] /\ versions \in SUBSET Version
      /\ SeenIsPast(r) /\ Prepared(r) /\ won[r] = 0
  BY CallAssumption DEF IInv, TypeOK, PointerIsLatest, RequestInv, HasItsVersion, AllPrepared
<1>2. NewVersion(r) \in Version /\ MoveTombstone(r) \in Version
  BY <1>1, NewVersionType, MoveTombstoneType DEF SeenIsPast
<1> QED
  BY <1>1, <1>2, HistoryIsSequence DEF Pointer

(* A commit of write, copy, delete or rollback appends the entry asked for.*)
LEMMA CommitRefines ==
    ASSUME IInv, AllPrepared, NEW r \in Requests, Commit(r)
    PROVE  H!Next
<1> DEFINE v == NewVersion(r)
           hist == HistoryOf(files, versions)
<1>1. /\ pc[r] = "commit" /\ call[r].kind # "move" /\ CasHolds(v.path, Expected(r))
      /\ ~Taken(versions, v.path, v.number)
      /\ versions' = versions \cup {v} /\ files' = [files EXCEPT ![v.path] = PointerTo(v)]
      /\ won' = [won EXCEPT ![r] = v.number] /\ call' = call
      /\ v.path = call[r].path /\ v.number = last[r]
  BY DEF Commit, NewVersion
<1>2. /\ call[r] \in Call /\ SeenIsPast(r) /\ Prepared(r) /\ won[r] = 0 /\ v \in Version
      /\ Agree(files, versions) /\ files \in [Paths -> Pointer] /\ versions \in SUBSET Version
      /\ \A p \in Paths : /\ files[p].number \in Nat
                          /\ hist[p] \in Seq(H!Entry) /\ Len(hist[p]) = files[p].number
  BY <1>1, AtCommit
<1>3. v.number = files[v.path].number + 1
  BY <1>1, CommitsNext
<1>4. H!Extend(r, EntryOf(v))
  <2>1. HistoryOf(Put(files, v), versions \cup {v}) = Appended(hist, v)
    BY <1>2, <1>3, PutAppends
  <2>2. Put(files, v) = files' /\ Appended(hist, v) = H!With(call[r].path, EntryOf(v))
    BY <1>1 DEF Put, Appended, H!With
  <2>3. HistoryOf(files', versions') = H!With(call[r].path, EntryOf(v))
    BY <1>1, <2>1, <2>2
  <2>4. won' = H!Positioned(r)
    BY <1>1, <1>2, <1>3 DEF H!Positioned, Call
  <2> QED
    BY <1>1, <2>3, <2>4, HistoryPrimed DEF H!Extend
<1>5. call[r].path \in Paths /\ call[r].from \in Paths
  BY <1>2 DEF Call
<1>6. CASE call[r].kind = "write"
  <2>1. EntryOf(v) = H!Holding(call[r].hash)
    BY <1>6 DEF EntryOf, NewVersion, H!Holding
  <2>2. H!AsExpected(r)
    BY <1>1, <1>2, <1>5, <1>6 DEF H!AsExpected, CasHolds, Expected
  <2> QED
    BY <1>2, <1>4, <1>6, <2>1, <2>2 DEF H!Next, H!Write, H!Asks
<1>7. CASE call[r].kind = "copy"
  <2>1. src[r] \in versions /\ src[r].path = call[r].from /\ ~src[r].tombstone
    BY <1>1, <1>2, <1>7 DEF Prepared, SourceKinds
  <2>2. EntryOf(v) = EntryOf(src[r])
    BY <1>2, <1>7, <2>1 DEF EntryOf, NewVersion, Version
  <2>3. EntryOf(v) \in H!LiveEntries(call[r].from)
    BY <2>1, <2>2, SourceIsLive
  <2>4. H!AsExpected(r)
    BY <1>1, <1>2, <1>5, <1>7 DEF H!AsExpected, CasHolds, Expected
  <2> QED
    BY <1>2, <1>4, <1>7, <2>3, <2>4 DEF H!Next, H!Copy, H!Asks
<1>8. CASE call[r].kind = "rollback"
  <2>1. src[r] \in versions /\ src[r].path = call[r].path /\ src[r].number = call[r].target
    BY <1>1, <1>2, <1>8, RollbackAssumption DEF Prepared, SourceKinds, IInv, TypeOK
  <2>2. /\ call[r].target \in DOMAIN hist[call[r].path]
        /\ hist[call[r].path][call[r].target] = EntryOf(src[r])
    BY <2>1, RowIsEntry
  <2>3. EntryOf(v) = H!Holding(src[r].hash) /\ EntryOf(src[r]).hash = src[r].hash
    BY <1>8 DEF EntryOf, NewVersion, H!Holding
  <2> QED
    BY <1>2, <1>4, <1>8, <2>2, <2>3 DEF H!Next, H!Rollback, H!Asks
<1>9. CASE call[r].kind = "delete"
  <2>1. EntryOf(v) = H!Tombstone
    BY <1>9 DEF EntryOf, NewVersion, H!Tombstone
  <2>2. files[call[r].path].number # 0
    BY <1>1, <1>2, <1>5, <1>9 DEF Prepared, SeenIsPast, IInv, TypeOK
  <2>3. hist[call[r].path] # << >>
    BY <1>2, <1>5, <2>2
  <2> QED
    BY <1>2, <1>4, <1>9, <2>1, <2>3 DEF H!Next, H!Delete, H!Asks
<1> QED
  BY <1>1, <1>2, <1>6, <1>7, <1>8, <1>9 DEF Call, Kinds, Prepared

(* A move that is not retried past its destination appends to both ends.   *)
LEMMA MoveCommitRefines ==
    ASSUME IInv, AllPrepared, NEW r \in Requests, MoveCommit(r)
    PROVE  H!Next
<1> DEFINE v == NewVersion(r)
           t == MoveTombstone(r)
           hist == HistoryOf(files, versions)
           f == Put(files, v)
           rows == versions \cup {v}
<1>1. /\ pc[r] = "commit" /\ call[r].kind = "move" /\ ~skip[r]
      /\ ~Taken(versions, v.path, v.number) /\ ~Taken(rows, t.path, t.number)
      /\ versions' = rows \cup {t} /\ files' = Put(f, t)
      /\ won' = [won EXCEPT ![r] = v.number] /\ call' = call
      /\ v.path = call[r].path /\ v.number = last[r]
      /\ t.path = call[r].from /\ t.number = seen[r].from + 1
  BY DEF MoveCommit, NewVersion, MoveTombstone, Put
<1>2. /\ call[r] \in Call /\ SeenIsPast(r) /\ Prepared(r) /\ won[r] = 0
      /\ v \in Version /\ t \in Version
      /\ Agree(files, versions) /\ files \in [Paths -> Pointer] /\ versions \in SUBSET Version
      /\ \A p \in Paths : /\ files[p].number \in Nat
                          /\ hist[p] \in Seq(H!Entry) /\ Len(hist[p]) = files[p].number
  BY <1>1, AtCommit
<1>3. call[r].path \in Paths /\ call[r].from \in Paths /\ seen[r].from \in Nat
  BY <1>2 DEF Call, IInv, TypeOK
<1>4. v.number = files[v.path].number + 1
  BY <1>1, CommitsNext
<1> HIDE DEF v, t
<1>5. Agree(f, rows) /\ f \in [Paths -> Pointer] /\ rows \in SUBSET Version
  BY <1>2, <1>4, PutKeepsAgreement DEF Put
<1>6. /\ f[v.path].number = v.number
      /\ \A p \in Paths : files[p].number <= f[p].number /\ f[p].number \in Nat
  BY <1>1, <1>2, <1>3, <1>4, <1>5 DEF Put, PointerTo, Pointer
<1>7. t.number <= files[t.path].number + 1
  BY <1>1, <1>2, <1>3 DEF SeenIsPast
<1>8. t.number = f[t.path].number + 1
  <2>1. t.number \in Nat \ {0} /\ t.path \in Paths
    BY <1>2 DEF Version
  <2>2. files[t.path].number <= f[t.path].number
    BY <1>6, <2>1
  <2>3. files[t.path].number \in Nat /\ f[t.path].number \in Nat
    BY <1>2, <1>6, <2>1
  <2>4. t.number <= f[t.path].number + 1
    BY <1>7, <2>1, <2>2, <2>3
  <2> QED
    BY <1>1, <1>5, <2>1, <2>4, NextFree
<1>9. call[r].from # call[r].path
  BY <1>1, <1>2, <1>3, <1>4, <1>6, <1>7, <1>8
<1>10. HistoryOf(f, rows) = Appended(hist, v)
  BY <1>2, <1>4, PutAppends
<1>11. HistoryOf(Put(f, t), rows \cup {t}) = Appended(HistoryOf(f, rows), t)
  <2> HIDE DEF f, rows
  <2>1. t \in Version
    BY <1>2
  <2> QED
    BY <1>5, <1>8, <2>1, PutAppends
<1>12. EntryOf(t) = H!Tombstone
  BY DEF EntryOf, MoveTombstone, H!Tombstone, t
<1>13. HistoryOf(files', versions')
         = [H!With(call[r].path, EntryOf(v)) EXCEPT ![call[r].from] = Append(@, H!Tombstone)]
  BY <1>1, <1>10, <1>11, <1>12 DEF Appended, H!With
<1>14. EntryOf(v) \in H!LiveEntries(call[r].from)
  <2>1. src[r] \in versions /\ src[r].path = call[r].from /\ ~src[r].tombstone
    BY <1>1, <1>2 DEF Prepared, SourceKinds
  <2>2. EntryOf(v) = EntryOf(src[r])
    BY <1>1, <1>2, <2>1 DEF EntryOf, NewVersion, Version, v
  <2> QED
    BY <2>1, <2>2, SourceIsLive
<1>15. won' = H!Positioned(r)
  BY <1>1, <1>2, <1>3, <1>4 DEF H!Positioned
<1> QED
  BY <1>1, <1>2, <1>9, <1>13, <1>14, <1>15, HistoryPrimed DEF H!Next, H!Move, H!Asks

(* A move that takes an entry of another request only hides its source.    *)
LEMMA MoveFinishRefines ==
    ASSUME IInv, AllPrepared, NEW r \in Requests, MoveFinish(r)
    PROVE  H!Next
<1> DEFINE t == MoveTombstone(r)
           hist == HistoryOf(files, versions)
<1>1. /\ pc[r] = "commit" /\ call[r].kind = "move" /\ skip[r]
      /\ ~Taken(versions, t.path, t.number)
      /\ versions' = versions \cup {t} /\ files' = Put(files, t)
      /\ won' = [won EXCEPT ![r] = last[r]] /\ call' = call
      /\ t.path = call[r].from /\ t.number = seen[r].from + 1
  BY DEF MoveFinish, MoveTombstone, Put
<1>2. /\ call[r] \in Call /\ SeenIsPast(r) /\ Prepared(r) /\ won[r] = 0 /\ t \in Version
      /\ Agree(files, versions) /\ files \in [Paths -> Pointer] /\ versions \in SUBSET Version
      /\ \A p \in Paths : /\ files[p].number \in Nat
                          /\ hist[p] \in Seq(H!Entry) /\ Len(hist[p]) = files[p].number
  BY <1>1, AtCommit
<1>3. /\ call[r].path \in Paths /\ call[r].from \in Paths /\ seen[r].from \in Nat
      /\ last[r] \in Nat
  BY <1>2 DEF Call, IInv, TypeOK
<1> HIDE DEF t
<1>4. t.number = files[t.path].number + 1
  <2>1. t.number <= files[t.path].number + 1 /\ t.number \in Nat \ {0} /\ t.path \in Paths
    BY <1>1, <1>2, <1>3 DEF SeenIsPast
  <2> QED
    BY <1>1, <1>2, <2>1, NextFree
<1>5. HistoryOf(Put(files, t), versions \cup {t}) = Appended(hist, t)
  BY <1>2, <1>4, PutAppends
<1>6. EntryOf(t) = H!Tombstone
  BY DEF EntryOf, MoveTombstone, H!Tombstone, t
<1>7. HistoryOf(files', versions') = H!With(call[r].from, H!Tombstone)
  BY <1>1, <1>5, <1>6 DEF Appended, H!With
<1>8. last[r] \in DOMAIN hist[call[r].path]
  BY <1>1, <1>2, <1>3 DEF SeenIsPast, Prepared
<1> QED
  BY <1>1, <1>2, <1>7, <1>8, HistoryPrimed DEF H!Next, H!Retire, H!Asks

(* Every other step leaves the tables and the numbers given alone.         *)
LEMMA OthersStutter ==
    ASSUME NEW r \in Requests, Step(r) \/ Crash(r),
           ~Commit(r), ~MoveCommit(r), ~MoveFinish(r)
    PROVE  UNCHANGED <<files, versions, won, call>>
BY DEF Step, Crash, PutBlob, GetSource, SourceMissing, GetFrom, GetFile, NothingToDelete,
       CasConflict, Collide, Audit, GetBlob, Index, stores

(* Whatever the interleaving, the retries and the crashes, a request is    *)
(* one append to the history of its path - a move, one to both ends - or   *)
(* nothing, and the version number it returns is the position of its entry.*)
THEOREM HistoryImplemented == Spec => ImplementsHistory
<1>1. Init => H!Init
  BY DEF Init, H!Init
<1>2. IInv /\ AllPrepared /\ [Next]_vars => [H!Next]_(H!hvars)
  <2> SUFFICES ASSUME IInv, AllPrepared, [Next]_vars PROVE H!Next \/ UNCHANGED H!hvars
    OBVIOUS
  <2>1. ASSUME UNCHANGED <<files, versions, won, call>> PROVE UNCHANGED H!hvars
    BY <2>1, HistoryPrimed DEF H!hvars
  <2>2. ASSUME NEW r \in Requests, Step(r) \/ Crash(r) PROVE H!Next \/ UNCHANGED H!hvars
    BY <2>1, <2>2, CommitRefines, MoveCommitRefines, MoveFinishRefines, OthersStutter
  <2>3. CASE UNCHANGED vars
    BY <2>1, <2>3 DEF vars, stores, locals
  <2> QED
    BY <2>2, <2>3 DEF Next
<1> QED
  BY <1>1, <1>2, InitPrepared, StepKeepsPrepared, Invariance, PTL
     DEF Spec, ImplementsHistory, H!Spec
=============================================================================
