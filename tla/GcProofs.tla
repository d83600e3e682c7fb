------------------------------ MODULE GcProofs ------------------------------
(***************************************************************************)
(* Safety of the garbage collector beside any number of requests.          *)
(*                                                                         *)
(* Two kinds of facts.  Some need nothing but the code: content that was   *)
(* there before, and a collection nobody disturbs (GcInv).  The others     *)
(* rest on no number being given twice, and a collected number is free     *)
(* again: a request that commits a number it computed before MaxRecent     *)
(* later versions were committed and collected would be let in below the   *)
(* pointer.  So they are theorems about the behaviours in which every      *)
(* request commits in time (Prompt), proved with RetentionInv.  Prompt     *)
(* holds by itself when there are at most MaxRecent + 1 requests.          *)
(***************************************************************************)
EXTENDS VfsGc, VfsProofs, FiniteSetTheorems, FunctionTheorems

----------------------------------------------------------------------------
(* What needs no assumption on the requests.                               *)

GcTyped ==
    /\ gc \in {"idle", "listed", "sweeping", "unlink"}
    /\ doomed \subseteq Version
    /\ listed \subseteq Hashes
    /\ visited \subseteq Hashes
    /\ sweep \in Hashes \cup {Empty}
    /\ gc = "unlink" => sweep \in Hashes
    /\ quiet \in BOOLEAN
    /\ runs \in Nat

(* Whatever is committed is new: beyond the versions of the initial state. *)
PastInitial ==
    /\ \A p \in Paths : InitFiles[p].number <= files[p].number
    /\ \A r \in Requests :
        /\ pc[r] = "commit" /\ (call[r].kind # "move" \/ ~skip[r])
            => InitFiles[call[r].path].number < last[r]
        /\ pc[r] \in {"getfile", "commit"} /\ call[r].kind = "move"
            => InitFiles[call[r].from].number <= seen[r].from

(* The hash whose text has gone has no version of the initial state left.  *)
StandingInv ==
    /\ StandingContentKept
    /\ gc = "unlink" => \A v \in InitVersions \cap versions : v.hash # sweep

ReferencedHashes == {v.hash : v \in versions}

(* In a quiet run every blob without a reference is still to be listed, or *)
(* being swept.                                                            *)
QuietInv ==
    quiet =>
        /\ \A r \in Requests : pc[r] \in Terminal
        /\ gc = "sweeping" => blobs \subseteq listed \cup ReferencedHashes
        /\ gc = "unlink" => blobs \subseteq listed \cup ReferencedHashes \cup {sweep}
        /\ gc = "idle" => blobs \subseteq ReferencedHashes

GcInv == SoundlyTyped /\ GcTyped /\ PastInitial /\ StandingInv /\ QuietInv

----------------------------------------------------------------------------
(* What rests on no number being given twice.                              *)

(* A request is prompt if at its commit fewer than MaxRecent versions have *)
(* come between what it read and the version it asks for.                  *)
PromptRequest(r) ==
    pc[r] = "commit" =>
        /\ call[r].kind # "move" \/ ~skip[r]
            => files[call[r].path].number <= seen[r].path + MaxRecent
        /\ call[r].kind = "move"
            => files[call[r].from].number <= seen[r].from + MaxRecent

Prompt == \A r \in Requests : PromptRequest(r)

(* The tables agree up to what the collector may take: never version 1 nor *)
(* one of the MaxRecent newest.                                            *)
AgreeBut(f, rows) ==
    /\ \A v, w \in rows : v.path = w.path /\ v.number = w.number => v = w
    /\ \A v \in rows :
        /\ v.number <= f[v.path].number
        /\ v.number = f[v.path].number => f[v.path] = PointerTo(v)
    /\ \A p \in Paths : \A n \in 1 .. f[p].number :
        Taken(rows, p, n) \/ (n # 1 /\ n + MaxRecent <= f[p].number)

(* What the collector has listed may be taken, and remains so.             *)
DoomedAreOld ==
    \A v \in doomed : v.number # 1 /\ v.number + MaxRecent <= files[v.path].number

(* A number that was given is not beyond the pointer.                      *)
GivenIsPast(r) ==
    won[r] # 0 =>
        /\ pc[r] \in {"audit", "done", "crashed"}
        /\ call[r].kind # "move" => won[r] <= files[call[r].path].number

RetentionInv ==
    /\ AgreeBut(files, versions)
    /\ DoomedAreOld
    /\ \A r \in Requests : SeenIsPast(r) /\ GivenIsPast(r)
    /\ WrittenTextKept

----------------------------------------------------------------------------
(* The steps, without an assumption on the requests.                       *)

(* No step is possible for a request that has returned or died.            *)
LEMMA OnlyRunningStep ==
    ASSUME NEW r \in Requests, Step(r) \/ Crash(r)
    PROVE  pc[r] \in Running
BY DEF Step, Crash, PutBlob, GetSource, SourceMissing, GetFrom, GetFile, NothingToDelete,
       Commit, MoveCommit, MoveFinish, CasConflict, Collide, Audit, GetBlob, Index, Running

(* The collector finds the tables as earlier calls left them.              *)
LEMMA GcInitSatisfies == GcInit => GcInv
<1> SUFFICES ASSUME GcInit PROVE GcInv
  OBVIOUS
<1>1. SoundlyTyped
  BY InitSatisfies, InvariantIsSound DEF GcInit
<1>2. GcTyped
  BY DEF GcInit, GcTyped
<1>3. PastInitial
  <2>1. \A p \in Paths : InitFiles[p].number \in Nat
    BY InitAssumption DEF Pointer
  <2>2. ASSUME NEW r \in Requests
        PROVE  pc[r] # "commit" /\ (pc[r] = "getfile" => call[r].kind # "move")
    BY DEF GcInit, Init, FirstStep
  <2> QED
    BY <2>1, <2>2 DEF GcInit, Init, PastInitial
<1>4. StandingInv
  BY DEF GcInit, Init, StandingInv, StandingContentKept
<1>5. QuietInv
  BY DEF GcInit, QuietInv
<1> QED
  BY <1>1, <1>2, <1>3, <1>4, <1>5 DEF GcInv

(* A request commits nothing but numbers beyond the initial pointers.      *)
LEMMA CommitsPastInitial ==
    ASSUME SoundlyTyped, PastInitial, NEW r \in Requests, Step(r) \/ Crash(r)
    PROVE  /\ \A w \in versions' \ versions :
                w \in Version /\ InitFiles[w.path].number < w.number
           /\ \A p \in Paths : InitFiles[p].number <= files'[p].number
<1> DEFINE Goal == /\ \A w \in versions' \ versions :
                        w \in Version /\ InitFiles[w.path].number < w.number
                   /\ \A p \in Paths : InitFiles[p].number <= files'[p].number
           v == NewVersion(r)
           t == MoveTombstone(r)
<1>1. /\ TypeOK /\ Sound(r) /\ call[r].path \in Paths /\ call[r].from \in Paths
      /\ \A p \in Paths : InitFiles[p].number \in Nat /\ InitFiles[p].number <= files[p].number
      /\ files \in [Paths -> Pointer]
  BY CallAssumption, InitAssumption DEF SoundlyTyped, TypeOK, Call, PastInitial, Pointer
<1>2. CASE UNCHANGED <<files, versions>>
  BY <1>1, <1>2
<1>3. ASSUME pc[r] = "commit" PROVE v \in Version /\ t \in Version /\ v.number = last[r]
  BY <1>1, <1>3, NewVersionType, MoveTombstoneType DEF Sound, NewVersion
<1>4. /\ v.path = call[r].path /\ t.path = call[r].from /\ t.number = seen[r].from + 1
      /\ seen[r].from \in Nat /\ last[r] \in Nat
  BY <1>1 DEF NewVersion, MoveTombstone, TypeOK
<1> HIDE DEF v, t
<1>5. CASE Commit(r)
  <2>1. /\ pc[r] = "commit" /\ call[r].kind # "move" /\ versions' = versions \cup {v}
        /\ files' = [files EXCEPT ![v.path] = PointerTo(v)]
    BY <1>5 DEF Commit, v
  <2>2. InitFiles[v.path].number < v.number
    BY <1>3, <1>4, <2>1 DEF PastInitial
  <2> QED
    BY <1>1, <1>3, <1>4, <2>1, <2>2 DEF PointerTo
<1>6. CASE MoveCommit(r)
  <2>1. /\ pc[r] = "commit" /\ call[r].kind = "move" /\ ~skip[r] /\ versions' = versions \cup {v, t}
        /\ files' = [files EXCEPT ![v.path] = PointerTo(v), ![t.path] = PointerTo(t)]
    BY <1>6 DEF MoveCommit, v, t
  <2>2. InitFiles[v.path].number < v.number /\ InitFiles[t.path].number < t.number
    BY <1>1, <1>3, <1>4, <2>1 DEF PastInitial
  <2> QED
    BY <1>1, <1>3, <1>4, <2>1, <2>2 DEF PointerTo
<1>7. CASE MoveFinish(r)
  <2>1. /\ pc[r] = "commit" /\ call[r].kind = "move" /\ versions' = versions \cup {t}
        /\ files' = [files EXCEPT ![t.path] = PointerTo(t)]
    BY <1>7 DEF MoveFinish, t
  <2>2. InitFiles[t.path].number < t.number
    BY <1>1, <1>4, <2>1 DEF PastInitial
  <2> QED
    BY <1>1, <1>3, <1>4, <2>1, <2>2 DEF PointerTo
<1> QED
  BY <1>2, <1>5, <1>6, <1>7, OthersStutter

(* A request's step keeps what is beyond the initial state there.          *)
LEMMA PastInitialStep ==
    ASSUME SoundlyTyped, PastInitial, [Next]_vars
    PROVE  PastInitial'
<1>1. TypeOK /\ \A r \in Requests : Sound(r) /\ call[r].path \in Paths /\ call[r].from \in Paths
  BY CallAssumption DEF SoundlyTyped, TypeOK, Call
<1>2. \A p \in Paths : InitFiles[p].number \in Nat /\ files[p].number \in Nat
  BY <1>1, InitAssumption DEF TypeOK, Pointer
<1> DEFINE Beyond(s) == /\ pc[s] = "commit" /\ (call[s].kind # "move" \/ ~skip[s])
                            => InitFiles[call[s].path].number < last[s]
                        /\ pc[s] \in {"getfile", "commit"} /\ call[s].kind = "move"
                            => InitFiles[call[s].from].number <= seen[s].from
<1>3. ASSUME NEW r \in Requests, NEW s \in Requests \ {r}, Step(r) \/ Crash(r) PROVE Beyond(s)'
  BY <1>1, <1>3, StepIsLocal DEF OthersKept, PastInitial
<1>4. ASSUME NEW r \in Requests, Step(r) \/ Crash(r) PROVE Beyond(r)'
  <2> USE <1>1, <1>2 DEF Goto, TypeOK, stores, PastInitial
  <2>1. CASE PutBlob(r) \/ SourceMissing(r) \/ NothingToDelete(r) \/ CasConflict(r)
    BY <2>1 DEF PutBlob, SourceMissing, NothingToDelete, CasConflict, Sound, KindAt
  <2>2. CASE GetSource(r)
    BY <2>2 DEF GetSource, AfterSource, Sound, KindAt
  <2>3. CASE GetFrom(r)
    BY <2>3 DEF GetFrom
  <2>4. CASE GetFile(r)
    BY <2>4 DEF GetFile, DstCommitted
  <2>5. CASE Commit(r) \/ MoveCommit(r) \/ MoveFinish(r)
    BY <2>5 DEF Commit, MoveCommit, MoveFinish
  <2>6. CASE Collide(r)
    <3>1. call' = call /\ pc'[r] # "commit" /\ (pc'[r] = "getfile" => call[r].kind # "move")
      BY <2>6 DEF Collide
    <3> QED
      BY <3>1
  <2>7. CASE Audit(r) \/ Index(r) \/ Crash(r)
    BY <2>7 DEF Audit, Index, Crash
  <2>8. CASE GetBlob(r)
    <3>1. pc'[r] \in {"noblob", "done", "index"}
      BY <2>8 DEF GetBlob, Sound, KindAt
    <3> QED
      BY <3>1
  <2> QED
    BY <1>4, <2>1, <2>2, <2>3, <2>4, <2>5, <2>6, <2>7, <2>8 DEF Step
<1>5. CASE UNCHANGED vars
  BY <1>5 DEF vars, stores, locals, PastInitial
<1> QED
  BY <1>3, <1>4, <1>5, CommitsPastInitial DEF Next, PastInitial

(* A request's step preserves the invariant.                               *)
LEMMA RequestKeepsGcInv == GcInv /\ [Next]_vars /\ UNCHANGED gcvars => GcInv'
<1> SUFFICES ASSUME GcInv, [Next]_vars, UNCHANGED gcvars PROVE GcInv'
  OBVIOUS
<1>1. SoundlyTyped' /\ PastInitial'
  BY SoundStep, PastInitialStep DEF GcInv
<1>2. GcTyped'
  BY DEF GcInv, GcTyped, gcvars
<1>3. blobs \subseteq blobs' /\ text \subseteq text'
  BY ContentsGrow
<1>4. InitVersions \cap versions' \subseteq versions
  <2>1. \A w \in InitVersions : w \in Version /\ w.number <= InitFiles[w.path].number
    BY InitAssumption DEF Agree
  <2>2. \A w \in Version : InitFiles[w.path].number \in Nat /\ w.number \in Nat
    BY InitAssumption DEF Version, Pointer
  <2>3. ASSUME NEW r \in Requests, Step(r) \/ Crash(r), NEW w \in versions' \ versions
        PROVE  w \in Version /\ InitFiles[w.path].number < w.number
    BY <2>3, CommitsPastInitial DEF GcInv
  <2> QED
    BY <2>1, <2>2, <2>3 DEF Next, vars, stores
<1>5. StandingInv'
  BY <1>3, <1>4 DEF GcInv, StandingInv, StandingContentKept, gcvars
<1>6. QuietInv'
  <2>1. CASE quiet
    <3>1. UNCHANGED vars
      BY <2>1, OnlyRunningStep DEF Next, GcInv, QuietInv, Running, Terminal, Failures
    <3> QED
      BY <3>1 DEF GcInv, QuietInv, ReferencedHashes, vars, stores, locals, gcvars
  <2>2. CASE ~quiet
    BY <2>2 DEF QuietInv, gcvars
  <2> QED
    BY <2>1, <2>2
<1> QED
  BY <1>1, <1>2, <1>5, <1>6 DEF GcInv

(* Each step of the collector, and its death, preserves the invariant.     *)
LEMMA CollectorKeepsGcInv == GcInv /\ (GcStep \/ GcCrash) => GcInv'
<1> SUFFICES ASSUME GcInv, GcStep \/ GcCrash PROVE GcInv'
  OBVIOUS
<1> USE DEF GcInv
<1>0. TypeOK /\ GcTyped /\ StandingInv /\ QuietInv /\ PastInitial
  BY DEF SoundlyTyped
<1>1. SoundlyTyped' /\ PastInitial'
  <2>1. UNCHANGED <<files, locals>>
    BY DEF GcStep, GcCrash, ListReclaimable, DeleteVersions, NextHash, PassOver, SweepText,
           SweepBlob, GcEnd, vars, stores
  <2>2. versions' \subseteq versions /\ blobs' \subseteq blobs /\ text' \subseteq text
    BY DEF GcStep, GcCrash, ListReclaimable, DeleteVersions, NextHash, PassOver, SweepText,
           SweepBlob, GcEnd, vars, stores
  <2>3. audit' \subseteq AuditEvent
    <3>1. audit' = audit \/ audit' = audit \cup {[kind |-> "gc_run", path |-> Empty, number |-> runs]}
      BY DEF GcStep, GcCrash, ListReclaimable, DeleteVersions, NextHash, PassOver, SweepText,
             SweepBlob, GcEnd, vars, stores
    <3>2. [kind |-> "gc_run", path |-> Empty, number |-> runs] \in AuditEvent
      BY <1>0 DEF AuditEvent, GcTyped
    <3> QED
      BY <1>0, <3>1, <3>2 DEF TypeOK
  <2>4. TypeOK'
    BY <1>0, <2>1, <2>2, <2>3 DEF TypeOK, locals
  <2> QED
    BY <1>0, <2>1, <2>4 DEF SoundlyTyped, Sound, KindAt, PastInitial, locals
<1>2. GcTyped'
  <2> USE <1>0 DEF GcTyped, TypeOK
  <2>1. CASE ListReclaimable
    BY <2>1 DEF ListReclaimable, Reclaimable
  <2>2. CASE DeleteVersions
    BY <2>2 DEF DeleteVersions
  <2>3. ASSUME NEW h \in Hashes, PassOver(h) \/ SweepText(h) PROVE GcTyped'
    BY <2>3 DEF PassOver, SweepText, NextHash
  <2>4. CASE SweepBlob \/ GcEnd \/ GcCrash
    BY <2>4 DEF SweepBlob, GcEnd, GcCrash
  <2> QED
    BY <2>1, <2>2, <2>3, <2>4 DEF GcStep
<1>3. StandingInv'
  <2> USE <1>0 DEF StandingInv, StandingContentKept
  <2>1. CASE ListReclaimable \/ GcEnd \/ GcCrash
    BY <2>1 DEF ListReclaimable, GcEnd, GcCrash, vars, stores
  <2>2. CASE DeleteVersions
    BY <2>2 DEF DeleteVersions
  <2>3. ASSUME NEW h \in Hashes, PassOver(h) PROVE StandingInv'
    BY <2>3 DEF PassOver, NextHash, vars, stores
  <2>4. ASSUME NEW h \in Hashes, SweepText(h) PROVE StandingInv'
    BY <2>4 DEF SweepText, NextHash, Referenced
  <2>5. CASE SweepBlob
    BY <2>5 DEF SweepBlob
  <2> QED
    BY <2>1, <2>2, <2>3, <2>4, <2>5 DEF GcStep
<1>4. QuietInv'
  <2> USE <1>0 DEF QuietInv, ReferencedHashes
  <2>1. CASE ListReclaimable
    BY <2>1 DEF ListReclaimable, vars, locals
  <2>2. CASE DeleteVersions
    BY <2>2 DEF DeleteVersions, locals
  <2>3. ASSUME NEW h \in Hashes, PassOver(h) PROVE QuietInv'
    BY <2>3 DEF PassOver, NextHash, Referenced, vars, stores, locals
  <2>4. ASSUME NEW h \in Hashes, SweepText(h) PROVE QuietInv'
    BY <2>4 DEF SweepText, NextHash, locals
  <2>5. CASE SweepBlob
    BY <2>5 DEF SweepBlob, locals
  <2>6. CASE GcEnd
    BY <2>6 DEF GcEnd, locals
  <2>7. CASE GcCrash
    BY <2>7 DEF GcCrash
  <2> QED
    BY <2>1, <2>2, <2>3, <2>4, <2>5, <2>6, <2>7 DEF GcStep
<1> QED
  BY <1>1, <1>2, <1>3, <1>4 DEF GcInv

(* The invariant holds in every state of the VFS and its collector.        *)
THEOREM GcInvariance == GcSpec => []GcInv
<1>1. GcInv /\ [GcNext]_allvars => GcInv'
  BY RequestKeepsGcInv, CollectorKeepsGcInv DEF GcNext, allvars
<1> QED
  BY <1>1, GcInitSatisfies, PTL DEF GcSpec

(* A version the collection found and left keeps its blob and its text: no *)
(* sweep takes the content of a hash that was referred to all along        *)
(* (_blob_gc).                                                             *)
THEOREM StandingContentSurvives == GcSpec => []StandingContentKept
<1>1. GcInv => StandingContentKept
  BY DEF GcInv, StandingInv
<1> QED
  BY <1>1, GcInvariance, PTL

(* A run with no request under way leaves no blob without a reference,     *)
(* also one a run before it had taken the text of and died (_blob_gc).     *)
THEOREM QuietRunCompletes == GcSpec => []QuietRunIsComplete
<1>1. GcInv => QuietRunIsComplete
  BY DEF GcInv, QuietInv, QuietRunIsComplete, ReferencedHashes
<1> QED
  BY <1>1, GcInvariance, PTL

----------------------------------------------------------------------------
(* Retention.                                                              *)

(* A free number that is not beyond the next one, nor old enough to have   *)
(* been collected, is the next one.                                        *)
LEMMA NextFreeBut ==
    ASSUME NEW f \in [Paths -> Pointer], NEW rows, AgreeBut(f, rows),
           NEW p \in Paths, NEW n \in Nat \ {0},
           n <= f[p].number + 1, f[p].number < n + MaxRecent, ~Taken(rows, p, n)
    PROVE  n = f[p].number + 1
BY GcAssumption DEF AgreeBut, Pointer

(* Inserting the next version keeps the tables in agreement.               *)
LEMMA PutKeepsBut ==
    ASSUME NEW f \in [Paths -> Pointer], NEW rows \in SUBSET Version, AgreeBut(f, rows),
           NEW v \in Version, v.number = f[v.path].number + 1
    PROVE  /\ AgreeBut(Put(f, v), rows \cup {v})
           /\ Put(f, v) \in [Paths -> Pointer]
<1> DEFINE g == Put(f, v)
           new == rows \cup {v}
<1>1. g \in [Paths -> Pointer]
  BY DEF PointerTo, Pointer, Version, Put
<1>2. v.path \in Paths /\ v.number \in Nat /\ g[v.path] = PointerTo(v) /\ g[v.path].number = v.number
  BY DEF PointerTo, Version, Put
<1>3. \A p \in Paths : p # v.path => g[p] = f[p]
  BY DEF Put
<1>4. \A w \in rows : w.path = v.path => w.number < v.number
  BY DEF AgreeBut, Version, Pointer
<1> HIDE DEF g
<1>5. \A w, x \in new : w.path = x.path /\ w.number = x.number => w = x
  BY <1>4 DEF AgreeBut, Version
<1>6. \A w \in new : /\ w.number <= g[w.path].number
                     /\ w.number = g[w.path].number => g[w.path] = PointerTo(w)
  <2> SUFFICES ASSUME NEW w \in new
               PROVE  /\ w.number <= g[w.path].number
                      /\ w.number = g[w.path].number => g[w.path] = PointerTo(w)
    OBVIOUS
  <2>1. CASE w = v
    BY <2>1, <1>2
  <2>2. CASE w \in rows /\ w.path = v.path
    BY <2>2, <1>2, <1>4 DEF Version
  <2>3. CASE w \in rows /\ w.path # v.path
    BY <2>3, <1>3 DEF AgreeBut, Version
  <2> QED
    BY <2>1, <2>2, <2>3
<1>7. \A p \in Paths : \A n \in 1 .. g[p].number :
        Taken(new, p, n) \/ (n # 1 /\ n + MaxRecent <= g[p].number)
  <2> SUFFICES ASSUME NEW p \in Paths, NEW n \in 1 .. g[p].number
               PROVE  Taken(new, p, n) \/ (n # 1 /\ n + MaxRecent <= g[p].number)
    OBVIOUS
  <2>1. CASE p = v.path /\ n = v.number
    BY <2>1 DEF Taken
  <2>2. CASE p = v.path /\ n # v.number
    <3>1. n \in 1 .. f[p].number /\ f[p].number \in Nat /\ g[p].number = f[p].number + 1
      BY <2>2, <1>2 DEF Pointer
    <3>2. Taken(rows, p, n) \/ (n # 1 /\ n + MaxRecent <= f[p].number)
      BY <3>1 DEF AgreeBut
    <3> QED
      BY <3>1, <3>2, GcAssumption DEF Taken
  <2>3. CASE p # v.path
    BY <2>3, <1>3 DEF AgreeBut, Taken
  <2> QED
    BY <2>1, <2>2, <2>3
<1> QED
  BY <1>1, <1>5, <1>6, <1>7 DEF AgreeBut, g

(* Lemma about list_reclaimable_versions: what it lists has MaxRecent      *)
(* numbers of its file after it.                                           *)
LEMMA ListedAreOld ==
    ASSUME TypeOK, AgreeBut(files, versions), NEW v \in Reclaimable(versions)
    PROVE  v.number # 1 /\ v.number + MaxRecent <= files[v.path].number
<1> DEFINE S == Newer(versions, v)
           k == files[v.path].number
           T == (v.number + 1) .. k
           g == [w \in S |-> w.number]
<1>1. /\ v \in versions /\ v.number # 1 /\ Cardinality(S) >= MaxRecent
      /\ v \in Version /\ v.number \in Nat /\ k \in Nat /\ v.number <= k
  BY DEF Reclaimable, TypeOK, Version, Pointer, AgreeBut
<1>2. \A w \in S : w \in versions /\ w.path = v.path /\ w.number > v.number /\ w.number \in Nat
  BY DEF Newer, TypeOK, Version
<1>3. \A w \in S : w.number \in T
  BY <1>1, <1>2 DEF AgreeBut
<1>4. g \in Injection(S, T)
  <2>1. g \in [S -> T]
    BY <1>3
  <2>2. \A w, x \in S : g[w] = g[x] => w = x
    BY <1>2 DEF AgreeBut
  <2> QED
    BY <2>1, <2>2, Fun_IsInj
<1>5. IsFiniteSet(T) /\ Cardinality(T) <= k - v.number
  <2>1. v.number + 1 \in Int /\ k \in Int
    BY <1>1
  <2>2. /\ IsFiniteSet(T)
        /\ Cardinality(T) = IF v.number + 1 > k THEN 0 ELSE k - (v.number + 1) + 1
    BY <2>1, FS_Interval
  <2> HIDE DEF T, k
  <2> QED
    BY <1>1, <2>2
<1>6. IsFiniteSet(S) /\ Cardinality(S) <= Cardinality(T)
  BY <1>4, <1>5, FS_Injection
<1>7. Cardinality(S) \in Nat
  BY <1>6, FS_CardinalityType
<1>8. Cardinality(T) \in Nat
  BY <1>5, FS_CardinalityType
<1> HIDE DEF S, T, k
<1> QED
  BY <1>1, <1>5, <1>6, <1>7, <1>8, GcAssumption DEF k

(* What a request at its commit has to work with.                          *)
LEMMA PromptAtCommit ==
    ASSUME SoundlyTyped, RetentionInv, NEW r \in Requests, pc[r] = "commit"
    PROVE  /\ TypeOK /\ call[r] \in Call /\ SeenIsPast(r) /\ won[r] = 0
           /\ files \in [Paths -> Pointer] /\ versions \in SUBSET Version
           /\ \A p \in Paths : files[p].number \in Nat
           /\ NewVersion(r) \in Version /\ MoveTombstone(r) \in Version
           /\ NewVersion(r).path = call[r].path /\ NewVersion(r).number = last[r]
           /\ MoveTombstone(r).path = call[r].from
           /\ MoveTombstone(r).number = seen[r].from + 1
           /\ call[r].path \in Paths /\ call[r].from \in Paths
           /\ seen[r].path \in Nat /\ seen[r].from \in Nat /\ last[r] \in Nat
<1>1. /\ TypeOK /\ call[r] \in Call /\ SeenIsPast(r) /\ won[r] = 0 /\ last[r] # 0
      /\ \A p \in Paths : files[p].number \in Nat
  BY CallAssumption DEF SoundlyTyped, Sound, TypeOK, RetentionInv, GivenIsPast, Pointer
<1> QED
  BY <1>1, NewVersionType, MoveTombstoneType
     DEF TypeOK, Call, NewVersion, MoveTombstone

(* A prompt request holds the number right after the pointer.              *)
LEMMA PromptCommitsNext ==
    ASSUME SoundlyTyped, RetentionInv, NEW r \in Requests, PromptRequest(r), pc[r] = "commit",
           call[r].kind # "move" \/ ~skip[r],
           ~Taken(versions, call[r].path, last[r])
    PROVE  last[r] = files[call[r].path].number + 1
<1>1. /\ last[r] = seen[r].path + 1 /\ seen[r].path \in Nat
      /\ seen[r].path <= files[call[r].path].number
      /\ files[call[r].path].number <= seen[r].path + MaxRecent
      /\ call[r].path \in Paths /\ files[call[r].path].number \in Nat
      /\ files \in [Paths -> Pointer]
  BY PromptAtCommit DEF SeenIsPast, PromptRequest
<1>2. files[call[r].path].number < last[r] + MaxRecent
  BY <1>1, GcAssumption
<1> QED
  BY <1>1, <1>2, NextFreeBut DEF RetentionInv

(* So does the tombstone a prompt move writes at its source.               *)
LEMMA PromptTombstoneNext ==
    ASSUME SoundlyTyped, RetentionInv, NEW r \in Requests, PromptRequest(r), pc[r] = "commit",
           call[r].kind = "move", ~Taken(versions, call[r].from, seen[r].from + 1)
    PROVE  seen[r].from + 1 = files[call[r].from].number + 1
<1>1. /\ seen[r].from \in Nat
      /\ seen[r].from <= files[call[r].from].number
      /\ files[call[r].from].number <= seen[r].from + MaxRecent
      /\ call[r].from \in Paths /\ files[call[r].from].number \in Nat
      /\ files \in [Paths -> Pointer]
  BY PromptAtCommit DEF SeenIsPast, PromptRequest
<1>2. files[call[r].from].number < (seen[r].from + 1) + MaxRecent
  BY <1>1, GcAssumption
<1> QED
  BY <1>1, <1>2, NextFreeBut DEF RetentionInv

(* What a request's step does to the tables: nothing, one version put, or  *)
(* one put at each end of a move.                                          *)
LEMMA PromptPuts ==
    ASSUME SoundlyTyped, RetentionInv, NEW r \in Requests, PromptRequest(r), Step(r) \/ Crash(r)
    PROVE  \/ UNCHANGED <<files, versions>>
           \/ \E v \in Version :
                /\ v.number = files[v.path].number + 1
                /\ files' = Put(files, v) /\ versions' = versions \cup {v}
           \/ \E v, t \in Version :
                /\ v.number = files[v.path].number + 1
                /\ t.number = files[t.path].number + 1
                /\ t.path # v.path
                /\ files' = Put(Put(files, v), t) /\ versions' = versions \cup {v} \cup {t}
<1> DEFINE v == NewVersion(r)
           t == MoveTombstone(r)
<1>1. ASSUME Commit(r)
      PROVE  /\ v \in Version /\ v.number = files[v.path].number + 1
             /\ files' = Put(files, v) /\ versions' = versions \cup {v}
  <2>1. /\ pc[r] = "commit" /\ call[r].kind # "move" /\ ~Taken(versions, v.path, v.number)
        /\ files' = Put(files, v) /\ versions' = versions \cup {v}
    BY <1>1 DEF Commit, Put
  <2> QED
    BY <2>1, PromptAtCommit, PromptCommitsNext
<1>2. ASSUME MoveFinish(r)
      PROVE  /\ t \in Version /\ t.number = files[t.path].number + 1
             /\ files' = Put(files, t) /\ versions' = versions \cup {t}
  <2>1. /\ pc[r] = "commit" /\ call[r].kind = "move" /\ ~Taken(versions, t.path, t.number)
        /\ files' = Put(files, t) /\ versions' = versions \cup {t}
    BY <1>2 DEF MoveFinish, Put
  <2> QED
    BY <2>1, PromptAtCommit, PromptTombstoneNext
<1>3. ASSUME MoveCommit(r)
      PROVE  /\ v \in Version /\ v.number = files[v.path].number + 1
             /\ t \in Version /\ t.number = files[t.path].number + 1 /\ t.path # v.path
             /\ files' = Put(Put(files, v), t) /\ versions' = versions \cup {v} \cup {t}
  <2>1. /\ pc[r] = "commit" /\ call[r].kind = "move" /\ ~skip[r]
        /\ ~Taken(versions, v.path, v.number) /\ ~Taken(versions \cup {v}, t.path, t.number)
        /\ files' = Put(Put(files, v), t) /\ versions' = versions \cup {v} \cup {t}
    BY <1>3 DEF MoveCommit, Put
  <2>2. v \in Version /\ t \in Version /\ v.number = files[v.path].number + 1
    BY <2>1, PromptAtCommit, PromptCommitsNext
  <2>3. ~Taken(versions, t.path, t.number) /\ (t.path # v.path \/ t.number # v.number)
    BY <2>1 DEF Taken
  <2>4. t.number = files[t.path].number + 1
    BY <2>1, <2>3, PromptAtCommit, PromptTombstoneNext
  <2> QED
    BY <2>1, <2>2, <2>3, <2>4
<1> HIDE DEF v, t
<1> QED
  BY <1>1, <1>2, <1>3, OthersStutter

(* A prompt request keeps the tables in agreement, moves no pointer back,  *)
(* and gives only numbers beyond the pointers.                             *)
LEMMA PromptTablesGrow ==
    ASSUME SoundlyTyped, RetentionInv, NEW r \in Requests, PromptRequest(r), Step(r) \/ Crash(r)
    PROVE  /\ AgreeBut(files', versions')
           /\ \A p \in Paths : files[p].number <= files'[p].number
           /\ \A w \in versions' \ versions :
                /\ w \in Version
                /\ files[w.path].number < w.number /\ w.number <= files'[w.path].number
<1> DEFINE Goal == /\ AgreeBut(files', versions')
                   /\ \A p \in Paths : files[p].number <= files'[p].number
                   /\ \A w \in versions' \ versions :
                        /\ w \in Version
                        /\ files[w.path].number < w.number /\ w.number <= files'[w.path].number
<1>1. /\ AgreeBut(files, versions)
      /\ files \in [Paths -> Pointer] /\ versions \in SUBSET Version
      /\ \A p \in Paths : files[p].number \in Nat
      /\ \A v \in Version : v.path \in Paths /\ v.number \in Nat
  BY DEF SoundlyTyped, TypeOK, RetentionInv, Pointer, Version
<1>2. \A f \in [Paths -> Pointer], v \in Version, p \in Paths :
        Put(f, v)[p].number = IF p = v.path THEN v.number ELSE f[p].number
  BY <1>1 DEF Put, PointerTo
<1>3. CASE UNCHANGED <<files, versions>>
  BY <1>1, <1>3
<1>4. ASSUME NEW v \in Version, v.number = files[v.path].number + 1,
             files' = Put(files, v), versions' = versions \cup {v}
      PROVE  Goal
  <2>1. AgreeBut(files', versions')
    BY <1>1, <1>4, PutKeepsBut
  <2> QED
    BY <1>1, <1>2, <1>4, <2>1
<1>5. ASSUME NEW v \in Version, NEW t \in Version,
             v.number = files[v.path].number + 1, t.number = files[t.path].number + 1,
             t.path # v.path, files' = Put(Put(files, v), t),
             versions' = versions \cup {v} \cup {t}
      PROVE  Goal
  <2> DEFINE f == Put(files, v)
             rows == versions \cup {v}
  <2>1. AgreeBut(f, rows) /\ f \in [Paths -> Pointer] /\ rows \in SUBSET Version
    BY <1>1, <1>5, PutKeepsBut
  <2>2. t.number = f[t.path].number + 1
    BY <1>1, <1>2, <1>5
  <2>3. \A p \in Paths : Put(f, t)[p].number = IF p = t.path THEN t.number ELSE f[p].number
    BY <1>2, <2>1
  <2>4. files' = Put(f, t) /\ versions' = rows \cup {t}
    BY <1>5
  <2>5. AgreeBut(files', versions')
    <3> HIDE DEF f, rows
    <3> QED
      BY <2>1, <2>2, <2>4, PutKeepsBut
  <2>6. \A p \in Paths : files'[p].number = IF p = t.path THEN t.number
                                            ELSE IF p = v.path THEN v.number ELSE files[p].number
    BY <1>1, <1>2, <2>3, <2>4
  <2> HIDE DEF f, rows
  <2> QED
    BY <1>1, <1>5, <2>5, <2>6
<1> QED
  BY <1>3, <1>4, <1>5, PromptPuts

(* What a request knows of the pointers stays true.                        *)
LEMMA PromptStaysPast ==
    ASSUME SoundlyTyped, RetentionInv, SoundlyTyped',
           NEW r \in Requests, PromptRequest(r), Step(r) \/ Crash(r), NEW s \in Requests
    PROVE  (SeenIsPast(s) /\ GivenIsPast(s))'
<1>1. /\ TypeOK /\ Sound(s) /\ SeenIsPast(s) /\ GivenIsPast(s)
      /\ call[s] \in Call /\ call[s].path \in Paths /\ call[s].from \in Paths
      /\ \A p \in Paths : files[p].number \in Nat /\ files'[p].number \in Nat
      /\ seen[s].path \in Nat /\ seen[s].from \in Nat /\ last[s] \in Nat /\ won[s] \in Nat
  BY CallAssumption DEF SoundlyTyped, TypeOK, RetentionInv, Pointer, Call
<1>2. \A p \in Paths : files[p].number <= files'[p].number
  BY PromptTablesGrow
<1>3. CASE s # r
  <2>1. OthersKept(r)
    BY StepIsLocal DEF SoundlyTyped
  <2> QED
    BY <1>1, <1>2, <1>3, <2>1 DEF OthersKept, SeenIsPast, GivenIsPast
<1>4. CASE s = r
  <2> USE <1>1, <1>4 DEF SeenIsPast, GivenIsPast, Sound, KindAt, Goto, TypeOK, stores
  <2>1. CASE PutBlob(r) \/ SourceMissing(r) \/ NothingToDelete(r) \/ CasConflict(r)
    BY <2>1 DEF PutBlob, SourceMissing, NothingToDelete, CasConflict
  <2>2. CASE GetSource(r)
    BY <2>2 DEF GetSource, AfterSource
  <2>3. CASE GetFrom(r)
    BY <2>3 DEF GetFrom
  <2>4. CASE GetFile(r)
    BY <2>4 DEF GetFile, DstCommitted
  <2>5. CASE Commit(r)
    <3>1. /\ NewVersion(r) \in versions' /\ NewVersion(r) \notin versions
          /\ won'[r] = last[r] /\ call' = call /\ pc'[r] = "audit"
      BY <2>5 DEF Commit, NewVersion, Taken
    <3>2. last[r] <= files'[call[r].path].number
      BY <3>1, PromptTablesGrow DEF NewVersion
    <3> QED
      BY <3>1, <3>2
  <2>6. CASE MoveCommit(r) \/ MoveFinish(r)
    <3>1. pc'[r] = "audit" /\ call'[r].kind = "move"
      BY <2>6 DEF MoveCommit, MoveFinish
    <3> QED
      BY <3>1
  <2>7. CASE Collide(r)
    <3>1. /\ call' = call /\ pc'[r] # "commit" /\ (pc'[r] = "getfile" => call[r].kind # "move")
          /\ won' = won /\ won[r] = 0
      BY <2>7 DEF Collide
    <3> QED
      BY <3>1
  <2>8. CASE Audit(r) \/ Index(r) \/ Crash(r)
    BY <1>2, <2>8 DEF Audit, Index, Crash
  <2>9. CASE GetBlob(r)
    <3>1. pc'[r] \in {"noblob", "done", "index"} /\ won' = won /\ won[r] = 0
      BY <2>9 DEF GetBlob
    <3> QED
      BY <3>1
  <2> QED
    BY <2>1, <2>2, <2>3, <2>4, <2>5, <2>6, <2>7, <2>8, <2>9 DEF Step
<1> QED
  BY <1>3, <1>4

(* The version a write returned.                                           *)
WrittenRow(r) == [NewVersion(r) EXCEPT !.number = won[r]]

(* A write's version enters the table with its text, and no other request  *)
(* can give its number again.                                              *)
LEMMA PromptKeepsText ==
    ASSUME SoundlyTyped, RetentionInv, NEW r \in Requests, PromptRequest(r), Step(r) \/ Crash(r)
    PROVE  WrittenTextKept'
<1> SUFFICES ASSUME NEW s \in Requests, Acked(s)', (call[s].kind = "write")',
                    WrittenRow(s)' \in versions', (call[s].hash \in TextHashes)'
             PROVE  call'[s].hash \in text'
  BY DEF WrittenTextKept, WrittenRow
<1>1. /\ TypeOK /\ call' = call /\ call[s] \in Call /\ call[s].path \in Paths
      /\ \A p \in Paths : files[p].number \in Nat
      /\ text \subseteq text'
  BY CallAssumption, StepIsLocal, ContentsGrow
     DEF SoundlyTyped, TypeOK, Call, Pointer, OthersKept, Next
<1>2. CASE Acked(s) /\ UNCHANGED <<won[s], last[s], src[s]>>
  <2>1. WrittenRow(s)' = WrittenRow(s)
    BY <1>1, <1>2 DEF WrittenRow, NewVersion
  <2>2. WrittenRow(s).path = call[s].path /\ WrittenRow(s).number = won[s]
    BY DEF WrittenRow, NewVersion
  <2>3. won[s] <= files[call[s].path].number /\ won[s] \in Nat
    BY <1>1, <1>2 DEF RetentionInv, GivenIsPast, Acked, TypeOK
  <2>4. WrittenRow(s) \in versions
    BY <1>1, <2>1, <2>2, <2>3, PromptTablesGrow
  <2> QED
    BY <1>1, <1>2, <2>4 DEF RetentionInv, WrittenTextKept, WrittenRow
<1>3. CASE s # r
  <2>1. UNCHANGED <<won[s], last[s], src[s], pc[s]>>
    BY <1>3, StepIsLocal DEF SoundlyTyped, OthersKept
  <2> QED
    BY <1>2, <2>1 DEF Acked
<1>4. CASE s = r /\ Commit(r)
  BY <1>1, <1>4 DEF Commit, NewVersion
<1>5. CASE s = r /\ ~Commit(r)
  <2>1. Acked(s) /\ UNCHANGED <<won[s], last[s], src[s]>>
    <3> USE <1>5 DEF Acked, Goto, TypeOK, SoundlyTyped, RetentionInv, GivenIsPast
    <3>1. CASE Audit(r)
      BY <3>1 DEF Audit
    <3>2. CASE MoveCommit(r) \/ MoveFinish(r)
      BY <1>1, <3>2 DEF MoveCommit, MoveFinish
    <3>3. CASE Crash(r)
      BY <3>3 DEF Crash
    <3>4. ASSUME ~Audit(r), ~MoveCommit(r), ~MoveFinish(r), ~Crash(r)
          PROVE  won' = won /\ pc[r] \notin {"audit", "done", "crashed"}
      BY <3>4 DEF Step, PutBlob, GetSource, SourceMissing, GetFrom, GetFile, NothingToDelete,
                  CasConflict, Collide, GetBlob, Index
    <3> QED
      BY <3>1, <3>2, <3>3, <3>4
  <2> QED
    BY <1>2, <2>1
<1> QED
  BY <1>3, <1>4, <1>5

(* What is listed as old stays old, whoever moves the pointers on.         *)
LEMMA PromptRequestKeeps ==
    GcInv /\ RetentionInv /\ Prompt /\ [Next]_vars /\ UNCHANGED gcvars => RetentionInv'
<1> SUFFICES ASSUME GcInv, RetentionInv, Prompt, [Next]_vars, UNCHANGED gcvars
             PROVE  RetentionInv'
  OBVIOUS
<1>1. CASE UNCHANGED vars
  BY <1>1 DEF RetentionInv, DoomedAreOld, SeenIsPast, GivenIsPast, WrittenTextKept, Acked,
              NewVersion, gcvars, vars, stores, locals
<1>2. ASSUME NEW r \in Requests, Step(r) \/ Crash(r) PROVE RetentionInv'
  <2>1. SoundlyTyped /\ SoundlyTyped' /\ PromptRequest(r)
    BY <1>2, SoundStep DEF GcInv, Prompt
  <2>2. AgreeBut(files, versions)' /\ \A p \in Paths : files[p].number <= files'[p].number
    BY <1>2, <2>1, PromptTablesGrow DEF AgreeBut, Taken
  <2>3. DoomedAreOld'
    <3>1. /\ \A v \in Version : v.path \in Paths /\ v.number \in Nat
          /\ \A p \in Paths : files[p].number \in Nat /\ files'[p].number \in Nat
      BY <2>1 DEF Version, SoundlyTyped, TypeOK, Pointer
    <3>2. doomed' = doomed /\ doomed \subseteq Version
      BY DEF GcInv, GcTyped, gcvars
    <3>3. \A v \in doomed : v.number # 1 /\ v.number + MaxRecent <= files[v.path].number
      BY DEF RetentionInv, DoomedAreOld
    <3> QED
      BY <2>2, <3>1, <3>2, <3>3, GcAssumption DEF DoomedAreOld
  <2>4. \A s \in Requests : (SeenIsPast(s) /\ GivenIsPast(s))'
    BY <1>2, <2>1, PromptStaysPast
  <2>5. WrittenTextKept'
    BY <1>2, <2>1, PromptKeepsText
  <2> QED
    BY <2>2, <2>3, <2>4, <2>5 DEF RetentionInv
<1> QED
  BY <1>1, <1>2 DEF Next

(* The collector takes only what it may, text only of what nothing refers  *)
(* to, and blobs only of such a hash.                                      *)
LEMMA CollectorKeepsRetention ==
    GcInv /\ RetentionInv /\ (GcStep \/ GcCrash) => RetentionInv'
<1> SUFFICES ASSUME GcInv, RetentionInv, GcStep \/ GcCrash PROVE RetentionInv'
  OBVIOUS
<1>1. /\ UNCHANGED <<files, locals>> /\ versions' \subseteq versions
      /\ TypeOK /\ AgreeBut(files, versions) /\ DoomedAreOld /\ WrittenTextKept
  BY DEF GcStep, GcCrash, ListReclaimable, DeleteVersions, NextHash, PassOver, SweepText,
         SweepBlob, GcEnd, vars, stores, GcInv, SoundlyTyped, RetentionInv
<1>2. \A r \in Requests : (SeenIsPast(r) /\ GivenIsPast(r))'
  BY <1>1 DEF RetentionInv, SeenIsPast, GivenIsPast, locals
<1>3. AgreeBut(files, versions)'
  <2>1. CASE versions' = versions
    BY <1>1, <2>1 DEF AgreeBut, Taken
  <2>2. CASE DeleteVersions
    <3>1. versions' = versions \ doomed /\ files' = files
      BY <2>2 DEF DeleteVersions
    <3> SUFFICES ASSUME NEW p \in Paths, NEW n \in 1 .. files[p].number,
                        ~Taken(versions', p, n), Taken(versions, p, n)
                 PROVE  n # 1 /\ n + MaxRecent <= files[p].number
      BY <1>1, <3>1 DEF AgreeBut
    <3>2. PICK v \in versions : v.path = p /\ v.number = n
      BY DEF Taken
    <3>3. v \in doomed
      BY <3>1, <3>2 DEF Taken
    <3> QED
      BY <1>1, <3>2, <3>3 DEF DoomedAreOld
  <2>3. ASSUME ~DeleteVersions PROVE versions' = versions
    BY <2>3 DEF GcStep, GcCrash, ListReclaimable, PassOver, SweepText, SweepBlob, GcEnd,
                vars, stores
  <2> QED
    BY <2>1, <2>2, <2>3
<1>4. DoomedAreOld'
  <2>1. CASE ListReclaimable
    BY <1>1, <2>1, ListedAreOld DEF ListReclaimable, DoomedAreOld
  <2>2. ASSUME ~ListReclaimable PROVE doomed' \subseteq doomed
    BY <2>2 DEF GcStep, GcCrash, DeleteVersions, PassOver, SweepText, SweepBlob, GcEnd
  <2> QED
    BY <1>1, <2>1, <2>2 DEF DoomedAreOld
<1>5. WrittenTextKept'
  <2> SUFFICES ASSUME NEW r \in Requests, Acked(r), call[r].kind = "write",
                      WrittenRow(r) \in versions', call[r].hash \in TextHashes
               PROVE  call[r].hash \in text'
    BY <1>1 DEF WrittenTextKept, Acked, WrittenRow, NewVersion, locals
  <2>1. call[r].hash \in text /\ WrittenRow(r) \in versions /\ WrittenRow(r).hash = call[r].hash
    BY <1>1 DEF WrittenTextKept, WrittenRow, NewVersion
  <2>2. ASSUME NEW h \in Hashes, SweepText(h) PROVE call[r].hash \in text'
    BY <2>1, <2>2 DEF SweepText, Referenced
  <2>3. ASSUME \A h \in Hashes : ~SweepText(h) PROVE text' = text
    BY <2>3 DEF GcStep, GcCrash, ListReclaimable, DeleteVersions, PassOver, SweepBlob, GcEnd,
                vars, stores
  <2> QED
    BY <2>1, <2>2, <2>3
<1> QED
  BY <1>1, <1>2, <1>3, <1>4, <1>5 DEF RetentionInv

(* Before anything runs the tables agree without exception.                *)
LEMMA InitRetention == GcInit => RetentionInv
<1> SUFFICES ASSUME GcInit PROVE RetentionInv
  OBVIOUS
<1>1. AgreeBut(files, versions)
  BY InitAssumption DEF GcInit, Init, Agree, AgreeBut
<1>2. IInv
  BY InitSatisfies DEF GcInit
<1>3. \A r \in Requests : won[r] = 0
  BY DEF GcInit, Init
<1> QED
  BY <1>1, <1>2, <1>3
     DEF GcInit, RetentionInv, DoomedAreOld, IInv, RequestInv, GivenIsPast, WrittenTextKept, Acked

(* The invariant of the behaviours in which every request is prompt.       *)
THEOREM RetentionInvariance == GcSpec /\ []Prompt => []RetentionInv
<1>1. GcInv /\ RetentionInv /\ Prompt /\ [GcNext]_allvars => RetentionInv'
  BY PromptRequestKeeps, CollectorKeepsRetention DEF GcNext, allvars
<1> QED
  BY <1>1, InitRetention, GcInvariance, PTL DEF GcSpec

(* The collector (list_reclaimable_versions, delete_versions) spares the   *)
(* first, the current and the MaxRecent newest versions, although it       *)
(* deletes from a stale list while requests commit - for any number of     *)
(* requests, if each commits before MaxRecent later versions have passed   *)
(* it, and if at least one version is retained.                            *)
THEOREM RetentionHolds ==
    ASSUME MaxRecent # 0 PROVE GcSpec /\ []Prompt => []RetentionKept
<1>1. GcInv /\ RetentionInv => RetentionKept
  <2> SUFFICES ASSUME GcInv, RetentionInv PROVE RetentionKept
    OBVIOUS
  <2>1. /\ AgreeBut(files, versions) /\ versions \subseteq Version
        /\ \A p \in Paths : files[p].number \in Nat
    BY DEF RetentionInv, GcInv, SoundlyTyped, TypeOK, Pointer
  <2>2. RecentKept
    BY <2>1, GcAssumption DEF RecentKept, AgreeBut
  <2>3. ASSUME NEW p \in Paths, files[p].number > 0
        PROVE  /\ Taken(versions, p, 1)
               /\ \E v \in versions : IsLatest(versions, p, v) /\ files[p] = PointerTo(v)
    <3>1. 1 \in 1 .. files[p].number /\ files[p].number \in 1 .. files[p].number
      BY <2>1, <2>3
    <3>2. Taken(versions, p, 1)
      BY <2>1, <3>1 DEF AgreeBut
    <3>3. ~(files[p].number + MaxRecent <= files[p].number)
      BY <2>1, GcAssumption
    <3>4. Taken(versions, p, files[p].number)
      BY <2>1, <3>1, <3>3 DEF AgreeBut
    <3>5. PICK v \in versions : v.path = p /\ v.number = files[p].number
      BY <3>4 DEF Taken
    <3>6. \A w \in versions : w.path = p => w.number <= v.number
      BY <2>1, <3>5 DEF AgreeBut
    <3>7. files[p] = PointerTo(v)
      BY <2>1, <3>5 DEF AgreeBut
    <3> QED
      BY <3>2, <3>5, <3>6, <3>7 DEF IsLatest
  <2> QED
    BY <2>2, <2>3 DEF RetentionKept, FirstAndCurrentKept
<1> QED
  BY <1>1, RetentionInvariance, GcInvariance, PTL

(* The text that write stored with a version is there as long as the       *)
(* version is (put_version_and_index_text against the sweep).              *)
THEOREM WrittenTextSurvives == GcSpec /\ []Prompt => []WrittenTextKept
<1>1. RetentionInv => WrittenTextKept
  BY DEF RetentionInv
<1> QED
  BY <1>1, RetentionInvariance, PTL

(* A file's current_version_number never goes back (put_version).          *)
THEOREM NumbersGrow == GcSpec /\ []Prompt => VersionNumbersGrow
<1>1. GcInv /\ RetentionInv /\ Prompt /\ [GcNext]_allvars
        => [\A p \in Paths : files'[p].number >= files[p].number]_files
  <2> SUFFICES ASSUME GcInv, RetentionInv, Prompt, [GcNext]_allvars, files' # files
               PROVE  \A p \in Paths : files'[p].number >= files[p].number
    OBVIOUS
  <2>1. GcStep \/ GcCrash => files' = files
    BY DEF GcStep, GcCrash, ListReclaimable, DeleteVersions, NextHash, PassOver, SweepText,
           SweepBlob, GcEnd, vars, stores
  <2>2. PICK r \in Requests : Step(r) \/ Crash(r)
    BY <2>1 DEF GcNext, Next, allvars, vars, stores
  <2>3. \A p \in Paths : files[p].number <= files'[p].number
    BY <2>2, PromptTablesGrow DEF GcInv, Prompt
  <2>4. SoundlyTyped'
    BY <2>2, SoundStep DEF GcInv, Next
  <2>5. \A p \in Paths : files[p].number \in Nat /\ files'[p].number \in Nat
    BY <2>4 DEF GcInv, SoundlyTyped, TypeOK, Pointer
  <2> QED
    BY <2>3, <2>5
<1> QED
  BY <1>1, RetentionInvariance, GcInvariance, PTL DEF GcSpec, VersionNumbersGrow

----------------------------------------------------------------------------
(* Few requests are prompt.                                                *)

FewRequests == IsFiniteSet(Requests) /\ Cardinality(Requests) <= MaxRecent + 1

Winners == {r \in Requests : won[r] # 0}

(* A request that is given a version puts a path forward by at most one.   *)
Counted ==
    \A p \in Paths : files[p].number <= InitFiles[p].number + Cardinality(Winners)

(* At a commit at most MaxRecent others have put the path forward since    *)
(* the request read it.                                                    *)
LEMMA CountedArePrompt ==
    ASSUME FewRequests, GcInv, RetentionInv, Counted
    PROVE  Prompt
<1> SUFFICES ASSUME NEW r \in Requests, pc[r] = "commit" PROVE PromptRequest(r)
  BY DEF Prompt, PromptRequest
<1>1. /\ call[r].path \in Paths /\ call[r].from \in Paths /\ SeenIsPast(r) /\ won[r] = 0
      /\ \A p \in Paths : files[p].number \in Nat
      /\ seen[r].path \in Nat /\ seen[r].from \in Nat /\ last[r] \in Nat
  BY PromptAtCommit DEF GcInv
<1>2. \A p \in Paths : InitFiles[p].number \in Nat
  BY InitAssumption DEF Pointer
<1>3. Cardinality(Winners) \in Nat /\ Cardinality(Winners) <= MaxRecent
  <2>1. /\ IsFiniteSet(Requests \ {r}) /\ Cardinality(Requests) \in Nat
        /\ Cardinality(Requests \ {r}) = Cardinality(Requests) - 1
    BY FS_RemoveElement, FS_CardinalityType DEF FewRequests
  <2>2. Winners \in SUBSET (Requests \ {r})
    BY <1>1 DEF Winners
  <2>3. IsFiniteSet(Winners) /\ Cardinality(Winners) <= Cardinality(Requests \ {r})
    BY <2>1, <2>2, FS_Subset
  <2>4. Cardinality(Winners) \in Nat
    BY <2>3, FS_CardinalityType
  <2> QED
    BY <2>1, <2>3, <2>4, GcAssumption DEF FewRequests
<1>4. \A p \in Paths : files[p].number <= InitFiles[p].number + MaxRecent
  BY <1>1, <1>2, <1>3, GcAssumption DEF Counted
<1>5. call[r].kind # "move" \/ ~skip[r] => InitFiles[call[r].path].number <= seen[r].path
  BY <1>1, <1>2 DEF GcInv, PastInitial, SeenIsPast
<1>6. call[r].kind = "move" => InitFiles[call[r].from].number <= seen[r].from
  BY DEF GcInv, PastInitial
<1> QED
  BY <1>1, <1>2, <1>4, <1>5, <1>6, GcAssumption DEF PromptRequest

(* The count is kept by every step.                                        *)
LEMMA CountingStep ==
    ASSUME FewRequests, GcInv, RetentionInv, Counted, [GcNext]_allvars
    PROVE  Counted'
<1>1. Prompt
  BY CountedArePrompt
<1>2. \A p \in Paths : files[p].number \in Nat /\ InitFiles[p].number \in Nat
  BY InitAssumption DEF GcInv, SoundlyTyped, TypeOK, Pointer
<1>3. /\ IsFiniteSet(Winners) /\ Cardinality(Winners) \in Nat
      /\ IsFiniteSet(Winners') /\ Cardinality(Winners') \in Nat
  BY FS_Subset, FS_CardinalityType DEF FewRequests, Winners
<1>4. CASE UNCHANGED <<files, won>>
  BY <1>4 DEF Counted, Winners
<1>5. ASSUME GcStep \/ GcCrash PROVE UNCHANGED <<files, won>>
  BY <1>5 DEF GcStep, GcCrash, ListReclaimable, DeleteVersions, NextHash, PassOver, SweepText,
         SweepBlob, GcEnd, vars, stores, locals
<1>6. ASSUME NEW r \in Requests, Commit(r) \/ MoveCommit(r) \/ MoveFinish(r)
      PROVE  Counted'
  <2>1. won[r] = 0 /\ last[r] # 0 /\ won' = [won EXCEPT ![r] = last[r]] /\ won \in [Requests -> Nat]
    BY <1>6 DEF Commit, MoveCommit, MoveFinish, NewVersion, GcInv, SoundlyTyped, Sound, TypeOK,
                RetentionInv, GivenIsPast
  <2>2. Winners' = Winners \cup {r} /\ r \notin Winners
    BY <2>1 DEF Winners
  <2>3. Cardinality(Winners') = Cardinality(Winners) + 1
    BY <1>3, <2>2, FS_AddElement
  <2>4. \A p \in Paths : files'[p].number <= files[p].number + 1
    <3>1. SoundlyTyped /\ PromptRequest(r) /\ files \in [Paths -> Pointer]
      BY <1>1 DEF GcInv, Prompt, SoundlyTyped, TypeOK
    <3>2. \A f \in [Paths -> Pointer], v \in Version :
              /\ Put(f, v) \in [Paths -> Pointer]
              /\ \A p \in Paths :
                    Put(f, v)[p].number = IF p = v.path THEN v.number ELSE f[p].number
      BY DEF Put, PointerTo, Pointer, Version
    <3>3. CASE UNCHANGED <<files, versions>>
      BY <1>2, <3>3
    <3>4. ASSUME NEW v \in Version, v.number = files[v.path].number + 1, files' = Put(files, v)
          PROVE  \A p \in Paths : files'[p].number <= files[p].number + 1
      BY <1>2, <3>1, <3>2, <3>4
    <3>5. ASSUME NEW v \in Version, NEW t \in Version,
                 v.number = files[v.path].number + 1, t.number = files[t.path].number + 1,
                 t.path # v.path, files' = Put(Put(files, v), t)
          PROVE  \A p \in Paths : files'[p].number <= files[p].number + 1
      <4>1. /\ Put(files, v) \in [Paths -> Pointer]
            /\ \A p \in Paths : Put(files, v)[p].number = IF p = v.path THEN v.number ELSE files[p].number
        BY <3>1, <3>2, Zenon
      <4>2. \A p \in Paths :
              files'[p].number = IF p = t.path THEN t.number ELSE Put(files, v)[p].number
        BY <3>2, <3>5, <4>1
      <4> QED
        BY <1>2, <3>5, <4>1, <4>2
    <3> QED
      BY <1>6, <3>1, <3>3, <3>4, <3>5, PromptPuts DEF Step
  <2>5. \A p \in Paths : files'[p].number \in Nat
    BY <1>6, SoundStep DEF GcInv, Next, Step, SoundlyTyped, TypeOK, Pointer
  <2> QED
    BY <1>2, <1>3, <2>3, <2>4, <2>5 DEF Counted
<1> QED
  BY <1>4, <1>5, <1>6, OthersStutter DEF GcNext, Next, allvars, vars, stores, locals

(* With at most MaxRecent + 1 requests no request has to be assumed        *)
(* prompt: the others are too few to put a path that far ahead.            *)
THEOREM FewRequestsArePrompt ==
    ASSUME FewRequests PROVE GcSpec => [](RetentionInv /\ Prompt)
<1>1. GcInit => Counted
  <2> SUFFICES ASSUME GcInit PROVE Counted
    OBVIOUS
  <2>1. Winners = {} /\ Cardinality(Winners) = 0
    BY FS_EmptySet DEF GcInit, Init, Winners
  <2> QED
    BY <2>1, InitAssumption DEF GcInit, Init, Counted, Pointer
<1>2. GcInv /\ RetentionInv /\ Counted => Prompt
  BY CountedArePrompt
<1>3. GcInv /\ RetentionInv /\ Counted /\ [GcNext]_allvars => Counted'
  BY CountingStep
<1>4. GcInv /\ RetentionInv /\ Prompt /\ [GcNext]_allvars => RetentionInv'
  BY PromptRequestKeeps, CollectorKeepsRetention DEF GcNext, allvars
<1> QED
  BY <1>1, <1>2, <1>3, <1>4, InitRetention, GcInvariance, PTL DEF GcSpec

(* So at most MaxRecent + 1 requests and a collector keep the retention    *)
(* promise and the text of what was written, and no pointer moves back, in *)
(* every behaviour: the instance TLC explores is of this kind.             *)
THEOREM RetentionOfFew ==
    ASSUME FewRequests, MaxRecent # 0
    PROVE  GcSpec => []RetentionKept /\ []WrittenTextKept /\ VersionNumbersGrow
<1> QED
  BY RetentionHolds, WrittenTextSurvives, NumbersGrow, FewRequestsArePrompt, PTL
=============================================================================
