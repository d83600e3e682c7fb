---------------------------- MODULE MongoProofs ----------------------------
(***************************************************************************)
(* Safety of the MongoDB store, whose put_version is two operations.       *)
(*                                                                         *)
(* A document is inserted before its file points at it, so a path may have *)
(* one document beyond its pointer.  Whoever inserted it has the path to   *)
(* itself: every other insert is refused by the unique index until the     *)
(* pointer has moved or the document is withdrawn (OneWriter).  As in      *)
(* GcProofs a collected number is free again, so once a collection has     *)
(* begun the theorems are about behaviours in which every request inserts  *)
(* in time (InTime).  Without a collection, and with at most MaxRecent     *)
(* requests, they hold as they stand.                                      *)
(***************************************************************************)
EXTENDS MongoGc, GcProofs

(* An insert is in time if fewer than MaxRecent versions have passed the   *)
(* read it rests on.                                                       *)
InTimeRequest(r) ==
    runs > 0 =>
        /\ At(r, "insert") /\ (call[r].kind # "move" \/ ~skip[r])
            => files[call[r].path].number < seen[r].path + MaxRecent
        /\ call[r].kind = "move" /\ AtTombstone(r)
            => files[call[r].from].number < seen[r].from + MaxRecent

InTime == \A r \in Requests : InTimeRequest(r)

MongoTyped ==
    /\ SoundlyTyped
    /\ stage \in [Requests -> Stages]
    /\ mine \in [Requests -> SUBSET Version]
    /\ gc \in {"idle", "listing", "listed", "sweeping", "unlink"}
    /\ doomed \subseteq Version
    /\ runs \in Nat
    /\ doomed # {} \/ gc = "listing" => runs > 0

(* The tables agree up to what the collector may take and one document     *)
(* beyond each pointer.                                                    *)
AgreeOnto(f, rows) ==
    /\ \A v, w \in rows : v.path = w.path /\ v.number = w.number => v = w
    /\ \A v \in rows :
        /\ v.number <= f[v.path].number + 1
        /\ v.number = f[v.path].number => f[v.path] = PointerTo(v)
    /\ \A p \in Paths : \A n \in 1 .. f[p].number :
        Taken(rows, p, n) \/ (runs > 0 /\ n # 1 /\ n + MaxRecent <= f[p].number + 1)

DoomedAreBehind ==
    \A v \in doomed : v.number # 1 /\ v.number + MaxRecent <= files[v.path].number + 1

(* A request between its insert and what follows it.                       *)
Busy(r) == pc[r] = "commit" /\ stage[r] \in {"point", "undo", "hide"}
Pending(r) == IF stage[r] = "hide" THEN MoveTombstone(r) ELSE NewVersion(r)

(* The document it has inserted is the one beyond the pointer.             *)
HasPending(r) ==
    Busy(r) =>
        /\ Pending(r) \in versions
        /\ Pending(r) \in mine[r]
        /\ Pending(r).number = files[Pending(r).path].number + 1

OneWriter ==
    \A r, s \in Requests : r # s /\ Busy(r) /\ Busy(s) => Pending(r).path # Pending(s).path

(* Nobody else leaves a document there, but by dying.                      *)
OrphansOwned ==
    \A v \in versions : v.number > files[v.path].number =>
        \E r \in Requests :
            v \in mine[r] /\ (pc[r] = "crashed" \/ (Busy(r) /\ v = Pending(r)))

StageInv(r) ==
    /\ SeenIsPast(r)
    /\ skip[r] => call[r].kind = "move"
    /\ pc[r] \notin {"commit", "crashed", "conflict"} => stage[r] = "insert"
    /\ pc[r] = "commit" =>
        /\ stage[r] \in {"tombstone", "hide"} => call[r].kind = "move"
        /\ call[r].kind = "move" /\ (stage[r] \in {"tombstone", "hide"} \/ skip[r])
            => last[r] <= files[call[r].path].number

(* What a move has at its destination is the version it asks for there,    *)
(* and its next attempt will see that it is there.                         *)
MoveMine(r) ==
    /\ pc[r] \in {"putblob", "getsrc"} => mine[r] = {}
    /\ call[r].kind = "move" =>
        \A v \in mine[r] : ~v.tombstone =>
            /\ v = NewVersion(r)
            /\ pc[r] \in {"getfrom", "getfile"} =>
                last[r] # 0 /\ last[r] <= files[call[r].path].number
            /\ At(r, "insert") => skip[r]

MongoInv ==
    /\ AgreeOnto(files, versions)
    /\ DoomedAreBehind
    /\ OneWriter
    /\ OrphansOwned
    /\ \A r \in Requests : HasPending(r) /\ StageInv(r) /\ MoveMine(r)


----------------------------------------------------------------------------
(* Facts about the tables.                                                 *)

(* A free number that is not beyond the next one is the next one, if it is *)
(* not among those the collector may have taken.                           *)
LEMMA NextFreeOnto ==
    ASSUME NEW f \in [Paths -> Pointer], NEW rows, AgreeOnto(f, rows),
           NEW p \in Paths, NEW n \in Nat \ {0},
           n <= f[p].number + 1, ~Taken(rows, p, n),
           runs > 0 => f[p].number + 1 < n + MaxRecent
    PROVE  n = f[p].number + 1
<1>1. f[p].number \in Nat
  BY DEF Pointer
<1>2. n \in 1 .. f[p].number \/ n = f[p].number + 1
  BY <1>1
<1>3. n \in 1 .. f[p].number => runs > 0 /\ n + MaxRecent <= f[p].number + 1
  BY DEF AgreeOnto
<1> QED
  BY <1>1, <1>2, <1>3, GcAssumption

(* insert_one: a document right beyond the pointer.                        *)
LEMMA InsertKeepsOnto ==
    ASSUME NEW f \in [Paths -> Pointer], NEW rows \in SUBSET Version, AgreeOnto(f, rows),
           NEW v \in Version, v.number = f[v.path].number + 1, ~Taken(rows, v.path, v.number)
    PROVE  AgreeOnto(f, rows \cup {v})
<1> DEFINE new == rows \cup {v}
<1>1. \A p \in Paths : f[p].number \in Nat
  BY DEF Pointer
<1>2. v.path \in Paths /\ v.number \in Nat /\ v.number # f[v.path].number
  BY <1>1 DEF Version
<1>3. \A w \in rows : w.path = v.path => w.number # v.number
  BY DEF Taken
<1>4. \A p, n : Taken(rows, p, n) => Taken(new, p, n)
  BY DEF Taken
<1>5. \A w, x \in new : w.path = x.path /\ w.number = x.number => w = x
  BY <1>3 DEF AgreeOnto
<1>6. \A w \in new : /\ w.number <= f[w.path].number + 1
                     /\ w.number = f[w.path].number => f[w.path] = PointerTo(w)
  <2>1. v.number <= f[v.path].number + 1
    BY <1>1, <1>2
  <2> QED
    BY <1>2, <2>1 DEF AgreeOnto
<1>7. \A p \in Paths : \A n \in 1 .. f[p].number :
        Taken(new, p, n) \/ (runs > 0 /\ n # 1 /\ n + MaxRecent <= f[p].number + 1)
  BY <1>4 DEF AgreeOnto
<1> QED
  BY <1>5, <1>6, <1>7 DEF AgreeOnto

(* update_one on files: the pointer moves to the document beyond it.       *)
LEMMA PointKeepsOnto ==
    ASSUME NEW f \in [Paths -> Pointer], NEW rows \in SUBSET Version, AgreeOnto(f, rows),
           NEW v \in rows, v.number = f[v.path].number + 1
    PROVE  AgreeOnto(Put(f, v), rows) /\ Put(f, v) \in [Paths -> Pointer]
<1> DEFINE g == Put(f, v)
<1>1. /\ v.path \in Paths /\ v.number \in Nat
      /\ \A p \in Paths : f[p].number \in Nat
      /\ \A w \in rows : w.path \in Paths /\ w.number \in Nat
  BY DEF Pointer, Version
<1>2. g \in [Paths -> Pointer]
  BY <1>1 DEF Put, PointerTo, Pointer, Version
<1>3. g[v.path] = PointerTo(v) /\ g[v.path].number = f[v.path].number + 1
  BY <1>1 DEF Put, PointerTo
<1>4. \A p \in Paths : p # v.path => g[p] = f[p]
  BY DEF Put
<1> HIDE DEF g
<1>5. \A w \in rows : /\ w.number <= g[w.path].number + 1
                      /\ w.number = g[w.path].number => g[w.path] = PointerTo(w)
  BY <1>1, <1>3, <1>4 DEF AgreeOnto
<1>6. \A p \in Paths : \A n \in 1 .. g[p].number :
        Taken(rows, p, n) \/ (runs > 0 /\ n # 1 /\ n + MaxRecent <= g[p].number + 1)
  <2> SUFFICES ASSUME NEW p \in Paths, NEW n \in 1 .. g[p].number, ~Taken(rows, p, n)
               PROVE  runs > 0 /\ n # 1 /\ n + MaxRecent <= g[p].number + 1
    OBVIOUS
  <2>1. n \in 1 .. f[p].number
    BY <1>1, <1>3, <1>4 DEF Taken
  <2>2. runs > 0 /\ n # 1 /\ n + MaxRecent <= f[p].number + 1
    BY <2>1 DEF AgreeOnto
  <2> QED
    BY <1>1, <1>3, <1>4, <2>2, GcAssumption
<1> QED
  BY <1>2, <1>5, <1>6 DEF AgreeOnto, g

(* delete_one: a document beyond the pointer is withdrawn.                 *)
LEMMA WithdrawKeepsOnto ==
    ASSUME NEW f \in [Paths -> Pointer], NEW rows \in SUBSET Version, AgreeOnto(f, rows),
           NEW v \in Version, v.number = f[v.path].number + 1
    PROVE  AgreeOnto(f, rows \ {v})
<1>1. \A p \in Paths : f[p].number \in Nat
  BY DEF Pointer
<1>2. \A p \in Paths : \A n \in 1 .. f[p].number : Taken(rows, p, n) => Taken(rows \ {v}, p, n)
  BY <1>1 DEF Taken
<1> QED
  BY <1>2 DEF AgreeOnto

(* list_reclaimable_versions: MaxRecent documents come after what it lists,*)
(* the last of which may be one nobody points at.                          *)
LEMMA ListedAreBehind ==
    ASSUME TypeOK, AgreeOnto(files, versions), NEW v \in Reclaimable(versions)
    PROVE  v.number # 1 /\ v.number + MaxRecent <= files[v.path].number + 1
<1> DEFINE S == Newer(versions, v)
           k == files[v.path].number + 1
           T == (v.number + 1) .. k
           g == [w \in S |-> w.number]
<1>1. /\ v \in versions /\ v.number # 1 /\ Cardinality(S) >= MaxRecent
      /\ v \in Version /\ v.number \in Nat /\ k \in Nat /\ v.number <= k
  BY DEF Reclaimable, TypeOK, Version, Pointer, AgreeOnto
<1>2. \A w \in S : w \in versions /\ w.path = v.path /\ w.number > v.number /\ w.number \in Nat
  BY DEF Newer, TypeOK, Version
<1>3. \A w \in S : w.number \in T
  BY <1>1, <1>2 DEF AgreeOnto
<1>4. g \in Injection(S, T)
  <2>1. g \in [S -> T]
    BY <1>3
  <2>2. \A w, x \in S : g[w] = g[x] => w = x
    BY <1>2 DEF AgreeOnto
  <2> QED
    BY <2>1, <2>2, Fun_IsInj
<1>5. IsFiniteSet(T) /\ Cardinality(T) <= k - v.number
  <2>1. v.number + 1 \in Int /\ k \in Int
    BY <1>1
  <2>2. /\ IsFiniteSet(T)
        /\ Cardinality(T) = IF v.number + 1 > k THEN 0 ELSE k - (v.number + 1) + 1
    BY <2>1, FS_Interval
  <2> HIDE DEF T, k
  <2> QED
    BY <1>1, <2>2
<1>6. IsFiniteSet(S) /\ Cardinality(S) <= Cardinality(T)
  BY <1>4, <1>5, FS_Injection
<1>7. Cardinality(S) \in Nat /\ Cardinality(T) \in Nat
  BY <1>5, <1>6, FS_CardinalityType
<1> HIDE DEF S, T, k
<1>8. v.number + MaxRecent <= k
  BY <1>1, <1>5, <1>6, <1>7, GcAssumption
<1> QED
  BY <1>1, <1>8 DEF k

----------------------------------------------------------------------------
(* The steps, without an assumption on the requests.                       *)

(* What a request at its commit has to work with.                          *)
LEMMA AtItsCommit ==
    ASSUME SoundlyTyped, NEW r \in Requests, pc[r] = "commit"
    PROVE  /\ TypeOK /\ call[r] \in Call /\ last[r] # 0
           /\ files \in [Paths -> Pointer] /\ versions \in SUBSET Version
           /\ \A p \in Paths : files[p].number \in Nat
           /\ NewVersion(r) \in Version /\ MoveTombstone(r) \in Version
           /\ NewVersion(r).path = call[r].path /\ NewVersion(r).number = last[r]
           /\ MoveTombstone(r).path = call[r].from
           /\ MoveTombstone(r).number = seen[r].from + 1
           /\ MoveTombstone(r).tombstone
           /\ call[r].path \in Paths /\ call[r].from \in Paths
           /\ seen[r].path \in Nat /\ seen[r].from \in Nat /\ last[r] \in Nat
<1>1. /\ TypeOK /\ call[r] \in Call /\ last[r] # 0
      /\ \A p \in Paths : files[p].number \in Nat
  BY CallAssumption DEF SoundlyTyped, Sound, TypeOK, Pointer
<1> QED
  BY <1>1, NewVersionType, MoveTombstoneType
     DEF TypeOK, Call, NewVersion, MoveTombstone

(* The steps of Vfs that this store shares start from no commit, and leave *)
(* the tables alone.                                                       *)
LEMMA SharedIsVfs ==
    ASSUME NEW r \in Requests, SharedStep(r)
    PROVE  /\ Step(r) /\ pc[r] # "commit" /\ UNCHANGED <<files, versions, stage, mine, call>>
           /\ ~Commit(r) /\ ~MoveCommit(r) /\ ~MoveFinish(r)
BY DEF SharedStep, Step, PutBlob, GetSource, SourceMissing, GetFrom, GetFile, NothingToDelete,
       Audit, GetBlob, Commit, MoveCommit, MoveFinish, stores

(* A step of r changes nothing of another request.                         *)
MongoOthersKept(r) ==
    /\ OthersKept(r)
    /\ \A s \in Requests \ {r} : stage'[s] = stage[s] /\ mine'[s] = mine[s]

(* A step changes no local variable of another request.                    *)
LEMMA MongoStepIsLocal ==
    ASSUME MongoTyped, NEW r \in Requests, MongoStep(r) \/ MongoCrash(r)
    PROVE  MongoOthersKept(r)
<1> USE DEF MongoTyped, SoundlyTyped, TypeOK, MongoOthersKept, OthersKept, Goto, Enter, Insert,
            locals
<1>1. CASE SharedStep(r)
  BY <1>1, SharedIsVfs, StepIsLocal
<1>2. CASE MongoCrash(r)
  BY <1>2, StepIsLocal DEF MongoCrash
<1>3. CASE InsertVersion(r)
  BY <1>3 DEF InsertVersion
<1>4. CASE PointVersion(r)
  BY <1>4 DEF PointVersion
<1>5. CASE LoseSwap(r)
  BY <1>5 DEF LoseSwap, vars
<1>6. CASE Withdraw(r)
  BY <1>6 DEF Withdraw
<1>7. CASE InsertTombstone(r)
  BY <1>7 DEF InsertTombstone
<1>8. CASE HideSource(r)
  BY <1>8 DEF HideSource
<1>9. CASE InsertRefused(r)
  BY <1>9 DEF InsertRefused
<1> QED
  BY <1>1, <1>2, <1>3, <1>4, <1>5, <1>6, <1>7, <1>8, <1>9 DEF MongoStep


(* The steps of a request keep the types, and leave it sound.              *)
LEMMA MongoStepTyped ==
    ASSUME MongoTyped, NEW r \in Requests, MongoStep(r) \/ MongoCrash(r), UNCHANGED gcvars
    PROVE  MongoTyped'
<1>1. /\ SoundlyTyped /\ TypeOK /\ \A s \in Requests : Sound(s)
      /\ stage \in [Requests -> Stages] /\ mine \in [Requests -> SUBSET Version]
      /\ OthersKept(r)
  BY MongoStepIsLocal DEF MongoTyped, SoundlyTyped, MongoOthersKept
<1>2. ASSUME NEW s \in Requests \ {r} PROVE Sound(s)'
  BY <1>1 DEF OthersKept, Sound, KindAt
<1>3. ASSUME pc[r] = "commit"
      PROVE  /\ NewVersion(r) \in Version /\ MoveTombstone(r) \in Version
             /\ NewVersion(r).path \in Paths /\ call[r].from \in Paths
             /\ NewVersion(r).number \in Nat /\ last[r] \in Nat
             /\ PointerTo(NewVersion(r)) \in Pointer /\ PointerTo(MoveTombstone(r)) \in Pointer
  BY <1>1, <1>3, AtItsCommit DEF Version, PointerTo, Pointer
<1>4. SoundlyTyped' /\ stage' \in [Requests -> Stages] /\ mine' \in [Requests -> SUBSET Version]
  <2>1. CASE SharedStep(r)
    BY <1>1, <2>1, SharedIsVfs, SoundStep DEF Next
  <2>2. CASE MongoCrash(r)
    BY <1>1, <2>2, SoundStep DEF Next, MongoCrash
  <2>3. CASE InsertVersion(r)
    <3> USE <1>1, <1>3, <2>3 DEF InsertVersion, Insert, Enter, At, locals, Stages
    <3>1. TypeOK'
      BY DEF TypeOK
    <3>2. Sound(r)'
      BY DEF Sound, KindAt
    <3> QED
      BY <1>2, <3>1, <3>2 DEF SoundlyTyped
  <2>4. CASE PointVersion(r)
    <3> USE <1>1, <1>3, <2>4 DEF PointVersion, Enter, At, Stages
    <3>1. TypeOK'
      BY DEF TypeOK, Locations, Running
    <3>2. Sound(r)'
      BY DEF Sound, KindAt, TypeOK, Running
    <3> QED
      BY <1>2, <3>1, <3>2 DEF SoundlyTyped
  <2>5. CASE LoseSwap(r)
    <3> USE <1>1, <2>5 DEF LoseSwap, Enter, At, Stages, vars, stores, locals
    <3>1. TypeOK'
      BY DEF TypeOK
    <3>2. Sound(r)'
      BY DEF Sound, KindAt
    <3> QED
      BY <1>2, <3>1, <3>2 DEF SoundlyTyped
  <2>6. CASE Withdraw(r)
    <3> USE <1>1, <2>6 DEF Withdraw, At, Goto
    <3>1. TypeOK'
      BY DEF TypeOK, Locations, Terminal, Failures
    <3>2. Sound(r)'
      BY DEF Sound, KindAt, TypeOK, Running
    <3> QED
      BY <1>2, <3>1, <3>2 DEF SoundlyTyped
  <2>7. CASE InsertTombstone(r)
    <3> USE <1>1, <1>3, <2>7 DEF InsertTombstone, Insert, Enter, AtTombstone, At, locals, Stages
    <3>1. TypeOK'
      BY DEF TypeOK
    <3>2. Sound(r)'
      BY DEF Sound, KindAt
    <3> QED
      BY <1>2, <3>1, <3>2 DEF SoundlyTyped
  <2>8. CASE HideSource(r)
    <3> USE <1>1, <1>3, <2>8 DEF HideSource, Enter, At, Stages, Goto
    <3>1. TypeOK'
      BY DEF TypeOK, Locations, Running
    <3>2. Sound(r)'
      BY DEF Sound, KindAt, TypeOK, Running
    <3> QED
      BY <1>2, <3>1, <3>2 DEF SoundlyTyped
  <2>9. CASE InsertRefused(r)
    <3> USE <1>1, <2>9, RetryAssumption DEF InsertRefused, Enter, AtTombstone, At, Stages, Goto
    <3>1. tries[r] + 1 \in 0 .. MaxWriteRetries /\ tries'[r] = tries[r] + 1
      BY DEF Sound, TypeOK, Running
    <3>2. /\ pc' \in [Requests -> Locations] /\ pc'[r] \in {"collision", "getfrom", "getfile"}
          /\ pc'[r] # "collision" => tries[r] + 1 < MaxWriteRetries
          /\ pc'[r] = "getfrom" => call[r].kind = "move"
      BY DEF TypeOK, Locations, Running, Terminal, Failures, Retries
    <3>3. TypeOK'
      BY <3>1, <3>2 DEF TypeOK, stores
    <3>4. Sound(r)'
      BY <3>1, <3>2 DEF Sound, KindAt, Running
    <3> QED
      BY <1>2, <3>3, <3>4 DEF SoundlyTyped
  <2> QED
    BY <2>1, <2>2, <2>3, <2>4, <2>5, <2>6, <2>7, <2>8, <2>9 DEF MongoStep
<1> QED
  BY <1>4 DEF MongoTyped, gcvars

(* So do those of the collector.                                           *)
LEMMA MongoGcStepTyped ==
    ASSUME MongoTyped, MongoGcStep
    PROVE  MongoTyped' /\ UNCHANGED <<files, locals, stage, mine>> /\ versions' \subseteq versions
<1>1. TypeOK /\ \A r \in Requests : Sound(r)
  BY DEF MongoTyped, SoundlyTyped
<1>2. UNCHANGED <<files, locals, stage, mine>>
  BY DEF MongoGcStep, ListFile, GcCrash, DeleteVersions, NextHash, PassOver, SweepText,
         SweepBlob, GcEnd, mvars, vars, stores
<1>3. versions' \subseteq versions /\ blobs' \subseteq blobs /\ text' \subseteq text
  BY DEF MongoGcStep, ListFile, GcCrash, DeleteVersions, NextHash, PassOver, SweepText,
         SweepBlob, GcEnd, mvars, vars, stores
<1>4. audit' \subseteq AuditEvent
  <2>1. audit' = audit \/ audit' = audit \cup {[kind |-> "gc_run", path |-> Empty, number |-> runs]}
    BY DEF MongoGcStep, ListFile, GcCrash, DeleteVersions, NextHash, PassOver, SweepText,
           SweepBlob, GcEnd, mvars, vars, stores
  <2>2. [kind |-> "gc_run", path |-> Empty, number |-> runs] \in AuditEvent
    BY DEF AuditEvent, MongoTyped
  <2> QED
    BY <1>1, <2>1, <2>2 DEF TypeOK
<1>5. SoundlyTyped'
  <2>1. TypeOK'
    BY <1>1, <1>2, <1>3, <1>4 DEF TypeOK, locals
  <2> QED
    BY <1>1, <1>2, <2>1 DEF SoundlyTyped, Sound, KindAt, locals
<1>6. /\ gc' \in {"idle", "listing", "listed", "sweeping", "unlink"}
      /\ doomed' \subseteq Version
      /\ runs' \in Nat
      /\ doomed' # {} \/ gc' = "listing" => runs' > 0
  <2> USE <1>1 DEF MongoTyped
  <2>1. ASSUME NEW p \in Paths, ListFile(p)
        PROVE  /\ gc' \in {"listing", "listed"}
               /\ doomed' \subseteq Version
               /\ runs' \in Nat /\ runs' > 0
    <3>1. runs' \in Nat /\ runs' > 0
      BY <2>1 DEF ListFile
    <3>2. doomed' \subseteq Version
      BY <2>1 DEF ListFile, Reclaimable, TypeOK
    <3> QED
      BY <2>1, <3>1, <3>2 DEF ListFile
  <2>2. CASE DeleteVersions
    BY <2>2 DEF DeleteVersions
  <2>3. ASSUME NEW h \in Hashes, PassOver(h) \/ SweepText(h)
        PROVE  gc' \in {"sweeping", "unlink"} /\ UNCHANGED <<doomed, runs>>
    BY <2>3 DEF PassOver, SweepText, NextHash
  <2>4. ASSUME SweepBlob \/ GcEnd
        PROVE  gc' \in {"sweeping", "idle"} /\ UNCHANGED <<doomed, runs>>
    BY <2>4 DEF SweepBlob, GcEnd
  <2>5. CASE GcCrash
    BY <2>5 DEF GcCrash
  <2> QED
    BY <2>1, <2>2, <2>3, <2>4, <2>5 DEF MongoGcStep
<1>7. stage' \in [Requests -> Stages] /\ mine' \in [Requests -> SUBSET Version]
  BY <1>2 DEF MongoTyped
<1> QED
  BY <1>2, <1>3, <1>5, <1>6, <1>7 DEF MongoTyped


----------------------------------------------------------------------------
(* The documents and their owners.                                         *)

(* The part of the invariant about documents.                              *)
DocsInv ==
    /\ AgreeOnto(files, versions)
    /\ OneWriter
    /\ OrphansOwned
    /\ \A r \in Requests : HasPending(r)

(* Requests that do not move keep what they are busy with.                 *)
LEMMA OthersPending ==
    ASSUME MongoTyped, NEW r \in Requests, MongoStep(r) \/ MongoCrash(r), NEW s \in Requests \ {r}
    PROVE  /\ Busy(s)' <=> Busy(s)
           /\ Pending(s)' = Pending(s)
           /\ mine'[s] = mine[s] /\ pc'[s] = pc[s]
BY MongoStepIsLocal
   DEF MongoOthersKept, OthersKept, Busy, Pending, MoveTombstone, NewVersion

(* An insert puts its document right beyond the pointer.                   *)
LEMMA InsertsNext ==
    ASSUME MongoTyped, MongoInv, NEW r \in Requests, InTimeRequest(r), NEW v,
           \/ InsertVersion(r) /\ v = NewVersion(r)
           \/ InsertTombstone(r) /\ v = MoveTombstone(r)
    PROVE  /\ v \in Version /\ v.number = files[v.path].number + 1
           /\ ~Taken(versions, v.path, v.number)
           /\ files' = files /\ versions' = versions \cup {v}
           /\ mine'[r] = mine[r] \cup {v} /\ pc'[r] = "commit" /\ pc[r] = "commit" /\ ~Busy(r)
           /\ Busy(r)' /\ Pending(r)' = v
<1>1. /\ SoundlyTyped /\ AgreeOnto(files, versions) /\ SeenIsPast(r) /\ StageInv(r)
      /\ stage \in [Requests -> Stages] /\ mine \in [Requests -> SUBSET Version]
      /\ runs \in Nat
  BY DEF MongoTyped, MongoInv, StageInv
<1>2. CASE InsertVersion(r) /\ v = NewVersion(r)
  <2>1. /\ pc[r] = "commit" /\ stage[r] = "insert" /\ ~skip[r] /\ stage'[r] = "point"
        /\ ~Taken(versions, v.path, v.number) /\ versions' = versions \cup {v}
        /\ mine'[r] = mine[r] \cup {v} /\ files' = files /\ UNCHANGED locals
    BY <1>1, <1>2 DEF InsertVersion, At, Insert, Enter
  <2>2. /\ v \in Version /\ v.path = call[r].path /\ v.number = last[r]
        /\ last[r] = seen[r].path + 1 /\ seen[r].path \in Nat
        /\ seen[r].path <= files[call[r].path].number
        /\ files \in [Paths -> Pointer] /\ call[r].path \in Paths
        /\ files[call[r].path].number \in Nat
    BY <1>1, <1>2, <2>1, AtItsCommit DEF SeenIsPast
  <2>3. runs > 0 => files[call[r].path].number < seen[r].path + MaxRecent
    BY <2>1 DEF InTimeRequest, At
  <2>4. v.number = files[v.path].number + 1
    BY <1>1, <2>1, <2>2, <2>3, NextFreeOnto, GcAssumption
  <2>5. Busy(r)' /\ ~Busy(r) /\ Pending(r)' = v /\ pc'[r] = "commit"
    BY <1>2, <2>1 DEF Busy, Pending, NewVersion, locals
  <2> QED
    BY <2>1, <2>2, <2>4, <2>5
<1>3. CASE InsertTombstone(r) /\ v = MoveTombstone(r)
  <2>1. /\ pc[r] = "commit" /\ stage[r] \in {"insert", "tombstone"} /\ stage'[r] = "hide"
        /\ AtTombstone(r)
        /\ ~Taken(versions, v.path, v.number) /\ versions' = versions \cup {v}
        /\ mine'[r] = mine[r] \cup {v} /\ files' = files /\ UNCHANGED locals
    BY <1>1, <1>3 DEF InsertTombstone, AtTombstone, At, Insert, Enter
  <2>2. call[r].kind = "move"
    BY <1>1, <2>1 DEF AtTombstone, At, StageInv
  <2>3. /\ v \in Version /\ v.path = call[r].from /\ v.number = seen[r].from + 1
        /\ seen[r].from \in Nat /\ seen[r].from <= files[call[r].from].number
        /\ files \in [Paths -> Pointer] /\ call[r].from \in Paths
        /\ files[call[r].from].number \in Nat
    BY <1>1, <1>3, <2>1, <2>2, AtItsCommit DEF SeenIsPast
  <2>4. runs > 0 => files[call[r].from].number < seen[r].from + MaxRecent
    BY <2>1, <2>2 DEF InTimeRequest
  <2>5. v.number = files[v.path].number + 1
    BY <1>1, <2>1, <2>3, <2>4, NextFreeOnto, GcAssumption
  <2>6. Busy(r)' /\ ~Busy(r) /\ Pending(r)' = v /\ pc'[r] = "commit"
    BY <1>3, <2>1 DEF Busy, Pending, MoveTombstone, locals
  <2> QED
    BY <2>1, <2>3, <2>5, <2>6
<1> QED
  BY <1>2, <1>3

(* Whoever is busy holds the place beyond the pointer, so an insert that   *)
(* succeeds is the only one on its path.                                   *)
LEMMA InsertKeepsDocs ==
    ASSUME MongoTyped, MongoTyped', MongoInv, NEW r \in Requests, InTimeRequest(r),
           InsertVersion(r) \/ InsertTombstone(r), UNCHANGED gcvars
    PROVE  DocsInv' /\ \A p \in Paths : files'[p].number = files[p].number
<1>1. PICK v : /\ v \in Version /\ v.number = files[v.path].number + 1
               /\ ~Taken(versions, v.path, v.number)
               /\ files' = files /\ versions' = versions \cup {v}
               /\ mine'[r] = mine[r] \cup {v} /\ pc'[r] = "commit" /\ pc[r] = "commit"
               /\ ~Busy(r) /\ Busy(r)' /\ Pending(r)' = v
  BY InsertsNext
<1>2. /\ MongoStep(r) /\ AgreeOnto(files, versions) /\ OneWriter /\ OrphansOwned
      /\ \A s \in Requests : HasPending(s)
      /\ files \in [Paths -> Pointer] /\ versions \in SUBSET Version /\ runs' = runs
  BY DEF MongoStep, MongoInv, MongoTyped, SoundlyTyped, TypeOK, gcvars
<1>3. ASSUME NEW s \in Requests \ {r}
      PROVE  /\ Busy(s)' <=> Busy(s)
             /\ Pending(s)' = Pending(s)
             /\ mine'[s] = mine[s] /\ pc'[s] = pc[s]
  BY <1>2, OthersPending
<1>4. AgreeOnto(files, versions)'
  <2>1. AgreeOnto(files, versions \cup {v})
    BY <1>1, <1>2, InsertKeepsOnto
  <2> QED
    BY <1>1, <1>2, <2>1 DEF AgreeOnto
<1>5. ASSUME NEW s \in Requests \ {r}, Busy(s) PROVE Pending(s).path # v.path
  <2>1. Pending(s) \in versions /\ Pending(s).number = files[Pending(s).path].number + 1
    BY <1>2, <1>5 DEF HasPending
  <2> QED
    BY <1>1, <2>1 DEF Taken
<1>6. OneWriter'
  BY <1>1, <1>2, <1>3, <1>5 DEF OneWriter
<1>7. \A s \in Requests : HasPending(s)'
  <2>1. HasPending(r)'
    BY <1>1 DEF HasPending
  <2>2. ASSUME NEW s \in Requests \ {r} PROVE HasPending(s)'
    BY <1>1, <1>2, <1>3 DEF HasPending
  <2> QED
    BY <2>1, <2>2
<1>8. OrphansOwned'
  <2> SUFFICES ASSUME NEW w \in versions', w.number > files'[w.path].number
               PROVE  \E s \in Requests : w \in mine'[s] /\
                         (pc'[s] = "crashed" \/ (Busy(s)' /\ w = Pending(s)'))
    BY DEF OrphansOwned
  <2>1. CASE w = v
    BY <1>1, <2>1
  <2>2. CASE w \in versions
    <3>1. PICK s \in Requests :
             w \in mine[s] /\ (pc[s] = "crashed" \/ (Busy(s) /\ w = Pending(s)))
      BY <1>1, <1>2, <2>2 DEF OrphansOwned
    <3>2. s # r
      BY <1>1, <3>1
    <3> QED
      BY <1>3, <3>1, <3>2
  <2> QED
    BY <1>1, <2>1, <2>2
<1> QED
  BY <1>1, <1>4, <1>6, <1>7, <1>8 DEF DocsInv

(* A pointer moves to the document its request has inserted.               *)
LEMMA PointsAtPending ==
    ASSUME MongoTyped, MongoInv, NEW r \in Requests, PointVersion(r) \/ HideSource(r)
    PROVE  /\ Busy(r) /\ ~Busy(r)' /\ pc[r] = "commit"
           /\ Pending(r) \in versions /\ Pending(r) \in mine[r] /\ Pending(r) \in Version
           /\ Pending(r).number = files[Pending(r).path].number + 1
           /\ files' = Put(files, Pending(r)) /\ versions' = versions /\ mine' = mine
<1>1. /\ HasPending(r) /\ versions \subseteq Version /\ stage \in [Requests -> Stages]
      /\ pc \in [Requests -> Locations]
  BY DEF MongoInv, MongoTyped, SoundlyTyped, TypeOK
<1>2. CASE PointVersion(r)
  <2>1. /\ pc[r] = "commit" /\ stage[r] = "point" /\ stage'[r] \in {"tombstone", "insert"}
        /\ files' = Put(files, NewVersion(r)) /\ versions' = versions /\ mine' = mine
    BY <1>1, <1>2 DEF PointVersion, At, Enter, Put
  <2>2. Busy(r) /\ Pending(r) = NewVersion(r) /\ ~Busy(r)'
    BY <2>1 DEF Busy, Pending
  <2> QED
    BY <1>1, <2>1, <2>2 DEF HasPending
<1>3. CASE HideSource(r)
  <2>1. /\ pc[r] = "commit" /\ stage[r] = "hide" /\ stage'[r] = "insert"
        /\ files' = [files EXCEPT ![call[r].from] = PointerTo(MoveTombstone(r))]
        /\ versions' = versions /\ mine' = mine
    BY <1>1, <1>3 DEF HideSource, At, Enter
  <2>2. files' = Put(files, MoveTombstone(r))
    BY <2>1 DEF Put, MoveTombstone
  <2>3. Busy(r) /\ Pending(r) = MoveTombstone(r) /\ ~Busy(r)'
    BY <2>1 DEF Busy, Pending
  <2> QED
    BY <1>1, <2>1, <2>2, <2>3 DEF HasPending
<1> QED
  BY <1>2, <1>3

(* The others are busy on other paths, whose pointers stay.                *)
LEMMA PointKeepsDocs ==
    ASSUME MongoTyped, MongoTyped', MongoInv, NEW r \in Requests,
           PointVersion(r) \/ HideSource(r), UNCHANGED gcvars
    PROVE  DocsInv' /\ \A p \in Paths : files[p].number <= files'[p].number
<1> DEFINE v == Pending(r)
<1>1. /\ Busy(r) /\ ~Busy(r)' /\ pc[r] = "commit"
      /\ v \in versions /\ v \in mine[r] /\ v \in Version
      /\ v.number = files[v.path].number + 1
      /\ files' = Put(files, v) /\ versions' = versions /\ mine' = mine
  BY PointsAtPending
<1>2. /\ MongoStep(r) /\ AgreeOnto(files, versions) /\ OneWriter /\ OrphansOwned
      /\ \A s \in Requests : HasPending(s)
      /\ files \in [Paths -> Pointer] /\ versions \in SUBSET Version /\ runs' = runs
      /\ \A p \in Paths : files[p].number \in Nat
  BY DEF MongoStep, MongoInv, MongoTyped, SoundlyTyped, TypeOK, gcvars, Pointer
<1>3. ASSUME NEW s \in Requests \ {r}
      PROVE  /\ Busy(s)' <=> Busy(s)
             /\ Pending(s)' = Pending(s)
             /\ mine'[s] = mine[s] /\ pc'[s] = pc[s]
             /\ Busy(s) => Pending(s).path # v.path
  BY <1>1, <1>2, OthersPending DEF OneWriter
<1> HIDE DEF v
<1>4. /\ \A p \in Paths : p # v.path => files'[p] = files[p]
      /\ files'[v.path].number = v.number
      /\ \A w \in Version : w.path \in Paths /\ w.number \in Nat
  BY <1>1, <1>2 DEF Put, PointerTo, Version
<1>5. AgreeOnto(files, versions)'
  <2>1. AgreeOnto(Put(files, v), versions)
    BY <1>1, <1>2, PointKeepsOnto
  <2> QED
    BY <1>1, <1>2, <2>1 DEF AgreeOnto
<1>6. OneWriter'
  BY <1>1, <1>2, <1>3 DEF OneWriter
<1>7. \A s \in Requests : HasPending(s)'
  <2>1. HasPending(r)'
    BY <1>1 DEF HasPending
  <2>2. ASSUME NEW s \in Requests \ {r} PROVE HasPending(s)'
    BY <1>1, <1>2, <1>3, <1>4 DEF HasPending
  <2> QED
    BY <2>1, <2>2
<1>8. OrphansOwned'
  <2> SUFFICES ASSUME NEW w \in versions', w.number > files'[w.path].number
               PROVE  \E s \in Requests : w \in mine'[s] /\
                         (pc'[s] = "crashed" \/ (Busy(s)' /\ w = Pending(s)'))
    BY DEF OrphansOwned
  <2>1. w \in versions /\ w.path # v.path /\ w.number > files[w.path].number
    <3>1. w \in versions /\ w \in Version /\ w.number <= files[w.path].number + 1
      BY <1>1, <1>2 DEF AgreeOnto
    <3> QED
      BY <1>1, <1>2, <1>4, <3>1
  <2>2. PICK s \in Requests :
           w \in mine[s] /\ (pc[s] = "crashed" \/ (Busy(s) /\ w = Pending(s)))
    BY <1>2, <2>1 DEF OrphansOwned
  <2>3. s # r
    BY <1>1, <2>1, <2>2 DEF v
  <2> QED
    BY <1>3, <2>2, <2>3
<1>9. \A p \in Paths : files[p].number <= files'[p].number
  BY <1>1, <1>2, <1>4
<1> QED
  BY <1>5, <1>6, <1>7, <1>8, <1>9 DEF DocsInv


(* A withdrawn document was the owner's, and the last on its path.         *)
LEMMA WithdrawKeepsDocs ==
    ASSUME MongoTyped, MongoTyped', MongoInv, NEW r \in Requests, Withdraw(r), UNCHANGED gcvars
    PROVE  DocsInv' /\ files' = files
<1> DEFINE v == Pending(r)
<1>1. /\ MongoStep(r) /\ AgreeOnto(files, versions) /\ OneWriter /\ OrphansOwned
      /\ \A s \in Requests : HasPending(s)
      /\ files \in [Paths -> Pointer] /\ versions \in SUBSET Version /\ runs' = runs
      /\ pc \in [Requests -> Locations]
  BY DEF MongoStep, MongoInv, MongoTyped, SoundlyTyped, TypeOK, gcvars
<1>2. /\ Busy(r) /\ ~Busy(r)' /\ v \in versions /\ v.number = files[v.path].number + 1
      /\ files' = files /\ versions' = versions \ {v} /\ pc'[r] = "conflict" /\ pc[r] = "commit"
  <2>1. /\ pc[r] = "commit" /\ stage[r] = "undo" /\ pc'[r] = "conflict"
        /\ files' = files /\ versions' = versions \ {NewVersion(r)}
    BY <1>1 DEF Withdraw, At, Goto
  <2>2. Busy(r) /\ v = NewVersion(r) /\ ~Busy(r)'
    BY <2>1 DEF Busy, Pending
  <2> QED
    BY <1>1, <2>1, <2>2 DEF HasPending
<1>3. ASSUME NEW s \in Requests \ {r}
      PROVE  /\ Busy(s)' <=> Busy(s)
             /\ Pending(s)' = Pending(s)
             /\ mine'[s] = mine[s] /\ pc'[s] = pc[s]
             /\ Busy(s) => Pending(s).path # v.path
  BY <1>1, <1>2, OthersPending DEF OneWriter
<1>4. AgreeOnto(files, versions)'
  <2>1. AgreeOnto(files, versions \ {v})
    BY <1>1, <1>2, WithdrawKeepsOnto
  <2> QED
    BY <1>1, <1>2, <2>1 DEF AgreeOnto
<1> HIDE DEF v
<1>5. OneWriter'
  BY <1>1, <1>2, <1>3 DEF OneWriter
<1>6. \A s \in Requests : HasPending(s)'
  <2>1. HasPending(r)'
    BY <1>2 DEF HasPending
  <2>2. ASSUME NEW s \in Requests \ {r} PROVE HasPending(s)'
    BY <1>1, <1>2, <1>3 DEF HasPending
  <2> QED
    BY <2>1, <2>2
<1>7. OrphansOwned'
  <2> SUFFICES ASSUME NEW w \in versions', w.number > files'[w.path].number
               PROVE  \E s \in Requests : w \in mine'[s] /\
                         (pc'[s] = "crashed" \/ (Busy(s)' /\ w = Pending(s)'))
    BY DEF OrphansOwned
  <2>1. w \in versions /\ w # v
    BY <1>2
  <2>2. PICK s \in Requests :
           w \in mine[s] /\ (pc[s] = "crashed" \/ (Busy(s) /\ w = Pending(s)))
    BY <1>1, <1>2, <2>1 DEF OrphansOwned
  <2>3. s # r
    BY <1>2, <2>1, <2>2 DEF v
  <2> QED
    BY <1>3, <2>2, <2>3
<1> QED
  BY <1>2, <1>4, <1>5, <1>6, <1>7 DEF DocsInv

(* The other steps touch no document.  A request that dies over its        *)
(* document leaves it behind.                                              *)
LEMMA RestKeepsDocs ==
    ASSUME MongoTyped, MongoTyped', MongoInv, NEW r \in Requests,
           SharedStep(r) \/ LoseSwap(r) \/ InsertRefused(r) \/ MongoCrash(r), UNCHANGED gcvars
    PROVE  DocsInv' /\ files' = files
<1>1. /\ MongoStep(r) \/ MongoCrash(r)
      /\ AgreeOnto(files, versions) /\ OneWriter /\ OrphansOwned
      /\ \A s \in Requests : HasPending(s) /\ StageInv(s)
      /\ runs' = runs /\ pc \in [Requests -> Locations] /\ stage \in [Requests -> Stages]
  BY DEF MongoStep, MongoInv, MongoTyped, SoundlyTyped, TypeOK, gcvars
<1>2. UNCHANGED <<files, versions, mine>>
  BY SharedIsVfs DEF LoseSwap, InsertRefused, MongoCrash, Crash, stores, vars
<1>3. ASSUME NEW s \in Requests \ {r}
      PROVE  /\ Busy(s)' <=> Busy(s)
             /\ Pending(s)' = Pending(s)
             /\ mine'[s] = mine[s] /\ pc'[s] = pc[s]
  BY <1>1, OthersPending
<1>4. /\ Busy(r)' => Busy(r) /\ Pending(r)' = Pending(r)
      /\ Busy(r) => Busy(r)' \/ pc'[r] = "crashed"
      /\ pc[r] # "crashed"
  <2>1. CASE SharedStep(r)
    <3>1. pc[r] # "commit" /\ stage'[r] = stage[r]
      BY <2>1, SharedIsVfs
    <3>2. pc[r] \in Running
      BY <2>1, SharedIsVfs, OnlyRunningStep
    <3>3. stage[r] = "insert"
      BY <1>1, <3>1, <3>2 DEF StageInv, Running
    <3> QED
      BY <3>1, <3>2, <3>3 DEF Busy, Running
  <2>2. CASE LoseSwap(r)
    <3>1. /\ pc[r] = "commit" /\ stage[r] = "point" /\ stage'[r] = "undo" /\ UNCHANGED vars
      BY <1>1, <2>2 DEF LoseSwap, At, Enter
    <3>2. Busy(r) /\ Busy(r)' /\ Pending(r)' = Pending(r)
      BY <3>1 DEF Busy, Pending, NewVersion, vars, locals
    <3> QED
      BY <3>1, <3>2
  <2>3. CASE InsertRefused(r)
    <3>1. pc[r] = "commit" /\ stage[r] \in {"insert", "tombstone"} /\ pc'[r] # "commit"
      BY <1>1, <2>3 DEF InsertRefused, AtTombstone, At, Goto
    <3> QED
      BY <3>1 DEF Busy
  <2>4. CASE MongoCrash(r)
    <3>1. pc[r] \in Running /\ pc'[r] = "crashed"
      BY <1>1, <2>4 DEF MongoCrash, Crash, Goto
    <3> QED
      BY <3>1 DEF Busy, Running
  <2> QED
    BY <2>1, <2>2, <2>3, <2>4
<1>5. AgreeOnto(files, versions)'
  BY <1>1, <1>2 DEF AgreeOnto, Taken
<1>6. OneWriter'
  BY <1>1, <1>3, <1>4 DEF OneWriter
<1>7. \A s \in Requests : HasPending(s)'
  BY <1>1, <1>2, <1>3, <1>4 DEF HasPending
<1>8. OrphansOwned'
  <2> SUFFICES ASSUME NEW w \in versions', w.number > files'[w.path].number
               PROVE  \E s \in Requests : w \in mine'[s] /\
                         (pc'[s] = "crashed" \/ (Busy(s)' /\ w = Pending(s)'))
    BY DEF OrphansOwned
  <2>1. PICK s \in Requests :
           w \in mine[s] /\ (pc[s] = "crashed" \/ (Busy(s) /\ w = Pending(s)))
    BY <1>1, <1>2 DEF OrphansOwned
  <2> QED
    BY <1>2, <1>3, <1>4, <2>1
<1> QED
  BY <1>2, <1>5, <1>6, <1>7, <1>8 DEF DocsInv

(* So every step of a request keeps the documents in order.                *)
LEMMA RequestKeepsDocs ==
    ASSUME MongoTyped, MongoTyped', MongoInv, NEW r \in Requests, InTimeRequest(r),
           MongoStep(r) \/ MongoCrash(r), UNCHANGED gcvars
    PROVE  DocsInv' /\ \A p \in Paths : files[p].number <= files'[p].number
<1>1. \A p \in Paths : files[p].number \in Nat
  BY DEF MongoTyped, SoundlyTyped, TypeOK, Pointer
<1>2. CASE InsertVersion(r) \/ InsertTombstone(r)
  BY <1>1, <1>2, InsertKeepsDocs
<1>3. CASE PointVersion(r) \/ HideSource(r)
  BY <1>3, PointKeepsDocs
<1>4. CASE Withdraw(r)
  BY <1>1, <1>4, WithdrawKeepsDocs
<1>5. CASE SharedStep(r) \/ LoseSwap(r) \/ InsertRefused(r) \/ MongoCrash(r)
  BY <1>1, <1>5, RestKeepsDocs
<1> QED
  BY <1>2, <1>3, <1>4, <1>5 DEF MongoStep

----------------------------------------------------------------------------
(* What each request knows.                                                *)

(* Another request's step changes nothing of it: pointers only move on.    *)
LEMMA OthersKeepKnowing ==
    ASSUME MongoTyped, MongoTyped', NEW r \in Requests, MongoStep(r) \/ MongoCrash(r),
           \A p \in Paths : files[p].number <= files'[p].number,
           NEW s \in Requests \ {r}, StageInv(s), MoveMine(s)
    PROVE  StageInv(s)' /\ MoveMine(s)'
<1>1. /\ call' = call /\ pc'[s] = pc[s] /\ src'[s] = src[s] /\ seen'[s] = seen[s]
      /\ last'[s] = last[s] /\ skip'[s] = skip[s]
      /\ stage'[s] = stage[s] /\ mine'[s] = mine[s]
  BY MongoStepIsLocal DEF MongoOthersKept, OthersKept
<1>2. /\ call[s].path \in Paths /\ call[s].from \in Paths
      /\ \A p \in Paths : files[p].number \in Nat /\ files'[p].number \in Nat
      /\ seen[s].path \in Nat /\ seen[s].from \in Nat /\ last[s] \in Nat
  BY CallAssumption DEF MongoTyped, SoundlyTyped, TypeOK, Pointer, Call
<1>3. NewVersion(s)' = NewVersion(s)
  BY <1>1 DEF NewVersion
<1>4. SeenIsPast(s)'
  BY <1>1, <1>2 DEF StageInv, SeenIsPast
<1>5. StageInv(s)'
  BY <1>1, <1>2, <1>4 DEF StageInv
<1>6. MoveMine(s)'
  BY <1>1, <1>2, <1>3 DEF MoveMine, At
<1> QED
  BY <1>5, <1>6


(* The steps shared with Vfs: reading the files, a move finds what it has  *)
(* written.                                                                *)
LEMMA SharedKeepsKnowing ==
    ASSUME MongoTyped, MongoTyped', NEW r \in Requests, SharedStep(r), StageInv(r), MoveMine(r)
    PROVE  StageInv(r)' /\ MoveMine(r)'
<1>1. /\ TypeOK /\ Sound(r) /\ stage[r] = "insert" /\ pc[r] \in Running
      /\ UNCHANGED <<files, stage, mine, call>>
      /\ stage \in [Requests -> Stages]
  <2>1. UNCHANGED <<files, stage, mine, call>> /\ pc[r] # "commit" /\ pc[r] \in Running
    BY SharedIsVfs, OnlyRunningStep
  <2> QED
    BY <2>1 DEF MongoTyped, SoundlyTyped, StageInv, Running
<1>2. /\ call[r].path \in Paths /\ call[r].from \in Paths /\ call[r].kind \in Kinds
      /\ \A p \in Paths : files[p].number \in Nat
      /\ seen[r].path \in Nat /\ seen[r].from \in Nat /\ last[r] \in Nat
  BY <1>1, CallAssumption DEF TypeOK, Pointer, Call
<1> USE <1>1, <1>2 DEF Goto, stores
<1>3. CASE PutBlob(r)
  <2>1. pc'[r] = "getfile" /\ call[r].kind = "write" /\ UNCHANGED <<seen, last, skip, src>>
    BY <1>3 DEF PutBlob, Sound, KindAt, TypeOK
  <2> QED
    BY <2>1 DEF StageInv, SeenIsPast, MoveMine, At
<1>4. CASE GetSource(r) \/ SourceMissing(r)
  <2>1. /\ pc[r] = "getsrc" /\ UNCHANGED <<seen, last, skip>> /\ pc'[r] # "commit"
        /\ pc'[r] = "getfile" => call[r].kind # "move"
        /\ pc'[r] \notin {"putblob", "getsrc", "commit", "crashed", "conflict"}
    BY <1>4 DEF GetSource, SourceMissing, AfterSource, Sound, KindAt, TypeOK
  <2>2. mine[r] = {}
    BY <2>1 DEF MoveMine
  <2> QED
    BY <2>1, <2>2 DEF StageInv, SeenIsPast, MoveMine, At
<1>5. CASE GetFrom(r)
  <2>1. /\ pc[r] = "getfrom" /\ pc'[r] = "getfile" /\ UNCHANGED <<last, skip, src>>
        /\ seen'[r].from = files[call[r].from].number
    BY <1>5 DEF GetFrom, TypeOK
  <2>2. NewVersion(r)' = NewVersion(r)
    BY <2>1 DEF NewVersion
  <2>3. StageInv(r)'
    BY <2>1 DEF StageInv, SeenIsPast
  <2> QED
    BY <2>1, <2>2, <2>3 DEF MoveMine, At
<1>6. CASE GetFile(r)
  <2>1. /\ pc[r] = "getfile" /\ pc'[r] = "commit" /\ src' = src
        /\ seen'[r].from = seen[r].from
        /\ seen'[r].path = files[call[r].path].number
        /\ skip'[r] = DstCommitted(r)
        /\ last'[r] = IF DstCommitted(r) THEN last[r] ELSE files[call[r].path].number + 1
    BY <1>6 DEF GetFile, TypeOK
  <2>2. StageInv(r)'
    BY <2>1 DEF StageInv, SeenIsPast, DstCommitted
  <2>3. ASSUME call[r].kind = "move", NEW v \in mine[r], ~v.tombstone
        PROVE  v = NewVersion(r)' /\ skip'[r]
    <3>1. v = NewVersion(r) /\ DstCommitted(r)
      BY <2>1, <2>3 DEF MoveMine, DstCommitted
    <3>2. NewVersion(r)' = NewVersion(r)
      BY <2>1, <3>1 DEF NewVersion
    <3> QED
      BY <2>1, <3>1, <3>2
  <2> QED
    BY <2>1, <2>2, <2>3 DEF MoveMine, At
<1>7. CASE NothingToDelete(r) \/ Audit(r) \/ GetBlob(r)
  <2>1. /\ UNCHANGED <<seen, last, skip, src>>
        /\ pc'[r] \in {"notfound", "done", "noblob", "index"}
    BY <1>7 DEF NothingToDelete, Audit, GetBlob, Sound, KindAt, TypeOK
  <2>2. NewVersion(r)' = NewVersion(r)
    BY <2>1 DEF NewVersion
  <2> QED
    BY <2>1, <2>2 DEF StageInv, SeenIsPast, MoveMine, At
<1> QED
  BY <1>3, <1>4, <1>5, <1>6, <1>7 DEF SharedStep

(* The steps of put_version.                                               *)
LEMMA PutKeepsKnowing ==
    ASSUME MongoTyped, MongoTyped', MongoInv, NEW r \in Requests, MongoStep(r) \/ MongoCrash(r),
           ~SharedStep(r), \A p \in Paths : files[p].number <= files'[p].number
    PROVE  StageInv(r)' /\ MoveMine(r)'
<1>1. /\ TypeOK /\ SoundlyTyped /\ StageInv(r) /\ MoveMine(r) /\ HasPending(r)
      /\ stage \in [Requests -> Stages] /\ mine \in [Requests -> SUBSET Version]
      /\ pc \in [Requests -> Locations]
  BY DEF MongoTyped, SoundlyTyped, MongoInv, TypeOK
<1>2. /\ call[r].path \in Paths /\ call[r].from \in Paths
      /\ \A p \in Paths : files[p].number \in Nat /\ files'[p].number \in Nat
      /\ seen[r].path \in Nat /\ seen[r].from \in Nat /\ last[r] \in Nat
  BY CallAssumption DEF MongoTyped, SoundlyTyped, TypeOK, Pointer, Call
<1>3. UNCHANGED <<call, seen, last, skip, src>>
  BY DEF MongoStep, MongoCrash, InsertVersion, PointVersion, LoseSwap, Withdraw,
         InsertTombstone, HideSource, InsertRefused, Crash, vars, locals
<1>4. NewVersion(r)' = NewVersion(r)
  BY <1>3 DEF NewVersion
<1> USE <1>1, <1>2, <1>3, <1>4 DEF Goto, Enter
<1>5. CASE InsertVersion(r)
  <2>1. /\ pc[r] = "commit" /\ stage[r] = "insert" /\ ~skip[r] /\ stage'[r] = "point"
        /\ pc'[r] = "commit" /\ mine'[r] = mine[r] \cup {NewVersion(r)}
    BY <1>5 DEF InsertVersion, At, Insert, locals
  <2>2. StageInv(r)'
    BY <2>1 DEF StageInv, SeenIsPast
  <2> QED
    BY <2>1, <2>2 DEF MoveMine, At
<1>6. CASE PointVersion(r)
  <2>1. /\ pc[r] = "commit" /\ stage[r] = "point" /\ mine' = mine
        /\ stage'[r] = IF call[r].kind = "move" THEN "tombstone" ELSE "insert"
        /\ pc'[r] = IF call[r].kind = "move" THEN "commit" ELSE "audit"
    BY <1>6 DEF PointVersion, At
  <2>2. files'[call[r].path].number = last[r]
    BY <1>6 DEF PointVersion, NewVersion, PointerTo, TypeOK
  <2>3. StageInv(r)'
    BY <2>1, <2>2 DEF StageInv, SeenIsPast
  <2> QED
    BY <2>1, <2>3 DEF MoveMine, At
<1>7. CASE LoseSwap(r)
  <2>1. /\ pc[r] = "commit" /\ stage[r] = "point" /\ stage'[r] = "undo"
        /\ pc'[r] = "commit" /\ mine' = mine
    BY <1>7 DEF LoseSwap, At, vars, locals
  <2>2. StageInv(r)'
    BY <2>1 DEF StageInv, SeenIsPast
  <2> QED
    BY <2>1, <2>2 DEF MoveMine, At
<1>8. CASE Withdraw(r)
  <2>1. pc'[r] = "conflict" /\ mine'[r] = {} /\ stage' = stage
    BY <1>8 DEF Withdraw
  <2> QED
    BY <2>1 DEF StageInv, SeenIsPast, MoveMine
<1>9. CASE InsertTombstone(r)
  <2>1. /\ pc[r] = "commit" /\ AtTombstone(r) /\ stage'[r] = "hide"
        /\ pc'[r] = "commit" /\ mine'[r] = mine[r] \cup {MoveTombstone(r)}
    BY <1>9 DEF InsertTombstone, Insert, AtTombstone, At, locals
  <2>2. MoveTombstone(r).tombstone
    BY DEF MoveTombstone
  <2>3. call[r].kind = "move" /\ last[r] <= files[call[r].path].number
    BY <2>1 DEF StageInv, AtTombstone, At
  <2>4. StageInv(r)'
    BY <2>1, <2>3 DEF StageInv, SeenIsPast
  <2>5. \A v \in mine'[r] : ~v.tombstone => v \in mine[r]
    BY <2>1, <2>2
  <2> QED
    BY <2>1, <2>4, <2>5 DEF MoveMine, At
<1>10. CASE HideSource(r)
  <2>1. /\ pc[r] = "commit" /\ mine' = mine /\ stage'[r] = "insert" /\ pc'[r] = "audit"
    BY <1>10 DEF HideSource, At
  <2> QED
    BY <2>1 DEF StageInv, SeenIsPast, MoveMine, At
<1>11. CASE InsertRefused(r)
  <2>1. /\ pc[r] = "commit" /\ mine' = mine /\ stage'[r] = "insert"
        /\ pc'[r] \in {"collision", "getfrom", "getfile"}
        /\ pc'[r] = "getfile" => call[r].kind # "move"
        /\ AtTombstone(r) \/ (At(r, "insert") /\ ~skip[r])
    BY <1>11 DEF InsertRefused, AtTombstone, At
  <2>2. SeenIsPast(r)'
    BY <2>1 DEF SeenIsPast
  <2>3. StageInv(r)'
    BY <2>1, <2>2 DEF StageInv
  <2>4. last[r] # 0
    BY <2>1 DEF StageInv, SeenIsPast
  <2>5. ASSUME call[r].kind = "move", NEW v \in mine[r], ~v.tombstone
        PROVE  v = NewVersion(r) /\ last[r] <= files[call[r].path].number
    <3>1. v = NewVersion(r) /\ (At(r, "insert") => skip[r])
      BY <2>5 DEF MoveMine
    <3>2. AtTombstone(r)
      BY <2>1, <3>1
    <3> QED
      BY <2>1, <2>5, <3>1, <3>2 DEF StageInv, AtTombstone, At
  <2>6. files' = files
    BY <1>11 DEF InsertRefused, stores
  <2> QED
    BY <2>1, <2>3, <2>4, <2>5, <2>6 DEF MoveMine, At
<1>12. CASE MongoCrash(r)
  <2>1. pc'[r] = "crashed" /\ UNCHANGED <<mine, stage>>
    BY <1>12 DEF MongoCrash, Crash
  <2> QED
    BY <2>1 DEF StageInv, SeenIsPast, MoveMine, At
<1> QED
  BY <1>5, <1>6, <1>7, <1>8, <1>9, <1>10, <1>11, <1>12 DEF MongoStep


----------------------------------------------------------------------------
(* The invariant.                                                          *)

(* The store and its collector start with tables that agree.               *)
LEMMA MongoInitSatisfies == MongoGcInit => MongoTyped /\ MongoInv
<1> SUFFICES ASSUME MongoGcInit PROVE MongoTyped /\ MongoInv
  OBVIOUS
<1>1. Init /\ IInv /\ SoundlyTyped
  BY InitSatisfies, InvariantIsSound DEF MongoGcInit, MongoInit
<1>2. /\ stage = [r \in Requests |-> "insert"] /\ mine = [r \in Requests |-> {}]
      /\ gc = "idle" /\ doomed = {} /\ runs = 0
  BY DEF MongoGcInit, MongoInit, GcInit
<1>3. MongoTyped
  BY <1>1, <1>2 DEF MongoTyped, Stages
<1>4. Agree(files, versions) /\ \A p \in Paths : files[p].number \in Nat
  BY <1>1 DEF IInv, PointerIsLatest, TypeOK, Pointer
<1>5. \A v \in versions : v.number \in Nat /\ v.path \in Paths
  BY <1>1 DEF IInv, TypeOK, Version
<1>6. AgreeOnto(files, versions)
  BY <1>4, <1>5 DEF Agree, AgreeOnto
<1>7. OrphansOwned
  BY <1>4, <1>5 DEF Agree, OrphansOwned
<1>8. \A r \in Requests : ~Busy(r)
  BY <1>2 DEF Busy
<1>9. ASSUME NEW r \in Requests PROVE StageInv(r)
  <2>1. SeenIsPast(r)
    BY <1>1 DEF IInv, RequestInv
  <2>2. pc[r] # "commit" /\ skip[r] = FALSE /\ stage[r] = "insert"
    BY <1>1, <1>2 DEF Init, FirstStep
  <2> QED
    BY <2>1, <2>2 DEF StageInv
<1> QED
  BY <1>2, <1>3, <1>6, <1>7, <1>8, <1>9
     DEF MongoInv, DoomedAreBehind, OneWriter, HasPending, MoveMine

(* Each step of a request that inserts in time preserves the invariant.    *)
LEMMA MongoRequestKeeps ==
    MongoTyped /\ MongoInv /\ InTime /\ [MongoNext]_mvars /\ UNCHANGED gcvars
        => MongoTyped' /\ MongoInv'
<1> SUFFICES ASSUME MongoTyped, MongoInv, InTime, [MongoNext]_mvars, UNCHANGED gcvars
             PROVE  MongoTyped' /\ MongoInv'
  OBVIOUS
<1>1. CASE UNCHANGED mvars
  <2>1. UNCHANGED <<files, versions, blobs, text, audit>> /\ UNCHANGED locals
        /\ UNCHANGED <<stage, mine, doomed, gc, runs>>
    BY <1>1 DEF mvars, vars, stores, gcvars
  <2>2. MongoTyped'
    BY <2>1 DEF MongoTyped, SoundlyTyped, TypeOK, Sound, KindAt, locals
  <2>3. AgreeOnto(files, versions)' /\ DoomedAreBehind' /\ OneWriter' /\ OrphansOwned'
    BY <2>1 DEF MongoInv, AgreeOnto, Taken, DoomedAreBehind, OneWriter, OrphansOwned, Busy,
                Pending, NewVersion, MoveTombstone, locals
  <2>4. \A r \in Requests : (HasPending(r) /\ StageInv(r) /\ MoveMine(r))'
    BY <2>1 DEF MongoInv, HasPending, Busy, Pending, NewVersion, MoveTombstone, StageInv,
                SeenIsPast, MoveMine, At, locals
  <2> QED
    BY <2>2, <2>3, <2>4 DEF MongoInv
<1>2. ASSUME NEW r \in Requests, MongoStep(r) \/ MongoCrash(r) PROVE MongoTyped' /\ MongoInv'
  <2>1. MongoTyped'
    BY <1>2, MongoStepTyped
  <2>2. DocsInv' /\ \A p \in Paths : files[p].number <= files'[p].number
    BY <1>2, <2>1, RequestKeepsDocs DEF InTime
  <2>3. ASSUME NEW s \in Requests \ {r} PROVE (StageInv(s) /\ MoveMine(s))'
    BY <1>2, <2>1, <2>2, OthersKeepKnowing DEF MongoInv
  <2>4. (StageInv(r) /\ MoveMine(r))'
    BY <1>2, <2>1, <2>2, SharedKeepsKnowing, PutKeepsKnowing DEF MongoInv
  <2>5. DoomedAreBehind'
    <3>1. /\ \A v \in Version : v.path \in Paths /\ v.number \in Nat
          /\ \A p \in Paths : files[p].number \in Nat /\ files'[p].number \in Nat
      BY <2>1 DEF Version, MongoTyped, SoundlyTyped, TypeOK, Pointer
    <3>2. doomed' = doomed /\ doomed \subseteq Version
      BY DEF MongoTyped, gcvars
    <3>3. \A v \in doomed : v.number # 1 /\ v.number + MaxRecent <= files[v.path].number + 1
      BY DEF MongoInv, DoomedAreBehind
    <3> QED
      BY <2>2, <3>1, <3>2, <3>3, GcAssumption DEF DoomedAreBehind
  <2> QED
    BY <2>1, <2>2, <2>3, <2>4, <2>5 DEF MongoInv, DocsInv
<1> QED
  BY <1>1, <1>2 DEF MongoNext

(* So does each step of the collector, if at least one version is kept: it *)
(* never takes a document somebody is busy with.                           *)
LEMMA MongoCollectorKeeps ==
    ASSUME MaxRecent # 0, MongoTyped, MongoInv, MongoGcStep
    PROVE  MongoTyped' /\ MongoInv'
<1>1. /\ MongoTyped' /\ UNCHANGED <<files, locals, stage, mine>> /\ versions' \subseteq versions
  BY MongoGcStepTyped
<1>2. /\ AgreeOnto(files, versions) /\ DoomedAreBehind /\ TypeOK
      /\ \A p \in Paths : files[p].number \in Nat
      /\ \A v \in Version : v.path \in Paths /\ v.number \in Nat
      /\ doomed \subseteq Version /\ runs \in Nat /\ (doomed # {} => runs > 0)
  BY DEF MongoInv, MongoTyped, SoundlyTyped, TypeOK, Pointer, Version
<1>3. runs' \in Nat /\ (runs > 0 => runs' > 0)
  <2>1. runs' = runs \/ runs' = runs + 1
    BY DEF MongoGcStep, ListFile, GcCrash, DeleteVersions, NextHash, PassOver, SweepText,
           SweepBlob, GcEnd
  <2> QED
    BY <1>2, <2>1
<1>4. versions' = versions \/ (versions' = versions \ doomed /\ runs' = runs)
  BY DEF MongoGcStep, ListFile, GcCrash, DeleteVersions, NextHash, PassOver, SweepText,
         SweepBlob, GcEnd, mvars, vars, stores
<1>5. AgreeOnto(files, versions)'
  <2>1. CASE versions' = versions
    BY <1>1, <1>2, <1>3, <2>1 DEF AgreeOnto, Taken
  <2>2. CASE versions' = versions \ doomed /\ runs' = runs
    <3> SUFFICES ASSUME NEW p \in Paths, NEW n \in 1 .. files[p].number,
                        ~Taken(versions', p, n), Taken(versions, p, n)
                 PROVE  runs > 0 /\ n # 1 /\ n + MaxRecent <= files[p].number + 1
      BY <1>1, <1>2, <2>2 DEF AgreeOnto
    <3>1. PICK v \in versions : v.path = p /\ v.number = n
      BY DEF Taken
    <3>2. v \in doomed
      BY <2>2, <3>1 DEF Taken
    <3> QED
      BY <1>2, <3>1, <3>2 DEF DoomedAreBehind
  <2> QED
    BY <1>4, <2>1, <2>2
<1>6. DoomedAreBehind'
  <2>1. \A v \in Reclaimable(versions) :
          v.number # 1 /\ v.number + MaxRecent <= files[v.path].number + 1
    BY <1>2, ListedAreBehind
  <2>2. doomed' \subseteq doomed \cup Reclaimable(versions)
    BY DEF MongoGcStep, ListFile, GcCrash, DeleteVersions, NextHash, PassOver, SweepText,
           SweepBlob, GcEnd
  <2> QED
    BY <1>1, <1>2, <2>1, <2>2 DEF DoomedAreBehind
<1>7. \A s \in Requests : /\ Busy(s)' <=> Busy(s)
                          /\ Pending(s)' = Pending(s)
  BY <1>1 DEF Busy, Pending, NewVersion, MoveTombstone, locals
<1>8. OneWriter'
  BY <1>7 DEF MongoInv, OneWriter
<1>9. OrphansOwned'
  BY <1>1, <1>7 DEF MongoInv, OrphansOwned, locals
<1>10. ASSUME NEW s \in Requests PROVE HasPending(s)'
  <2>1. CASE Busy(s)
    <3>1. /\ Pending(s) \in versions /\ Pending(s) \in mine[s]
          /\ Pending(s).number = files[Pending(s).path].number + 1
      BY <2>1 DEF MongoInv, HasPending
    <3>2. Pending(s) \notin doomed
      <4> SUFFICES ASSUME Pending(s) \in doomed PROVE FALSE
        OBVIOUS
      <4>1. Pending(s).number + MaxRecent <= Pending(s).number /\ Pending(s).number \in Nat
        BY <1>2, <3>1 DEF DoomedAreBehind
      <4> QED
        BY <4>1, GcAssumption
    <3> QED
      BY <1>1, <1>4, <1>7, <3>1, <3>2 DEF HasPending
  <2>2. CASE ~Busy(s)
    BY <1>7, <2>2 DEF HasPending
  <2> QED
    BY <2>1, <2>2
<1>11. \A s \in Requests : (StageInv(s) /\ MoveMine(s))'
  BY <1>1 DEF MongoInv, StageInv, SeenIsPast, MoveMine, At, NewVersion, locals
<1> QED
  BY <1>1, <1>5, <1>6, <1>8, <1>9, <1>10, <1>11 DEF MongoInv

(* The invariant of the behaviours in which every insert is in time.       *)
THEOREM MongoInvariance ==
    ASSUME MaxRecent # 0 PROVE MongoGcSpec /\ []InTime => [](MongoTyped /\ MongoInv)
<1>1. MongoTyped /\ MongoInv /\ InTime /\ [MongoGcNext]_mgvars => MongoTyped' /\ MongoInv'
  <2> SUFFICES ASSUME MongoTyped, MongoInv, InTime, [MongoGcNext]_mgvars
               PROVE  MongoTyped' /\ MongoInv'
    OBVIOUS
  <2>1. CASE MongoGcStep
    BY <2>1, MongoCollectorKeeps
  <2>2. CASE ~MongoGcStep
    <3>1. [MongoNext]_mvars /\ UNCHANGED gcvars
      BY <2>2 DEF MongoGcNext, mgvars
    <3> QED
      BY <3>1, MongoRequestKeeps
  <2> QED
    BY <2>1, <2>2
<1> QED
  BY <1>1, MongoInitSatisfies, PTL DEF MongoGcSpec

(* The pointer of a file never refers to a version that is not there       *)
(* (put_version inserts, then points, while a collector deletes what it    *)
(* has listed file by file).                                               *)
THEOREM PointersAreBacked ==
    ASSUME MaxRecent # 0 PROVE MongoGcSpec /\ []InTime => []PointerBacked
<1>1. MongoTyped /\ MongoInv => PointerBacked
  <2> SUFFICES ASSUME MongoTyped, MongoInv PROVE PointerBacked
    OBVIOUS
  <2>1. AgreeOnto(files, versions) /\ \A p \in Paths : files[p].number \in Nat
    BY DEF MongoInv, MongoTyped, SoundlyTyped, TypeOK, Pointer
  <2>2. \A p \in Paths : \A n \in 1 .. files[p].number :
          n + MaxRecent <= files[p].number + 1 => files[p].number - n >= MaxRecent - 1
    BY <2>1, GcAssumption
  <2> QED
    BY <2>1, <2>2 DEF AgreeOnto, PointerBacked
<1> QED
  BY <1>1, MongoInvariance, PTL

(* Only a request that died leaves a document nobody points at: whoever    *)
(* loses a compare-and-swap has withdrawn its document (delete_one) before *)
(* it raises.                                                              *)
THEOREM OrphansMeanCrashes ==
    ASSUME MaxRecent # 0 PROVE MongoGcSpec /\ []InTime => []OrphanMeansCrash
<1>1. MongoInv => OrphanMeansCrash
  BY DEF MongoInv, OrphansOwned, Busy, OrphanMeansCrash
<1> QED
  BY <1>1, MongoInvariance, PTL

(* A move writes its destination once, however often its tombstone is      *)
(* refused (_last_dst_attempt, dst_committed).                             *)
THEOREM MovesInsertOnce ==
    ASSUME MaxRecent # 0 PROVE MongoGcSpec /\ []InTime => []MoveInsertsOnce
<1>1. MongoInv => MoveInsertsOnce
  <2> SUFFICES ASSUME MongoInv, NEW r \in Requests, call[r].kind = "move"
               PROVE  Cardinality({v \in mine[r] : ~v.tombstone}) <= 1
    BY DEF MoveInsertsOnce
  <2> DEFINE S == {v \in mine[r] : ~v.tombstone}
  <2>1. S \in SUBSET {NewVersion(r)}
    BY DEF MongoInv, MoveMine
  <2>2. IsFiniteSet({NewVersion(r)}) /\ Cardinality({NewVersion(r)}) = 1
    BY FS_Singleton
  <2>3. Cardinality(S) <= Cardinality({NewVersion(r)})
    BY <2>1, <2>2, FS_Subset
  <2> QED
    BY <2>2, <2>3
<1> QED
  BY <1>1, MongoInvariance, PTL

(* Where nothing is collected every insert is in time, and the three hold  *)
(* of every behaviour, for any number of requests.                         *)
THEOREM WithoutCollection ==
    ASSUME MaxGcRuns = 0, MaxRecent # 0
    PROVE  MongoGcSpec => []PointerBacked /\ []OrphanMeansCrash /\ []MoveInsertsOnce
<1> DEFINE Idle == runs = 0 /\ gc = "idle"
<1>1. MongoGcInit => Idle
  BY DEF MongoGcInit, GcInit
<1>2. Idle /\ [MongoGcNext]_mgvars => Idle'
  <2> SUFFICES ASSUME Idle, [MongoGcNext]_mgvars PROVE Idle'
    OBVIOUS
  <2>1. ASSUME NEW p \in Paths PROVE ~ListFile(p)
    BY DEF ListFile
  <2>2. ~MongoGcStep
    BY <2>1 DEF MongoGcStep, DeleteVersions, PassOver, SweepText, NextHash, SweepBlob, GcEnd,
                GcCrash
  <2> QED
    BY <2>2 DEF MongoGcNext, mgvars, gcvars
<1>3. Idle => InTime
  BY DEF InTime, InTimeRequest
<1>4. MongoGcSpec => []InTime
  BY <1>1, <1>2, <1>3, PTL DEF MongoGcSpec
<1> QED
  BY <1>4, PointersAreBacked, OrphansMeanCrashes, MovesInsertOnce, PTL

----------------------------------------------------------------------------
(* Few requests are in time.                                               *)

(* As many as are kept, none of which moves a file onto itself: such a move*)
(* puts its path forward twice.                                            *)
FewWriters ==
    /\ IsFiniteSet(Requests) /\ Cardinality(Requests) <= MaxRecent
    /\ \A c \in Calls : c.kind = "move" => c.path # c.from

BeforeCommit == {"putblob", "getsrc", "getfrom", "getfile"}

(* A request has one document at a path, and none before its insert there. *)
LoneDocs(r) ==
    /\ call[r].kind # "move" =>
        /\ pc[r] \in BeforeCommit \/ At(r, "insert") => mine[r] = {}
        /\ Busy(r) => mine[r] \subseteq {NewVersion(r)}
    /\ call[r].kind = "move" /\ pc[r] \in BeforeCommit \cup {"commit"} =>
        \A v \in mine[r] : v.tombstone => At(r, "hide") /\ v = MoveTombstone(r)

(* What has been read is not older than the initial state.                 *)
ReadSince(r) ==
    /\ pc[r] = "commit" => InitFiles[call[r].path].number <= seen[r].path
    /\ pc[r] \in {"getfile", "commit"} /\ call[r].kind = "move"
        => InitFiles[call[r].from].number <= seen[r].from

(* The requests that have put a path forward, each by one.                 *)
Advancers(p) ==
    {r \in Requests : \E v \in mine[r] : v.path = p /\ v.number <= files[p].number}

Advanced ==
    \A p \in Paths :
        /\ InitFiles[p].number <= files[p].number
        /\ files[p].number <= InitFiles[p].number + Cardinality(Advancers(p))

FewInv == Advanced /\ \A r \in Requests : LoneDocs(r) /\ ReadSince(r)

(* The numbers are numbers, and the advancers can be counted.              *)
LEMMA AdvancersCount ==
    ASSUME FewWriters, MongoTyped
    PROVE  /\ \A p \in Paths : /\ files[p].number \in Nat /\ InitFiles[p].number \in Nat
                                /\ IsFiniteSet(Advancers(p)) /\ Cardinality(Advancers(p)) \in Nat
           /\ \A r \in Requests : /\ call[r] \in Calls /\ call[r].path \in Paths
                                   /\ call[r].from \in Paths /\ call[r].kind \in Kinds
                                   /\ seen[r].path \in Nat /\ seen[r].from \in Nat
<1>1. \A p \in Paths : files[p].number \in Nat /\ InitFiles[p].number \in Nat
  BY InitAssumption DEF MongoTyped, SoundlyTyped, TypeOK, Pointer
<1>2. \A p \in Paths : IsFiniteSet(Advancers(p)) /\ Cardinality(Advancers(p)) \in Nat
  <2>1. \A p \in Paths : Advancers(p) \in SUBSET Requests
    BY DEF Advancers
  <2> QED
    BY <2>1, FS_Subset, FS_CardinalityType DEF FewWriters
<1>3. \A r \in Requests : /\ call[r] \in Calls /\ call[r].path \in Paths
                          /\ call[r].from \in Paths /\ call[r].kind \in Kinds
                          /\ seen[r].path \in Nat /\ seen[r].from \in Nat
  BY CallAssumption DEF MongoTyped, SoundlyTyped, TypeOK, Call
<1> QED
  BY <1>1, <1>2, <1>3

(* Who is not among the advancers of a path leaves fewer than MaxRecent.   *)
LEMMA OthersAdvance ==
    ASSUME FewWriters, MongoTyped, Advanced, NEW p \in Paths, NEW r \in Requests,
           r \notin Advancers(p)
    PROVE  files[p].number < InitFiles[p].number + MaxRecent
<1>1. /\ IsFiniteSet(Requests \ {r}) /\ Cardinality(Requests) \in Nat
      /\ Cardinality(Requests \ {r}) = Cardinality(Requests) - 1
  BY FS_RemoveElement, FS_CardinalityType DEF FewWriters
<1>2. Advancers(p) \in SUBSET (Requests \ {r})
  BY DEF Advancers
<1>3. Cardinality(Advancers(p)) <= Cardinality(Requests \ {r})
  BY <1>1, <1>2, FS_Subset
<1>4. /\ files[p].number \in Nat /\ InitFiles[p].number \in Nat
      /\ Cardinality(Advancers(p)) \in Nat
  BY AdvancersCount
<1> QED
  BY <1>1, <1>3, <1>4, GcAssumption DEF FewWriters, Advanced

(* Before its insert a request has put neither of its paths forward, so    *)
(* the others alone have since it read them.                               *)
LEMMA FewAreInTime ==
    ASSUME FewWriters, MongoTyped, MongoInv, FewInv
    PROVE  InTime
<1> SUFFICES ASSUME NEW r \in Requests PROVE InTimeRequest(r)
  BY DEF InTime
<1>1. /\ call[r].path \in Paths /\ call[r].from \in Paths /\ call[r] \in Calls
      /\ LoneDocs(r) /\ ReadSince(r) /\ StageInv(r) /\ MoveMine(r) /\ Advanced
      /\ seen[r].path \in Nat /\ seen[r].from \in Nat
      /\ \A p \in Paths : files[p].number \in Nat /\ InitFiles[p].number \in Nat
  BY AdvancersCount DEF FewInv, MongoInv
<1>2. ASSUME At(r, "insert"), call[r].kind # "move" \/ ~skip[r]
      PROVE  files[call[r].path].number < seen[r].path + MaxRecent
  <2>1. mine[r] = {}
    BY <1>1, <1>2 DEF LoneDocs, MoveMine, At
  <2>2. r \notin Advancers(call[r].path)
    BY <2>1 DEF Advancers
  <2>3. InitFiles[call[r].path].number <= seen[r].path
    BY <1>1, <1>2 DEF ReadSince, At
  <2> QED
    BY <1>1, <2>2, <2>3, OthersAdvance, GcAssumption
<1>3. ASSUME call[r].kind = "move", AtTombstone(r)
      PROVE  files[call[r].from].number < seen[r].from + MaxRecent
  <2>1. pc[r] = "commit" /\ stage[r] # "hide"
    BY <1>3 DEF AtTombstone, At
  <2>2. \A v \in mine[r] : v = NewVersion(r)
    BY <1>1, <1>3, <2>1 DEF LoneDocs, MoveMine, At
  <2>3. \A v \in mine[r] : v.path # call[r].from
    BY <1>1, <1>3, <2>2 DEF NewVersion, FewWriters
  <2>4. r \notin Advancers(call[r].from)
    BY <2>3 DEF Advancers
  <2>5. InitFiles[call[r].from].number <= seen[r].from
    BY <1>1, <1>3, <2>1 DEF ReadSince
  <2> QED
    BY <1>1, <2>4, <2>5, OthersAdvance, GcAssumption
<1> QED
  BY <1>2, <1>3 DEF InTimeRequest

(* A busy request has put the path of its document not yet forward.        *)
LEMMA PendingIsAlone ==
    ASSUME FewWriters, MongoTyped, MongoInv, NEW r \in Requests, LoneDocs(r), Busy(r),
           NEW v \in mine[r], v.path = Pending(r).path
    PROVE  v = Pending(r) /\ v.number = files[v.path].number + 1
<1>1. /\ call[r] \in Calls /\ StageInv(r) /\ MoveMine(r) /\ HasPending(r)
      /\ pc[r] = "commit" /\ stage[r] \in {"point", "undo", "hide"}
  BY AdvancersCount DEF MongoInv, Busy
<1>2. CASE call[r].kind # "move"
  BY <1>1, <1>2 DEF LoneDocs, StageInv, Pending, HasPending
<1>3. CASE call[r].kind = "move" /\ stage[r] = "hide"
  <2>1. ~v.tombstone => v.path = call[r].path
    BY <1>1, <1>3 DEF MoveMine, NewVersion
  <2>2. v.path = call[r].from /\ call[r].path # call[r].from
    BY <1>1, <1>3 DEF Pending, MoveTombstone, FewWriters
  <2>3. v = MoveTombstone(r)
    BY <1>1, <1>3, <2>1, <2>2 DEF LoneDocs
  <2> QED
    BY <1>1, <1>3, <2>3 DEF Pending, HasPending
<1>4. CASE call[r].kind = "move" /\ stage[r] # "hide"
  <2>1. v = NewVersion(r)
    BY <1>1, <1>4 DEF LoneDocs, MoveMine, At
  <2> QED
    BY <1>1, <1>4, <2>1 DEF Pending, HasPending
<1> QED
  BY <1>2, <1>3, <1>4

(* The steps keep what each request has for itself.                        *)
LEMMA LoneDocsStay ==
    ASSUME MongoTyped, MongoTyped', MongoInv, NEW r \in Requests, LoneDocs(r),
           MongoStep(r) \/ MongoCrash(r)
    PROVE  LoneDocs(r)'
<1>1. /\ TypeOK /\ Sound(r) /\ StageInv(r) /\ MoveMine(r)
      /\ stage \in [Requests -> Stages] /\ mine \in [Requests -> SUBSET Version]
      /\ pc \in [Requests -> Locations]
  BY DEF MongoTyped, SoundlyTyped, MongoInv, TypeOK
<1> USE <1>1 DEF Goto, Enter
<1>2. CASE SharedStep(r)
  <2>1. /\ UNCHANGED <<stage, mine, call>> /\ pc[r] # "commit" /\ stage[r] = "insert"
        /\ pc[r] \in Running
    BY <1>2, SharedIsVfs, OnlyRunningStep DEF StageInv, Running
  <2>2. pc'[r] \in BeforeCommit \cup {"commit"} => pc[r] \in BeforeCommit
    <3>1. pc[r] \notin BeforeCommit => Audit(r) \/ GetBlob(r)
      BY <1>2 DEF SharedStep, PutBlob, GetSource, SourceMissing, GetFrom, GetFile,
                  NothingToDelete, BeforeCommit
    <3>2. Audit(r) \/ GetBlob(r) => pc'[r] \in {"done", "noblob", "index"}
      BY DEF Audit, GetBlob, Sound, KindAt, TypeOK
    <3> QED
      BY <3>1, <3>2 DEF BeforeCommit
  <2> QED
    BY <2>1, <2>2 DEF LoneDocs, At, Busy, BeforeCommit
<1>3. CASE ~SharedStep(r)
  <2>1. UNCHANGED <<call, seen, last, skip, src>>
    BY <1>3 DEF MongoStep, MongoCrash, InsertVersion, PointVersion, LoseSwap, Withdraw,
           InsertTombstone, HideSource, InsertRefused, Crash, vars, locals
  <2>2. NewVersion(r)' = NewVersion(r) /\ MoveTombstone(r)' = MoveTombstone(r)
    BY <2>1 DEF NewVersion, MoveTombstone
  <2> USE <2>1, <2>2
  <2>3. CASE InsertVersion(r)
    <3>1. /\ At(r, "insert") /\ stage'[r] = "point" /\ pc'[r] = "commit"
          /\ mine'[r] = mine[r] \cup {NewVersion(r)}
          /\ NewVersion(r).tombstone => call[r].kind = "delete"
      BY <2>3 DEF InsertVersion, At, Insert, NewVersion, locals
    <3> QED
      BY <3>1 DEF LoneDocs, At, Busy, BeforeCommit
  <2>4. CASE PointVersion(r)
    <3>1. /\ At(r, "point") /\ mine' = mine /\ pc'[r] \in {"commit", "audit"}
          /\ pc'[r] = "commit" => call[r].kind = "move" /\ stage'[r] = "tombstone"
      BY <2>4 DEF PointVersion, At
    <3> QED
      BY <3>1 DEF LoneDocs, At, Busy, BeforeCommit
  <2>5. CASE LoseSwap(r)
    <3>1. At(r, "point") /\ mine' = mine /\ pc' = pc /\ stage'[r] = "undo"
      BY <2>5 DEF LoseSwap, At, vars, locals
    <3> QED
      BY <3>1 DEF LoneDocs, At, Busy, BeforeCommit
  <2>6. CASE Withdraw(r)
    <3>1. pc'[r] = "conflict"
      BY <2>6 DEF Withdraw
    <3> QED
      BY <3>1 DEF LoneDocs, At, Busy, BeforeCommit
  <2>7. CASE InsertTombstone(r)
    <3>1. /\ AtTombstone(r) /\ stage[r] # "hide" /\ stage'[r] = "hide"
          /\ pc[r] = "commit" /\ pc'[r] = "commit"
          /\ mine'[r] = mine[r] \cup {MoveTombstone(r)}
      BY <2>7 DEF InsertTombstone, AtTombstone, At, Insert, locals
    <3>2. call[r].kind = "move"
      BY <3>1 DEF StageInv, AtTombstone, At
    <3> QED
      BY <3>1, <3>2 DEF LoneDocs, At, BeforeCommit
  <2>8. CASE HideSource(r)
    <3>1. pc'[r] = "audit"
      BY <2>8 DEF HideSource
    <3> QED
      BY <3>1 DEF LoneDocs, At, Busy, BeforeCommit
  <2>9. CASE InsertRefused(r)
    <3>1. /\ mine' = mine /\ pc[r] = "commit" /\ stage[r] \in {"insert", "tombstone"}
          /\ pc'[r] # "commit"
          /\ At(r, "insert") \/ (AtTombstone(r) /\ call[r].kind = "move")
      BY <2>9 DEF InsertRefused, AtTombstone, At, StageInv
    <3> QED
      BY <3>1 DEF LoneDocs, At, Busy
  <2>10. CASE MongoCrash(r)
    <3>1. pc'[r] = "crashed"
      BY <2>10 DEF MongoCrash, Crash
    <3> QED
      BY <3>1 DEF LoneDocs, At, Busy, BeforeCommit
  <2> QED
    BY <1>3, <2>3, <2>4, <2>5, <2>6, <2>7, <2>8, <2>9, <2>10 DEF MongoStep
<1> QED
  BY <1>2, <1>3

(* A read takes what is in the table now.                                  *)
LEMMA ReadSinceStays ==
    ASSUME FewWriters, MongoTyped, MongoTyped', MongoInv, Advanced, NEW r \in Requests,
           ReadSince(r), MongoStep(r) \/ MongoCrash(r)
    PROVE  ReadSince(r)'
<1>1. /\ TypeOK /\ Sound(r) /\ call[r].path \in Paths /\ call[r].from \in Paths
      /\ seen \in [Requests -> [from : Nat, path : Nat]] /\ pc \in [Requests -> Locations]
      /\ \A p \in Paths : InitFiles[p].number <= files[p].number
      /\ \A p \in Paths : files[p].number \in Nat /\ InitFiles[p].number \in Nat
  BY AdvancersCount DEF MongoTyped, SoundlyTyped, TypeOK, Advanced
<1> USE <1>1 DEF Goto
<1>2. CASE GetFrom(r) /\ UNCHANGED <<stage, mine>>
  <2>1. /\ seen'[r].from = files[call[r].from].number /\ pc'[r] = "getfile" /\ call' = call
    BY <1>2 DEF GetFrom
  <2> QED
    BY <2>1 DEF ReadSince
<1>3. CASE GetFile(r) /\ UNCHANGED <<stage, mine>>
  <2>1. /\ seen'[r].path = files[call[r].path].number /\ pc'[r] = "commit" /\ call' = call
        /\ seen'[r].from = seen[r].from /\ pc[r] = "getfile"
    BY <1>3 DEF GetFile
  <2> QED
    BY <2>1 DEF ReadSince
<1>4. CASE PutBlob(r) \/ GetSource(r) \/ SourceMissing(r) \/ NothingToDelete(r) \/ Audit(r)
           \/ GetBlob(r)
  <2>1. /\ call' = call /\ seen' = seen /\ pc'[r] # "commit"
        /\ pc'[r] = "getfile" => call[r].kind # "move"
    BY <1>4 DEF PutBlob, GetSource, SourceMissing, NothingToDelete, Audit, GetBlob, AfterSource,
                Sound, KindAt
  <2> QED
    BY <2>1 DEF ReadSince
<1>5. CASE ~SharedStep(r)
  <2>1. call' = call /\ seen' = seen /\ (pc'[r] = "commit" => pc[r] = "commit")
    BY <1>5 DEF MongoStep, MongoCrash, InsertVersion, PointVersion, LoseSwap, Withdraw, At,
           InsertTombstone, AtTombstone, HideSource, InsertRefused, Crash, vars, locals
  <2>2. pc'[r] = "getfile" => call[r].kind # "move"
    BY <1>5 DEF MongoStep, MongoCrash, InsertVersion, PointVersion, LoseSwap, Withdraw, At,
           InsertTombstone, AtTombstone, HideSource, InsertRefused, Crash, vars, locals
  <2> QED
    BY <2>1, <2>2 DEF ReadSince
<1> QED
  BY <1>2, <1>3, <1>4, <1>5 DEF SharedStep

(* A pointer that moves puts its path forward by one, and its request is   *)
(* a new advancer of that path; no step takes an advancer away.            *)
LEMMA AdvancedStays ==
    ASSUME FewWriters, MongoTyped, MongoTyped', MongoInv, Advanced, NEW r \in Requests,
           InTimeRequest(r), LoneDocs(r), MongoStep(r) \/ MongoCrash(r), UNCHANGED gcvars
    PROVE  Advanced'
<1>1. /\ \A p \in Paths : /\ files[p].number \in Nat /\ InitFiles[p].number \in Nat
                          /\ files'[p].number \in Nat
                          /\ IsFiniteSet(Advancers(p)) /\ Cardinality(Advancers(p)) \in Nat
                          /\ IsFiniteSet(Advancers(p)') /\ Cardinality(Advancers(p)') \in Nat
      /\ files \in [Paths -> Pointer]
      /\ \A s \in Requests : \A v \in mine[s] : v.path \in Paths /\ v.number \in Nat
  <2>1. \A p \in Paths : Advancers(p)' \in SUBSET Requests /\ files'[p].number \in Nat
    BY DEF Advancers, MongoTyped, SoundlyTyped, TypeOK, Pointer
  <2>2. \A p \in Paths : IsFiniteSet(Advancers(p)') /\ Cardinality(Advancers(p)') \in Nat
    BY <2>1, FS_Subset, FS_CardinalityType DEF FewWriters
  <2>3. \A s \in Requests : \A v \in mine[s] : v.path \in Paths /\ v.number \in Nat
    BY DEF MongoTyped, Version
  <2>4. files \in [Paths -> Pointer]
    BY DEF MongoTyped, SoundlyTyped, TypeOK
  <2> QED
    BY <2>1, <2>2, <2>3, <2>4, AdvancersCount
<1>2. \A s \in Requests \ {r} : mine'[s] = mine[s]
  BY MongoStepIsLocal DEF MongoOthersKept
<1>3. \A p \in Paths : files[p].number <= files'[p].number
  BY RequestKeepsDocs
<1>4. CASE \A v \in mine[r] : v.number <= files[v.path].number => v \in mine'[r]
  <2>1. ASSUME NEW p \in Paths PROVE Advancers(p) \subseteq Advancers(p)'
    <3> SUFFICES ASSUME NEW s \in Advancers(p) PROVE s \in Advancers(p)'
      OBVIOUS
    <3>1. PICK v \in mine[s] : s \in Requests /\ v.path = p /\ v.number <= files[p].number
      BY DEF Advancers
    <3>2. v \in mine'[s]
      BY <1>2, <1>4, <3>1
    <3>3. v.number <= files'[p].number
      BY <1>1, <1>3, <3>1
    <3> QED
      BY <3>1, <3>2, <3>3 DEF Advancers
  <2>2. ASSUME NEW p \in Paths PROVE Cardinality(Advancers(p)) <= Cardinality(Advancers(p)')
    BY <1>1, <2>1, FS_Subset
  <2>3. CASE PointVersion(r) \/ HideSource(r)
    <3>1. PICK v \in mine[r] : /\ v \in Version /\ v.number = files[v.path].number + 1
                              /\ files' = Put(files, v) /\ mine' = mine /\ Busy(r)
                              /\ v = Pending(r)
      BY <2>3, PointsAtPending
    <3>2. \A w \in mine[r] : w.path = v.path => w.number = files[w.path].number + 1
      BY <3>1, PendingIsAlone
    <3>3. /\ \A p \in Paths : p # v.path => files'[p] = files[p]
          /\ files'[v.path].number = files[v.path].number + 1 /\ v.path \in Paths
      BY <1>1, <3>1 DEF Put, PointerTo
    <3>4. r \notin Advancers(v.path) /\ r \in Advancers(v.path)'
      <4>1. r \notin Advancers(v.path)
        <5> SUFFICES ASSUME NEW w \in mine[r], w.path = v.path,
                            w.number <= files[v.path].number
                     PROVE  FALSE
          BY DEF Advancers
        <5>1. w.number = files[v.path].number + 1 /\ files[v.path].number \in Nat
          BY <1>1, <3>2, <3>3
        <5> QED
          BY <5>1
      <4>2. v.number <= files'[v.path].number
        BY <1>1, <3>1, <3>3
      <4>3. v \in mine'[r]
        BY <3>1
      <4>4. r \in Advancers(v.path)'
        BY <4>2, <4>3 DEF Advancers
      <4> QED
        BY <4>1, <4>4
    <3>5. Advancers(v.path) \cup {r} \subseteq Advancers(v.path)'
      BY <2>1, <3>3, <3>4
    <3>6. Cardinality(Advancers(v.path)) + 1 <= Cardinality(Advancers(v.path)')
      <4>1. Cardinality(Advancers(v.path) \cup {r}) = Cardinality(Advancers(v.path)) + 1
        BY <1>1, <3>3, <3>4, FS_AddElement
      <4>2. Cardinality(Advancers(v.path) \cup {r}) <= Cardinality(Advancers(v.path)')
        BY <1>1, <3>3, <3>5, FS_Subset
      <4> QED
        BY <4>1, <4>2
    <3>7. ASSUME NEW p \in Paths
          PROVE  /\ InitFiles[p].number <= files'[p].number
                 /\ files'[p].number <= InitFiles[p].number + Cardinality(Advancers(p)')
      <4>1. CASE p = v.path
        BY <1>1, <3>3, <3>6, <4>1 DEF Advanced
      <4>2. CASE p # v.path
        BY <1>1, <2>2, <3>3, <4>2 DEF Advanced
      <4> QED
        BY <4>1, <4>2
    <3> QED
      BY <3>7 DEF Advanced
  <2>4. CASE ~(PointVersion(r) \/ HideSource(r))
    <3>1. files' = files
      BY <2>4, SharedIsVfs DEF MongoStep, MongoCrash, InsertVersion, LoseSwap, Withdraw,
         InsertTombstone, InsertRefused, Crash, vars, stores
    <3> QED
      BY <1>1, <2>2, <3>1 DEF Advanced
  <2> QED
    BY <2>3, <2>4
<1>5. CASE Withdraw(r)
  <2>1. stage[r] = "undo" /\ pc[r] = "commit" /\ Busy(r) /\ Pending(r) = NewVersion(r)
    BY <1>5 DEF Withdraw, At, Busy, Pending
  <2>2. \A v \in mine[r] : v = NewVersion(r)
    <3>1. StageInv(r) /\ MoveMine(r)
      BY DEF MongoInv
    <3> QED
      BY <2>1, <3>1 DEF LoneDocs, MoveMine, At
  <2>3. \A v \in mine[r] : v.number = files[v.path].number + 1
    BY <2>1, <2>2, PendingIsAlone
  <2> QED
    BY <1>1, <1>4, <2>3
<1>6. CASE ~Withdraw(r)
  <2>1. mine[r] \subseteq mine'[r]
    <3>1. mine \in [Requests -> SUBSET Version]
      BY DEF MongoTyped
    <3>2. CASE InsertVersion(r) \/ InsertTombstone(r)
      BY <3>1, <3>2 DEF InsertVersion, InsertTombstone, Insert
    <3>3. CASE ~(InsertVersion(r) \/ InsertTombstone(r))
      BY <1>6, <3>3, SharedIsVfs
         DEF MongoStep, MongoCrash, PointVersion, LoseSwap, HideSource, InsertRefused
    <3> QED
      BY <3>2, <3>3
  <2> QED
    BY <1>4, <2>1
<1> QED
  BY <1>5, <1>6

(* With at most MaxRecent requests no insert has to be assumed in time:    *)
(* the others are too few to put a path that far ahead of what was read.   *)
THEOREM FewWritersAreInTime ==
    ASSUME FewWriters, MaxRecent # 0 PROVE MongoGcSpec => []InTime
<1> DEFINE All == MongoTyped /\ MongoInv /\ FewInv
<1>1. MongoGcInit => All
  <2> SUFFICES ASSUME MongoGcInit PROVE All
    OBVIOUS
  <2>1. MongoTyped /\ MongoInv
    BY MongoInitSatisfies
  <2>2. /\ files = InitFiles /\ mine = [r \in Requests |-> {}]
        /\ \A r \in Requests : pc[r] = FirstStep(call[r].kind)
        /\ stage = [r \in Requests |-> "insert"]
    BY DEF MongoGcInit, MongoInit, Init
  <2>3. Advanced
    <3>1. \A p \in Paths : Advancers(p) = {}
      BY <2>2 DEF Advancers
    <3>2. Cardinality({}) = 0
      BY FS_EmptySet
    <3> QED
      BY <2>1, <2>2, <3>1, <3>2, AdvancersCount DEF Advanced
  <2>4. ASSUME NEW r \in Requests PROVE LoneDocs(r) /\ ReadSince(r)
    <3>1. pc[r] \in {"putblob", "getfile", "getsrc"} /\ (pc[r] = "getfile" => call[r].kind # "move")
      BY <2>2 DEF FirstStep
    <3> QED
      BY <2>2, <3>1 DEF LoneDocs, ReadSince, Busy, At
  <2> QED
    BY <2>1, <2>3, <2>4 DEF FewInv
<1>2. All => InTime
  BY FewAreInTime
<1>3. All /\ [MongoGcNext]_mgvars => All'
  <2> SUFFICES ASSUME All, [MongoGcNext]_mgvars PROVE All'
    OBVIOUS
  <2>1. ASSUME UNCHANGED <<files, locals, stage, mine>> PROVE FewInv'
    <3>1. Advanced'
      BY <2>1 DEF FewInv, Advanced, Advancers
    <3>2. \A r \in Requests : LoneDocs(r)' /\ ReadSince(r)'
      BY <2>1 DEF FewInv, LoneDocs, ReadSince, Busy, At, NewVersion, MoveTombstone, locals
    <3> QED
      BY <3>1, <3>2 DEF FewInv
  <2>2. CASE MongoGcStep
    <3>1. MongoTyped' /\ MongoInv'
      BY <2>2, MongoCollectorKeeps
    <3>2. UNCHANGED <<files, locals, stage, mine>>
      BY <2>2, MongoGcStepTyped
    <3> QED
      BY <2>1, <3>1, <3>2
  <2>3. CASE ~MongoGcStep
    <3>1. [MongoNext]_mvars /\ UNCHANGED gcvars
      BY <2>3 DEF MongoGcNext, mgvars
    <3>2. MongoTyped' /\ MongoInv'
      BY <1>2, <3>1, MongoRequestKeeps
    <3>3. CASE UNCHANGED mvars
      BY <2>1, <3>2, <3>3 DEF mvars, vars, stores
    <3>4. ASSUME NEW r \in Requests, MongoStep(r) \/ MongoCrash(r) PROVE FewInv'
      <4>1. Advanced'
        BY <1>2, <3>1, <3>2, <3>4, AdvancedStays DEF FewInv, InTime
      <4>2. LoneDocs(r)' /\ ReadSince(r)'
        BY <3>2, <3>4, LoneDocsStay, ReadSinceStays DEF FewInv
      <4>3. ASSUME NEW s \in Requests \ {r} PROVE LoneDocs(s)' /\ ReadSince(s)'
        BY <3>4, <4>3, MongoStepIsLocal
           DEF FewInv, MongoOthersKept, OthersKept, LoneDocs, ReadSince, Busy, At, NewVersion,
               MoveTombstone
      <4> QED
        BY <4>1, <4>2, <4>3 DEF FewInv
    <3> QED
      BY <3>1, <3>2, <3>3, <3>4 DEF MongoNext
  <2> QED
    BY <2>2, <2>3
<1> QED
  BY <1>1, <1>2, <1>3, PTL DEF MongoGcSpec

(* So at most MaxRecent requests beside a collector keep every promise of  *)
(* the store, in every behaviour.                                          *)
THEOREM PromisesOfFew ==
    ASSUME FewWriters, MaxRecent # 0
    PROVE  MongoGcSpec => []PointerBacked /\ []OrphanMeansCrash /\ []MoveInsertsOnce
<1> QED
  BY FewWritersAreInTime, PointersAreBacked, OrphansMeanCrashes, MovesInsertOnce, PTL
=============================================================================
