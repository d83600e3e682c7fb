--------------------------- MODULE AccessProofs ---------------------------
(***************************************************************************)
(* Safety of Access for every set of principals, paths, clients and        *)
(* creators, on stores with and without transactions, and without the      *)
(* bound on the rows.                                                      *)
(*                                                                         *)
(* A check and the write it admits are two operations, so what a client    *)
(* was admitted for must stay justified while others change the table:     *)
(* the log only grows, and it is the log that Justified speaks of.         *)
(*                                                                         *)
(* The second part is about Search, which composes Access with a changing  *)
(* store: what list, search and reindex promise for any files, queries,    *)
(* contents and writers, with and without a text index.                    *)
(***************************************************************************)
EXTENDS Search, TLAPS

(* Whoever is about to write was admitted for an authority given earlier.  *)
Justified(c) ==
    pc[c] = "set" /\ job[c].kind = "grant" => GivenAdmin(job[c], log, Len(log))

Pending ==
    \A c \in Clients : /\ Justified(c)
                       /\ pc[c] = "audit" => at[c] \in DOMAIN log

IInv == AccessTypeOK /\ AuthorityTraced /\ Pending

----------------------------------------------------------------------------
(* The table and the log.                                                  *)

(* What was given by the first n changes stays given when changes follow.  *)
LEMMA GivenStays ==
    ASSUME NEW l \in Seq(Ask), NEW b \in Ask, NEW a, NEW n \in 0 .. Len(l),
           NEW k \in Nat, n <= k, GivenAdmin(a, l, n)
    PROVE  GivenAdmin(a, Append(l, b), k)
BY DEF GivenAdmin

(* A change whose author was given its authority keeps the log traced.     *)
LEMMA TracedAppend ==
    ASSUME NEW l \in Seq(Ask), NEW a \in Ask, Traced(l),
           a.kind = "grant" => GivenAdmin(a, l, Len(l))
    PROVE  Traced(Append(l, a))
<1> SUFFICES ASSUME NEW i \in DOMAIN Append(l, a), Append(l, a)[i].kind = "grant"
             PROVE  GivenAdmin(Append(l, a)[i], Append(l, a), i - 1)
  BY DEF Traced
<1>1. CASE i \in DOMAIN l
  <2>1. Append(l, a)[i] = l[i] /\ i - 1 \in 0 .. Len(l)
    BY <1>1
  <2>2. GivenAdmin(l[i], l, i - 1)
    BY <1>1, <2>1 DEF Traced
  <2> QED
    BY <2>1, <2>2, GivenStays
<1>2. CASE i = Len(l) + 1
  <2>1. Append(l, a)[i] = a /\ i - 1 = Len(l) /\ Len(l) \in 0 .. Len(l)
    BY <1>2
  <2> QED
    BY <2>1, GivenStays
<1> QED
  BY <1>1, <1>2

(* The upsert of set_permission is what one more change makes of the table.*)
LEMMA UpsertIsLast ==
    ASSUME NEW l \in Seq(Ask), NEW a \in Ask
    PROVE  LastRows(Append(l, a)) = Upsert(LastRows(l), a.row)
<1> DEFINE m == Append(l, a)
<1>1. /\ m \in Seq(Ask) /\ Len(m) = Len(l) + 1 /\ m[Len(m)] = a
      /\ DOMAIN m = DOMAIN l \cup {Len(m)} /\ Len(m) \notin DOMAIN l
      /\ \A i \in DOMAIN l : m[i] = l[i] /\ i <= Len(m) /\ i \in Int
      /\ DOMAIN l \subseteq Int /\ Len(m) \in Int
  OBVIOUS
<1> HIDE DEF m
<1>2. ASSUME NEW r \in LastRows(m)
      PROVE  r \in Upsert(LastRows(l), a.row)
  <2>1. PICK i \in DOMAIN m : /\ r = m[i].row
                              /\ \A j \in DOMAIN m : SameKey(m[j].row, m[i].row) => j <= i
    BY <1>2 DEF LastRows
  <2>2. CASE i = Len(m)
    BY <1>1, <2>1, <2>2 DEF Upsert
  <2>3. CASE i \in DOMAIN l
    <3>1. r = l[i].row /\ r \in LastRows(l)
      BY <1>1, <2>1, <2>3 DEF LastRows
    <3>2. ~SameKey(a.row, r)
      BY <1>1, <2>1, <2>3
    <3> QED
      BY <3>1, <3>2 DEF Upsert, SameKey
  <2> QED
    BY <1>1, <2>1, <2>2, <2>3
<1>3. ASSUME NEW r \in Upsert(LastRows(l), a.row)
      PROVE  r \in LastRows(m)
  <2>1. CASE r = a.row
    BY <1>1, <2>1 DEF LastRows
  <2>2. CASE r \in LastRows(l) /\ ~SameKey(r, a.row)
    <3>1. PICK i \in DOMAIN l : /\ r = l[i].row
                                /\ \A j \in DOMAIN l : SameKey(l[j].row, l[i].row) => j <= i
      BY <2>2 DEF LastRows
    <3>2. \A j \in DOMAIN m : SameKey(m[j].row, m[i].row) => j <= i
      BY <1>1, <2>2, <3>1 DEF SameKey
    <3> QED
      BY <1>1, <3>1, <3>2 DEF LastRows
  <2> QED
    BY <2>1, <2>2 DEF Upsert
<1> QED
  BY <1>2, <1>3 DEF m

(* The table holds rows of the log, one for a key.                         *)
LEMMA LastRowsAreRows ==
    ASSUME NEW l \in Seq(Ask)
    PROVE  /\ LastRows(l) \subseteq Row
           /\ \A r \in LastRows(l) : \E i \in DOMAIN l : l[i].row = r
           /\ \A r, q \in LastRows(l) : SameKey(r, q) => r = q
<1>1. /\ DOMAIN l \subseteq Int
      /\ \A i \in DOMAIN l : l[i].row \in Row
  <2>1. \A a \in Ask : a.row \in Row
    BY DEF Ask
  <2> QED
    BY <2>1
<1>2. ASSUME NEW r \in LastRows(l), NEW q \in LastRows(l), SameKey(r, q)
      PROVE  r = q
  <2>1. PICK i \in DOMAIN l : /\ r = l[i].row
                              /\ \A j \in DOMAIN l : SameKey(l[j].row, l[i].row) => j <= i
    BY DEF LastRows
  <2>2. PICK k \in DOMAIN l : /\ q = l[k].row
                              /\ \A j \in DOMAIN l : SameKey(l[j].row, l[k].row) => j <= k
    BY DEF LastRows
  <2>3. k <= i /\ i <= k
    BY <1>2, <2>1, <2>2 DEF SameKey
  <2> QED
    BY <1>1, <2>1, <2>2, <2>3
<1> QED
  BY <1>1, <1>2 DEF LastRows

(* What a check lets pass was given by a change of the log.                *)
LEMMA AuthorityWasGiven ==
    ASSUME log \in Seq(Ask), perms = LastRows(log), NEW a \in Ask, Authorised(a)
    PROVE  GivenAdmin(a, log, Len(log))
<1>1. PICK r \in perms : /\ r.who = a.by /\ PrefixMatches(r.prefix, a.row.prefix)
                         /\ "admin" \in r.ops
  BY DEF Authorised, CheckPermission, Matching
<1>2. PICK i \in DOMAIN log : log[i].row = r
  BY LastRowsAreRows
<1>3. DOMAIN log = 1 .. Len(log)
  OBVIOUS
<1> QED
  BY <1>1, <1>2, <1>3 DEF GivenAdmin

----------------------------------------------------------------------------
(* The invariant holds at the start.                                        *)
THEOREM InitInvariant == AccessInit => IInv
<1> SUFFICES ASSUME AccessInit PROVE IInv
  OBVIOUS
<1>1. InitLog \in Seq(Ask) /\ AnyAsk \in Asks
  BY AccessAssumption DEF AnyAsk
<1>2. /\ perms \subseteq Row
      /\ \A r, q \in perms : SameKey(r, q) => r = q
  BY <1>1, LastRowsAreRows DEF AccessInit
<1>3. AccessTypeOK
  BY <1>1, <1>2 DEF AccessInit, AccessTypeOK
<1>4. AuthorityTraced
  BY InitLogAssumption DEF AccessInit, AuthorityTraced
<1> QED
  BY <1>3, <1>4 DEF AccessInit, IInv, Pending, Justified

(* A check admits a change that an earlier one justifies.                  *)
LEMMA AdmitKeeps == ASSUME IInv, NEW c \in Clients, Admit(c) PROVE IInv'
<1> USE AccessAssumption
<1>1. PICK a \in Asks : /\ IF a.kind = "grant" THEN Authorised(a) ELSE ~HasAnyAdmin
                        /\ job' = [job EXCEPT ![c] = a]
  BY DEF Admit
<1>2. a.kind = "grant" => GivenAdmin(a, log, Len(log))
  BY <1>1, AuthorityWasGiven DEF IInv, AccessTypeOK, AuthorityTraced
<1>3. AccessTypeOK'
  BY <1>1 DEF IInv, Admit, AccessTypeOK, nameVars
<1>4. AuthorityTraced'
  BY DEF IInv, Admit, AccessTypeOK, AuthorityTraced
<1>5. Pending'
  <2> SUFFICES ASSUME NEW d \in Clients
               PROVE  Justified(d)' /\ (pc'[d] = "audit" => at'[d] \in DOMAIN log')
    BY DEF Pending
  <2>1. pc' = [pc EXCEPT ![c] = "set"] /\ log' = log /\ at' = at
    BY DEF Admit
  <2>2. CASE d = c
    BY <1>1, <1>2, <2>1, <2>2 DEF IInv, AccessTypeOK, Justified, GivenAdmin
  <2>3. CASE d # c
    BY <1>1, <2>1, <2>3 DEF IInv, AccessTypeOK, Pending, Justified, GivenAdmin
  <2> QED
    BY <2>2, <2>3
<1> QED
  BY <1>3, <1>4, <1>5 DEF IInv

(* The write adds one change to the log and the same row to the table.     *)
LEMMA SetPermissionKeeps == ASSUME IInv, NEW c \in Clients, SetPermission(c) PROVE IInv'
<1>1. /\ job[c] \in Asks /\ job[c] \in Ask /\ log \in Seq(Ask)
      /\ log' = Append(log, job[c])
      /\ perms' = Upsert(perms, job[c].row)
  BY AccessAssumption DEF IInv, AccessTypeOK, SetPermission
<1>2. /\ log' \in Seq(Ask)
      /\ DOMAIN log' = DOMAIN log \cup {Len(log) + 1}
      /\ Len(log) + 1 \notin DOMAIN log
      /\ Len(log) \in Nat /\ Len(log') = Len(log) + 1
  BY <1>1
<1>3. AccessTypeOK'
  <2>1. perms' = LastRows(log')
    BY <1>1, UpsertIsLast DEF IInv, AuthorityTraced
  <2>2. /\ perms' \subseteq Row
        /\ \A r, q \in perms' : SameKey(r, q) => r = q
    BY <1>2, <2>1, LastRowsAreRows
  <2>3. /\ pc' \in [Clients -> {"idle", "set", "audit"}]
        /\ at' \in [Clients -> {0} \cup DOMAIN log']
        /\ audited' \subseteq DOMAIN log'
    BY <1>2 DEF IInv, AccessTypeOK, SetPermission
  <2> QED
    BY <1>2, <2>2, <2>3 DEF IInv, AccessTypeOK, SetPermission, nameVars
<1>4. AuthorityTraced'
  <2>1. perms' = LastRows(log')
    BY <1>1, UpsertIsLast DEF IInv, AuthorityTraced
  <2>2. Traced(log')
    BY <1>1, TracedAppend DEF IInv, AuthorityTraced, Pending, Justified, SetPermission
  <2>3. \A i \in DOMAIN log' \ audited' : \E d \in Clients : pc'[d] = "audit" /\ at'[d] = i
    <3> SUFFICES ASSUME NEW i \in DOMAIN log' \ audited'
                 PROVE  \E d \in Clients : pc'[d] = "audit" /\ at'[d] = i
      OBVIOUS
    <3>1. CASE i = Len(log) + 1
      BY <3>1 DEF IInv, AccessTypeOK, SetPermission
    <3>2. CASE i \in DOMAIN log
      <4>1. PICK d \in Clients : pc[d] = "audit" /\ at[d] = i
        BY <3>2 DEF IInv, AuthorityTraced, SetPermission
      <4>2. d # c
        BY <4>1 DEF SetPermission
      <4> QED
        BY <4>1, <4>2 DEF IInv, AccessTypeOK, SetPermission
    <3> QED
      BY <1>2, <3>1, <3>2
  <2> QED
    BY <2>1, <2>2, <2>3 DEF AuthorityTraced
<1>5. Pending'
  <2> SUFFICES ASSUME NEW d \in Clients
               PROVE  Justified(d)' /\ (pc'[d] = "audit" => at'[d] \in DOMAIN log')
    BY DEF Pending
  <2>1. CASE d = c
    BY <1>2, <2>1 DEF IInv, AccessTypeOK, SetPermission, Justified
  <2>2. CASE d # c
    <3>1. pc'[d] = pc[d] /\ at'[d] = at[d] /\ job'[d] = job[d] /\ job' = job
      BY <2>2 DEF IInv, AccessTypeOK, SetPermission
    <3>2. ASSUME pc[d] = "set", job[d].kind = "grant"
          PROVE  GivenAdmin(job[d], log', Len(log'))
      <4>1. GivenAdmin(job[d], log, Len(log))
        BY <3>2 DEF IInv, Pending, Justified
      <4> QED
        BY <1>1, <1>2, <4>1, GivenStays
    <3>3. (GivenAdmin(job[d], log, Len(log)))' <=> GivenAdmin(job[d], log', Len(log'))
      BY <3>1 DEF GivenAdmin
    <3> QED
      BY <1>2, <3>1, <3>2, <3>3 DEF IInv, Pending, Justified
  <2> QED
    BY <2>1, <2>2
<1> QED
  BY <1>3, <1>4, <1>5 DEF IInv

(* The audit event is about a change of the log.                           *)
LEMMA RecordChangeKeeps == ASSUME IInv, NEW c \in Clients, RecordChange(c) PROVE IInv'
<1>1. /\ audited' = audited \cup {at[c]} /\ at[c] \in DOMAIN log /\ log' = log
      /\ AnyAsk \in Asks
  BY AccessAssumption DEF IInv, Pending, RecordChange, AnyAsk
<1>2. AccessTypeOK'
  BY <1>1 DEF IInv, AccessTypeOK, RecordChange, nameVars
<1>3. AuthorityTraced'
  <2>1. ASSUME NEW i \in DOMAIN log' \ audited'
        PROVE  \E d \in Clients : pc'[d] = "audit" /\ at'[d] = i
    <3>1. PICK d \in Clients : pc[d] = "audit" /\ at[d] = i
      BY <1>1 DEF IInv, AuthorityTraced
    <3>2. d # c
      BY <1>1, <3>1
    <3> QED
      BY <3>1, <3>2 DEF IInv, AccessTypeOK, RecordChange
  <2> QED
    BY <1>1, <2>1 DEF IInv, AuthorityTraced, RecordChange
<1>4. Pending'
  <2> SUFFICES ASSUME NEW d \in Clients
               PROVE  Justified(d)' /\ (pc'[d] = "audit" => at'[d] \in DOMAIN log')
    BY DEF Pending
  <2>1. CASE d = c
    BY <2>1 DEF IInv, AccessTypeOK, RecordChange, Justified
  <2>2. CASE d # c
    BY <1>1, <2>2 DEF IInv, AccessTypeOK, Pending, RecordChange, Justified, GivenAdmin
  <2> QED
    BY <2>1, <2>2
<1> QED
  BY <1>2, <1>3, <1>4 DEF IInv

(* Naming and stuttering do not touch permissions.                         *)
LEMMA GrantVarsKeep ==
    ASSUME IInv, UNCHANGED grantVars,
           names' \subseteq [id : Creators, name : DisplayNames],
           entities' \subseteq [id : Creators, name : DisplayNames],
           making' \in [Creators -> {"new", "named", "made", "conflict", "crashed"}]
    PROVE  IInv'
<1>1. AccessTypeOK'
  BY DEF IInv, AccessTypeOK, grantVars
<1>2. AuthorityTraced'
  BY DEF IInv, AuthorityTraced, grantVars
<1>3. Pending'
  BY DEF IInv, Pending, Justified, GivenAdmin, grantVars
<1> QED
  BY <1>1, <1>2, <1>3 DEF IInv

(* Every step of a grant, a bootstrap or a name claim keeps it.             *)
THEOREM StepKeepsInvariant == IInv /\ [AccessNext]_accessVars => IInv'
<1> SUFFICES ASSUME IInv, [AccessNext]_accessVars PROVE IInv'
  OBVIOUS
<1>1. ASSUME NEW c \in Clients, Admit(c) \/ SetPermission(c) \/ RecordChange(c)
      PROVE  IInv'
  BY <1>1, AdmitKeeps, SetPermissionKeeps, RecordChangeKeeps
<1>2. ASSUME NEW c \in Creators, NEW n \in DisplayNames, ClaimName(c, n)
      PROVE  IInv'
  BY <1>2, GrantVarsKeep DEF IInv, AccessTypeOK, ClaimName
<1>3. ASSUME NEW c \in Creators, NEW n \in DisplayNames, RefuseName(c, n)
      PROVE  IInv'
  BY <1>3, GrantVarsKeep DEF IInv, AccessTypeOK, RefuseName
<1>4. ASSUME NEW c \in Creators, PutEntity(c)
      PROVE  IInv'
  BY <1>4, GrantVarsKeep DEF IInv, AccessTypeOK, PutEntity
<1>5. ASSUME NEW c \in Creators, CrashCreator(c)
      PROVE  IInv'
  BY <1>5, GrantVarsKeep DEF IInv, AccessTypeOK, CrashCreator
<1>6. CASE UNCHANGED accessVars
  BY <1>6, GrantVarsKeep DEF IInv, AccessTypeOK, accessVars, nameVars
<1> QED
  BY <1>1, <1>2, <1>3, <1>4, <1>5, <1>6 DEF AccessNext

(* The invariant holds in every state that can be reached.                 *)
THEOREM AccessInvariance == AccessSpec => []IInv
BY InitInvariant, StepKeepsInvariant, PTL DEF AccessSpec

(* The variables keep their types and the table has one row for a key, the *)
(* upsert of set_permission.                                               *)
THEOREM AccessTypes == AccessSpec => []AccessTypeOK
<1>1. IInv => AccessTypeOK
  BY DEF IInv
<1> QED
  BY <1>1, AccessInvariance, PTL

(* Every permission goes back to the bootstrap through grants each made by *)
(* an administrator of a covering prefix, whatever checks and writes of    *)
(* other clients came between, and every change is audited or about to be. *)
THEOREM AuthorityIsTraced == AccessSpec => []AuthorityTraced
<1>1. IInv => AuthorityTraced
  BY DEF IInv
<1> QED
  BY <1>1, AccessInvariance, PTL

----------------------------------------------------------------------------
(* A stored entity owns its name on either kind of store; a name without   *)
(* one has a creator that is still busy or died without a transaction.     *)
THEOREM EntitiesOwnNames == AccessSpec => []EntityNamed
<1>1. AccessInit => EntityNamed
  BY DEF AccessInit, EntityNamed
<1>2. AccessTypeOK /\ EntityNamed /\ [AccessNext]_accessVars => EntityNamed'
  <2> SUFFICES ASSUME AccessTypeOK, EntityNamed, [AccessNext]_accessVars
               PROVE  EntityNamed'
    OBVIOUS
  <2> USE DEF AccessTypeOK, EntityNamed
  <2>1. ASSUME NEW c \in Creators, NEW n \in DisplayNames, ClaimName(c, n)
        PROVE  EntityNamed'
    <3> DEFINE e == [id |-> c, name |-> n]
    <3>1. /\ names' = names \cup {e} /\ NameFree(n) /\ making[c] = "new"
          /\ entities' = IF Transactional THEN entities \cup {e} ELSE entities
          /\ making' = [making EXCEPT ![c] = IF Transactional THEN "made" ELSE "named"]
      BY <2>1 DEF ClaimName
    <3>2. e.id = c /\ e.name = n
      OBVIOUS
    <3>3. \A x \in names : x.name # n /\ x.id \in Creators
      BY <3>1 DEF NameFree
    <3> HIDE DEF e
    <3>4. entities' \subseteq names'
      BY <3>1
    <3>5. \A x, y \in names' : x.name = y.name => x = y
      BY <3>1, <3>2, <3>3
    <3>6. ASSUME NEW x \in names' \ entities'
          PROVE  ~Transactional /\ making'[x.id] \in {"named", "crashed"}
      <4>1. CASE x = e
        BY <3>1, <3>2, <3>6, <4>1
      <4>2. CASE x \in names \ entities
        <5>1. making[x.id] # "new" /\ ~Transactional
          BY <4>2
        <5> QED
          BY <3>1, <3>3, <4>2, <5>1
      <4> QED
        BY <3>1, <3>6, <4>1, <4>2
    <3> QED
      BY <3>4, <3>5, <3>6
  <2>2. ASSUME NEW c \in Creators, NEW n \in DisplayNames, RefuseName(c, n)
        PROVE  EntityNamed'
    BY <2>2 DEF RefuseName
  <2>3. ASSUME NEW c \in Creators, PutEntity(c)
        PROVE  EntityNamed'
    BY <2>3 DEF PutEntity
  <2>4. ASSUME NEW c \in Creators, CrashCreator(c)
        PROVE  EntityNamed'
    BY <2>4 DEF CrashCreator
  <2>5. ASSUME NEW c \in Clients, Admit(c) \/ SetPermission(c) \/ RecordChange(c)
        PROVE  EntityNamed'
    BY <2>5 DEF Admit, SetPermission, RecordChange, nameVars
  <2>6. CASE UNCHANGED accessVars
    BY <2>6 DEF accessVars, nameVars
  <2> QED
    BY <2>1, <2>2, <2>3, <2>4, <2>5, <2>6 DEF AccessNext
<1> QED
  BY <1>1, <1>2, AccessTypes, PTL DEF AccessSpec

----------------------------------------------------------------------------
(* The order of specificity.                                               *)

Fragments == UNION {{p[i] : i \in DOMAIN p} : p \in Paths}

(* Paths are finite sequences of the fragments that occur in them.         *)
LEMMA PathsAreSequences == \A p \in Paths : p \in Seq(Fragments) /\ Len(p) \in Nat \ {0}
<1> SUFFICES ASSUME NEW p \in Paths PROVE p \in Seq(Fragments) /\ Len(p) \in Nat \ {0}
  OBVIOUS
<1>1. p \in Seq({p[i] : i \in DOMAIN p}) /\ Len(p) > 0
  BY AccessAssumption
<1>2. {p[i] : i \in DOMAIN p} \subseteq Fragments
  BY DEF Fragments
<1> QED
  BY <1>1, <1>2

(* What the string comparison of the store finds: the prefixes that end at *)
(* a slash of the path or right before one, and the path itself.           *)
LEMMA MatchesAtSlash ==
    ASSUME NEW p \in Paths, NEW q \in Paths
    PROVE  PrefixMatches(q, p) <=>
               \/ p = q
               \/ \E n \in 1 .. Len(p) : /\ q \in {SubSeq(p, 1, n), SubSeq(p, 1, n - 1)}
                                         /\ p[n] = Slash
<1>1. /\ p \in Seq(Fragments) /\ q \in Seq(Fragments)
      /\ Len(p) \in Nat \ {0} /\ Len(q) \in Nat \ {0}
  BY PathsAreSequences
<1>2. Last(q) = q[Len(q)] /\ Slash \in Fragments
  <2>1. p[1] = Slash
    BY AccessAssumption, Zenon
  <2>2. 1 \in DOMAIN p
    BY <1>1
  <2> QED
    BY <2>1, <2>2 DEF Last, Fragments
<1>3. ASSUME IsPrefix(DirForm(q), p)
      PROVE  \E n \in 1 .. Len(p) : /\ q \in {SubSeq(p, 1, n), SubSeq(p, 1, n - 1)}
                                    /\ p[n] = Slash
  <2>1. CASE q[Len(q)] = Slash
    BY <1>1, <1>2, <1>3, <2>1 DEF DirForm, IsPrefix
  <2>2. CASE q[Len(q)] # Slash
    BY <1>1, <1>2, <1>3, <2>2 DEF DirForm, IsPrefix
  <2> QED
    BY <2>1, <2>2
<1>4. ASSUME NEW n \in 1 .. Len(p), p[n] = Slash,
             q \in {SubSeq(p, 1, n), SubSeq(p, 1, n - 1)}
      PROVE  IsPrefix(DirForm(q), p)
  <2>1. CASE q[Len(q)] = Slash
    BY <1>1, <1>2, <1>4, <2>1 DEF DirForm, IsPrefix
  <2>2. CASE q[Len(q)] # Slash
    BY <1>1, <1>2, <1>4, <2>2 DEF DirForm, IsPrefix
  <2> QED
    BY <2>1, <2>2
<1> QED
  BY <1>3, <1>4 DEF PrefixMatches

(* A matching prefix is the beginning of the path, so of two matching ones *)
(* the shorter is the beginning of the longer.                             *)
LEMMA MatchesAreNested ==
    ASSUME NEW p \in Paths, NEW q \in Paths, NEW r \in Paths,
           PrefixMatches(q, p), PrefixMatches(r, p)
    PROVE  Len(q) <= Len(r) <=> IsPrefix(q, r)
<1>1. /\ p \in Seq(Fragments) /\ q \in Seq(Fragments) /\ r \in Seq(Fragments)
      /\ Len(p) \in Nat /\ Len(q) \in Nat \ {0} /\ Len(r) \in Nat \ {0}
  BY PathsAreSequences
<1>2. ASSUME NEW b \in Seq(Fragments), NEW n \in 0 .. Len(p),
             b = p \/ b = SubSeq(p, 1, n)
      PROVE  /\ Len(b) <= Len(p)
             /\ \A i \in 1 .. Len(b) : b[i] = p[i]
  BY <1>1, <1>2
<1>3. /\ Len(q) <= Len(p) /\ \A i \in 1 .. Len(q) : q[i] = p[i]
      /\ Len(r) <= Len(p) /\ \A i \in 1 .. Len(r) : r[i] = p[i]
  BY <1>1, <1>2, MatchesAtSlash
<1> QED
  BY <1>1, <1>3 DEF IsPrefix

(* The longest prefix is the most specific one, for every set of paths and *)
(* every table: the check of sql_metadata.py:404-409 decides by the row no *)
(* other matching row lies under.                                          *)
THEOREM LongestIsMostSpecific == AccessSpec => []MostSpecificDecides
<1>1. AccessTypeOK => MostSpecificDecides
  <2> SUFFICES ASSUME AccessTypeOK,
                      NEW who \in Principals, NEW path \in Paths, NEW op \in Operations
               PROVE  LET covers == {r \in perms : r.who = who /\ (path = r.prefix
                              \/ \E n \in 1..Len(path) :
                                    /\ r.prefix \in {SubSeq(path, 1, n), SubSeq(path, 1, n - 1)}
                                    /\ path[n] = Slash)}
                          finest == {r \in covers : \A s \in covers : IsPrefix(s.prefix, r.prefix)}
                      IN  CheckPermission(who, path, op) <=> \E r \in finest : op \in r.ops
    BY DEF MostSpecificDecides
  <2> DEFINE M == Matching(who, path)
  <2>1. \A r \in perms : r.prefix \in Paths
    BY DEF AccessTypeOK, Row
  <2>2. M = {r \in perms : r.who = who /\ (path = r.prefix
                 \/ \E n \in 1..Len(path) :
                       /\ r.prefix \in {SubSeq(path, 1, n), SubSeq(path, 1, n - 1)}
                       /\ path[n] = Slash)}
    BY <2>1, MatchesAtSlash DEF Matching
  <2>3. \A r, s \in M : Len(s.prefix) <= Len(r.prefix) <=> IsPrefix(s.prefix, r.prefix)
    BY <2>1, MatchesAreNested DEF Matching
  <2> QED
    BY <2>2, <2>3 DEF CheckPermission
<1> QED
  BY <1>1, AccessTypes, PTL

----------------------------------------------------------------------------
(* Searching. The invariant has four parts: what has been read of a file is *)
(* behind it (Behind), what a search holds was seen by it (Visible), what   *)
(* it has not left out is still ahead of it (Complete), and what a reindex  *)
(* has not done is still in its hands (Reindexing).                         *)

(* A version as list_dir and get_version return it.                         *)
Entry == [path : Files, number : Nat, hash : Hashes, artifact : Artifacts]

StoreTyped ==
    /\ native \in BOOLEAN
    /\ cur \in [Files -> File]
    /\ copying = NoEntry \/ copying \in Entry
    /\ indexing.entry = NoEntry \/ indexing.entry \in Entry
    /\ indexing.begun \in BOOLEAN /\ indexing.todo \subseteq Files
    /\ DOMAIN indexing = {"begun", "todo", "entry"}

SearchTyped ==
    /\ StoreTyped
    /\ sc \in [Searchers -> {"idle", "prune", "enumerate", "read", "done", "refused"}]
    /\ query \in [Searchers -> Query]
    /\ todo \in [Searchers -> SUBSET Files]
    /\ kept \in [Searchers -> SUBSET Files]
    /\ entries \in [Searchers -> SUBSET Entry]
    /\ results \in [Searchers -> SUBSET Files]
    /\ steady \in [Searchers -> SUBSET Files]
    /\ untouched \subseteq Files

(* The artifacts tell which contents are text.                             *)
Truthful(v) == v.artifact = "unsupported" => v.hash \in BinaryHashes

ArtifactsTrue ==
    /\ \A f \in Files : Truthful(cur[f])
    /\ copying # NoEntry => Truthful(copying)

(* A version that was read is the current one, or an older one.            *)
Behind(e) ==
    /\ e.number <= cur[e.path].number
    /\ e.number = cur[e.path].number => e.hash = cur[e.path].hash /\ ~cur[e.path].dead

(* What a search has is in its scope, and it saw it.                       *)
Visible(s) ==
    /\ sc[s] = "idle" => entries[s] = {} /\ kept[s] = {} /\ results[s] = {}
    /\ sc[s] = "prune" => todo[s] \subseteq InScope(s) \cap seen[s].live /\ entries[s] = {}
    /\ sc[s] = "enumerate" => todo[s] \subseteq kept[s]
    /\ sc[s] \in {"prune", "enumerate"} => results[s] = {}
    /\ sc[s] = "read" => query[s].kind = "regex" /\ ~native
    /\ kept[s] \subseteq InScope(s) \cap seen[s].readable \cap seen[s].live
    /\ \A e \in entries[s] : /\ e.path \in kept[s]
                             /\ e.hash \in MatchingHashes => e.path \in seen[s].matching
    /\ results[s] \subseteq seen[s].readable \cap seen[s].live
    /\ query[s].kind \in {"regex", "fulltext"} => results[s] \subseteq seen[s].matching

(* The entry of a file that is steady is of its current version, and an    *)
(* artifact that says ready still does.                                    *)
StillThere(s, e) ==
    e.path \in steady[s] =>
        /\ e.number = cur[e.path].number /\ e.hash = cur[e.path].hash
        /\ native /\ e.artifact = "ready" => cur[e.path].artifact = "ready"

(* A search has come to its steady files, or has them to do.               *)
Complete(s) ==
    /\ ~Ended(s) => steady[s] \subseteq Eligible(s)
    /\ sc[s] = "idle" => steady[s] = {}
    /\ sc[s] = "prune" => steady[s] \subseteq todo[s] \cup kept[s]
    /\ sc[s] = "enumerate" => /\ \A f \in steady[s] : f \in todo[s] \/ \E e \in entries[s] : e.path = f
                              /\ \A e \in entries[s] : e.path \notin todo[s]
    /\ sc[s] = "read" => \A f \in steady[s] : /\ \E e \in entries[s] : e.path = f
                                              /\ f \in todo[s] \cup results[s]
    /\ \A e, d \in entries[s] : e.path = d.path => e = d
    /\ \A e \in entries[s] : Truthful(e)
    /\ ~Ended(s) => \A e \in entries[s] : StillThere(s, e)
    /\ sc[s] \in {"prune", "enumerate", "read"} =>
          {f \in InScope(s) : Dangling(f)} \subseteq seen[s].dangling
    /\ sc[s] = "done" => steady[s] \subseteq results[s] \cup seen[s].dangling

(* A file whose artifact is not missing and whose text is there if it says *)
(* so.                                                                     *)
Repaired(f) == cur[f].artifact # NoText /\ ~Dangling(f)

Reindexing ==
    /\ ~indexing.begun => indexing.todo = {} /\ indexing.entry = NoEntry /\ untouched = {}
    /\ indexing.entry # NoEntry => native /\ Behind(indexing.entry)
    /\ \A f \in untouched : Live(f)
    /\ native /\ indexing.begun =>
          \A f \in untouched :
              \/ f \in indexing.todo
              \/ /\ indexing.entry # NoEntry /\ indexing.entry.path = f
                 /\ indexing.entry.number = cur[f].number
              \/ Repaired(f)

SearchInv ==
    /\ SearchTyped /\ ArtifactsTrue /\ Reindexing
    /\ \A s \in Searchers : Visible(s) /\ Complete(s)
----------------------------------------------------------------------------
(* Searches change nothing but their own locals, and the store's versions   *)
(* only ever grow.                                                          *)

KeepsLocals(s) ==
    /\ sc'[s] = sc[s] /\ query'[s] = query[s] /\ todo'[s] = todo[s] /\ kept'[s] = kept[s]
    /\ entries'[s] = entries[s] /\ results'[s] = results[s]

(* A version is replaced by a later one, or it gets the artifact of its     *)
(* content together with its text, or it stays.                             *)
VersionMoves(f) ==
    \/ cur'[f].number > cur[f].number
    \/ cur'[f] = cur[f]
    \/ /\ cur'[f].number = cur[f].number /\ cur'[f].hash = cur[f].hash
       /\ cur'[f].dead = cur[f].dead
       /\ cur'[f].artifact = Indexed(cur[f].hash)
       /\ text' = WithText(cur[f].hash)

(* A step of a search leaves the store alone.                               *)
LEMMA SearchLeavesStore ==
    ASSUME NEW s \in Searchers, SearchStep(s)
    PROVE  UNCHANGED <<accessVars, storeVars, copying, indexing>>
BY DEF SearchStep, ListDir, Prune, Enumerate, EndPrune, ByMetadata, Refuse, ByIndex,
       StartReading, EndReading, FailReading, ReadContent, Finish

(* Every step is one of the search itself or leaves its locals alone.       *)
LEMMA OwnOrOther ==
    ASSUME SearchTyped, Next, NEW s \in Searchers
    PROVE  SearchStep(s) \/ KeepsLocals(s)
<1>1. CASE UNCHANGED searchVars
  BY <1>1 DEF searchVars, KeepsLocals
<1>2. CASE \E t \in Searchers : SearchStep(t)
  <2>1. PICK t \in Searchers : SearchStep(t)
    BY <1>2
  <2>2. CASE t # s
    <3>1. CASE \E q \in Queries : ListDir(t, q)
      BY <2>2, <3>1 DEF SearchTyped, ListDir, KeepsLocals
    <3>2. CASE \E f \in Files : Prune(t, f) \/ Enumerate(t, f)
      BY <2>2, <3>2 DEF SearchTyped, Prune, Enumerate, KeepsLocals
    <3>3. CASE EndPrune(t) \/ StartReading(t)
      BY <2>2, <3>3 DEF SearchTyped, EndPrune, StartReading, KeepsLocals
    <3>4. CASE ByMetadata(t) \/ Refuse(t) \/ ByIndex(t) \/ EndReading(t) \/ FailReading(t)
      BY <2>2, <3>4 DEF SearchTyped, ByMetadata, Refuse, ByIndex, EndReading, FailReading,
         Finish, KeepsLocals
    <3>5. CASE \E e \in entries[t] : ReadContent(t, e)
      BY <2>2, <3>5 DEF SearchTyped, ReadContent, KeepsLocals
    <3> QED
      BY <2>1, <3>1, <3>2, <3>3, <3>4, <3>5 DEF SearchStep
  <2> QED
    BY <2>1, <2>2
<1>3. CASE StoreStep
  BY <1>1, <1>3 DEF StoreStep, Write, Delete, ReadSource, CarryOver, Sweep, StartReindex,
     ReadForIndex, StoreIndex
<1> QED
  BY <1>1, <1>2, <1>3 DEF Next

(* An entry or a version is made of its fields.                             *)
LEMMA VersionsTyped ==
    ASSUME SearchTyped, NEW f \in Files
    PROVE  /\ cur[f].number \in Nat /\ cur[f].hash \in Hashes /\ cur[f].dead \in BOOLEAN
           /\ cur[f].artifact \in Artifacts
           /\ EntryOf(f) \in Entry
BY DEF SearchTyped, StoreTyped, File, Entry, EntryOf

(* An artifact says unsupported only of a content that is not text.         *)
LEMMA IndexedTyped ==
    ASSUME NEW h \in Hashes
    PROVE  Indexed(h) \in Artifacts /\ (Indexed(h) = "unsupported" => h \in BinaryHashes)
BY SearchAssumption DEF Indexed, Artifacts

(* What a new version is made of.                                           *)
LEMMA NewVersions ==
    ASSUME SearchTyped, NEW f \in Files, NEW h \in Hashes, NEW a \in Artifacts
    PROVE  /\ Version(f, h, a) \in File /\ Tombstone(f) \in File
           /\ Version(f, h, a).number > cur[f].number /\ Tombstone(f).number > cur[f].number
           /\ Version(f, h, a).hash = h /\ Version(f, h, a).artifact = a
           /\ Tombstone(f).artifact = NoText
<1>1. /\ cur[f].number \in Nat /\ cur[f].hash \in Hashes
  BY VersionsTyped
<1>2. NoText \in Artifacts
  BY DEF Artifacts
<1> DEFINE Dead(v) == [v EXCEPT !.dead = TRUE]
<1>3. \A g \in Hashes, b \in Artifacts :
          /\ Version(f, g, b) \in File /\ Version(f, g, b).number > cur[f].number
          /\ Version(f, g, b).hash = g /\ Version(f, g, b).artifact = b
  BY <1>1 DEF File, Version
<1>4. \A v \in File : Dead(v) \in File /\ Dead(v).number = v.number /\ Dead(v).artifact = v.artifact
  BY DEF File
<1>5. Tombstone(f) = Dead(Version(f, cur[f].hash, NoText))
  BY DEF Tombstone
<1> HIDE DEF Dead
<1> QED
  BY <1>1, <1>2, <1>3, <1>4, <1>5

(* What a step does to the files: their versions move on, and say the truth *)
(* about their contents.                                                    *)
LEMMA StoreMoves ==
    ASSUME SearchTyped, ArtifactsTrue, Reindexing, StoreStep
    PROVE  /\ UNCHANGED native
           /\ cur' \in [Files -> File]
           /\ copying' = NoEntry \/ (copying' \in Entry /\ Truthful(copying'))
           /\ \A f \in Files : VersionMoves(f) /\ Truthful(cur[f])'
<1>0. StoreTyped
  BY DEF SearchTyped
<1>1. \A f \in Files : /\ cur[f].number \in Nat /\ cur[f].hash \in Hashes
                       /\ cur[f].artifact \in Artifacts /\ Truthful(cur[f])
                       /\ EntryOf(f) \in Entry
  BY VersionsTyped DEF ArtifactsTrue
<1>2. NoText \in Artifacts /\ NoText # "unsupported"
  BY SearchAssumption DEF Artifacts
<1>3. CASE UNCHANGED <<native, cur>>
  <2>1. \A f \in Files : VersionMoves(f) /\ Truthful(cur[f])'
    BY <1>1, <1>3 DEF VersionMoves, Truthful
  <2>2. copying' \in {copying, NoEntry} \/ \E f \in Files : copying' = EntryOf(f)
    BY <1>3 DEF StoreStep, Write, Delete, ReadSource, CarryOver, Sweep, StartReindex,
       ReadForIndex, StoreIndex
  <2>3. \A f \in Files : Truthful(EntryOf(f))
    BY <1>1 DEF Truthful, EntryOf
  <2> QED
    BY <1>0, <1>1, <1>3, <2>1, <2>2, <2>3 DEF StoreTyped, ArtifactsTrue
<1> DEFINE Changed(f, v, g) == [d \in Files |-> IF d = f THEN v
                                                ELSE IF d \in g THEN Tombstone(d) ELSE cur[d]]
<1>4. ASSUME NEW f \in Files, NEW h \in Hashes, NEW a \in Artifacts, Truthful(Version(f, h, a)),
             NEW g \in SUBSET Files, UNCHANGED native,
             copying' = copying \/ copying' = NoEntry,
             cur' = Changed(f, Version(f, h, a), g)
      PROVE  /\ UNCHANGED native
             /\ cur' \in [Files -> File]
             /\ copying' = NoEntry \/ (copying' \in Entry /\ Truthful(copying'))
             /\ \A d \in Files : VersionMoves(d) /\ Truthful(cur[d])'
  <2>1. \A d \in Files : /\ Tombstone(d) \in File /\ Tombstone(d).number > cur[d].number
                         /\ Truthful(Tombstone(d))
    BY <1>1, <1>2, NewVersions DEF Truthful
  <2>2. Version(f, h, a) \in File /\ Version(f, h, a).number > cur[f].number
    BY <1>4, NewVersions
  <2>3. \A d \in Files : cur[d] \in File
    BY <1>0 DEF StoreTyped
  <2>4. \A d \in Files : cur'[d] = IF d = f THEN Version(f, h, a)
                                   ELSE IF d \in g THEN Tombstone(d) ELSE cur[d]
    BY <1>4
  <2>5. ASSUME NEW d \in Files PROVE VersionMoves(d) /\ Truthful(cur[d])' /\ cur'[d] \in File
    <3>1. CASE d = f
      BY <1>4, <2>2, <2>4, <3>1 DEF VersionMoves, Truthful
    <3>2. CASE d # f /\ d \in g
      BY <2>1, <2>4, <3>2 DEF VersionMoves, Truthful
    <3>3. CASE d # f /\ d \notin g
      BY <1>1, <2>3, <2>4, <3>3 DEF VersionMoves, Truthful
    <3> QED
      BY <3>1, <3>2, <3>3
  <2>6. cur' \in [Files -> File]
    <3>1. cur' = [d \in Files |-> cur'[d]]
      BY <1>4
    <3> QED
      BY <2>5, <3>1
  <2> QED
    BY <1>0, <1>4, <2>5, <2>6 DEF StoreTyped, ArtifactsTrue
<1> HIDE DEF Changed
<1>5. CASE \E c \in Commits : Write(c.path, c.hash)
  <2>1. PICK c \in Commits : Write(c.path, c.hash)
    BY <1>5
  <2>2. c.hash \in Hashes /\ Indexed(c.hash) \in Artifacts
    BY SearchAssumption, IndexedTyped
  <2>3. Truthful(Version(c.path, c.hash, Indexed(c.hash)))
    BY <2>2, IndexedTyped DEF Truthful, Version
  <2>4. CASE c.path \in Files
    <3>1. cur' = Changed(c.path, Version(c.path, c.hash, Indexed(c.hash)), {})
      BY <1>0, <2>1, <2>4 DEF Write, StoreTyped, Changed
    <3> QED
      BY <1>4, <2>1, <2>2, <2>3, <2>4, <3>1 DEF Write
  <2>5. CASE c.path \notin Files
    BY <1>0, <1>3, <2>1, <2>5 DEF Write, StoreTyped
  <2> QED
    BY <2>4, <2>5
<1>6. CASE \E f \in Files : Delete(f)
  <2>1. PICK f \in Files : Delete(f)
    BY <1>6
  <2>2. \A d \in Files : cur'[d] = IF d = f THEN Tombstone(f) ELSE cur[d]
    BY <1>0, <2>1 DEF Delete, StoreTyped
  <2>3. \A d \in Files : /\ Tombstone(d) \in File /\ Tombstone(d).number > cur[d].number
                         /\ Truthful(Tombstone(d))
    BY <1>1, <1>2, NewVersions DEF Truthful
  <2>4. UNCHANGED <<native, copying>> /\ cur' \in [Files -> File]
    BY <1>0, <2>1, <2>3 DEF Delete, StoreTyped
  <2>5. \A d \in Files : VersionMoves(d) /\ Truthful(cur[d])'
    BY <1>1, <2>2, <2>3 DEF VersionMoves, Truthful
  <2> QED
    BY <1>0, <2>4, <2>5 DEF StoreTyped, ArtifactsTrue
<1>7. CASE \E f \in Files, moving \in BOOLEAN : CarryOver(f, moving)
  <2>1. PICK f \in Files, moving \in BOOLEAN : CarryOver(f, moving)
    BY <1>7
  <2>2. copying \in Entry /\ Truthful(copying)
    BY <1>0, <2>1 DEF CarryOver, StoreTyped, ArtifactsTrue
  <2>3. copying.hash \in Hashes /\ copying.artifact \in Artifacts
    BY <2>2 DEF Entry
  <2>4. Truthful(Version(f, copying.hash, copying.artifact))
    BY <2>2 DEF Truthful, Version
  <2>5. CASE moving
    <3>1. /\ cur' = Changed(f, Version(f, copying.hash, copying.artifact), {copying.path})
          /\ copying.path \in Files
      BY <2>1, <2>2, <2>5 DEF CarryOver, Changed, Entry
    <3> QED
      BY <1>4, <2>1, <2>3, <2>4, <3>1 DEF CarryOver
  <2>6. CASE ~moving
    <3>1. cur' = Changed(f, Version(f, copying.hash, copying.artifact), {})
      BY <2>1, <2>2, <2>6 DEF CarryOver, Changed
    <3> QED
      BY <1>4, <2>1, <2>3, <2>4, <3>1 DEF CarryOver
  <2> QED
    BY <2>5, <2>6
<1>8. CASE StoreIndex
  <2>1. indexing.entry \in Entry /\ Behind(indexing.entry) /\ UNCHANGED <<native, copying>>
    BY <1>0, <1>8 DEF StoreIndex, StoreTyped, Reindexing
  <2>2. PICK f \in Files : f = indexing.entry.path
    BY <2>1 DEF Entry
  <2>3. CASE cur[f].number = indexing.entry.number
    <3>1. cur[f].hash = indexing.entry.hash
      BY <2>1, <2>2, <2>3 DEF Behind
    <3>2. cur' = [cur EXCEPT ![f].artifact = Indexed(cur[f].hash)]
      BY <1>8, <2>2, <2>3, <3>1 DEF StoreIndex
    <3>3. Indexed(cur[f].hash) \in Artifacts
          /\ (Indexed(cur[f].hash) = "unsupported" => cur[f].hash \in BinaryHashes)
      BY <1>1, IndexedTyped
    <3>4. cur' \in [Files -> File] /\ \A d \in Files : d # f => cur'[d] = cur[d]
      BY <1>0, <3>2, <3>3 DEF StoreTyped, File
    <3>5. /\ cur'[f].number = cur[f].number /\ cur'[f].hash = cur[f].hash
          /\ cur'[f].dead = cur[f].dead /\ cur'[f].artifact = Indexed(cur[f].hash)
          /\ text' = WithText(cur[f].hash)
      BY <1>0, <1>8, <3>1, <3>2 DEF StoreTyped, File, StoreIndex
    <3>6. \A d \in Files : VersionMoves(d) /\ Truthful(cur[d])'
      BY <1>1, <3>3, <3>4, <3>5 DEF VersionMoves, Truthful
    <3> QED
      BY <1>0, <2>1, <3>4, <3>6 DEF StoreTyped, ArtifactsTrue
  <2> QED
    BY <1>3, <1>8, <2>1, <2>2, <2>3 DEF StoreIndex
<1>9. CASE \E f \in Files : ReadSource(f) \/ ReadForIndex(f)
  BY <1>3, <1>9 DEF ReadSource, ReadForIndex, storeVars
<1>10. CASE StartReindex \/ \E h \in Hashes : Sweep(h)
  BY <1>3, <1>10 DEF StartReindex, Sweep, storeVars
<1> QED
  BY <1>5, <1>6, <1>7, <1>8, <1>9, <1>10 DEF StoreStep

(* The same of every step.                                                  *)
LEMMA StepMoves ==
    ASSUME SearchTyped, ArtifactsTrue, Reindexing, Next
    PROVE  /\ UNCHANGED native
           /\ cur' \in [Files -> File]
           /\ copying' = NoEntry \/ (copying' \in Entry /\ Truthful(copying'))
           /\ \A f \in Files : VersionMoves(f) /\ Truthful(cur[f])'
<1>1. CASE StoreStep
  BY <1>1, StoreMoves
<1>2. CASE ~StoreStep
  <2>1. UNCHANGED <<storeVars, copying>>
    BY <1>2, SearchLeavesStore DEF Next
  <2>2. \A f \in Files : VersionMoves(f) /\ Truthful(cur[f])'
    BY <2>1 DEF storeVars, VersionMoves, Truthful, ArtifactsTrue
  <2> QED
    BY <2>1, <2>2 DEF storeVars, SearchTyped, StoreTyped, ArtifactsTrue
<1> QED
  BY <1>1, <1>2

(* The number of a file only grows, and says what the file holds.           *)
LEMMA NumbersOnlyGrow ==
    ASSUME SearchTyped, cur' \in [Files -> File], NEW f \in Files, VersionMoves(f)
    PROVE  /\ cur[f].number \in Nat /\ cur'[f].number \in Nat
           /\ cur'[f].number >= cur[f].number
           /\ cur'[f].number = cur[f].number =>
                cur'[f].hash = cur[f].hash /\ cur'[f].dead = cur[f].dead
<1>1. cur[f].number \in Nat /\ cur'[f].number \in Nat
  BY VersionsTyped DEF File
<1> QED
  BY <1>1 DEF VersionMoves

(* What was read of a file stays behind it.                                 *)
LEMMA BehindStays ==
    ASSUME SearchTyped, cur' \in [Files -> File], \A f \in Files : VersionMoves(f),
           NEW e \in Entry, Behind(e)
    PROVE  Behind(e)'
<1>1. e.path \in Files /\ e.number \in Nat
  BY DEF Entry
<1> QED
  BY <1>1, NumbersOnlyGrow DEF Behind

(* reindex: what it has read is behind the file it read it from.            *)
LEMMA EntryStep ==
    ASSUME SearchTyped, ArtifactsTrue, Reindexing, Next
    PROVE  /\ (StoreTyped)'
           /\ indexing'.entry # NoEntry => native' /\ Behind(indexing.entry)'
<1>1. /\ UNCHANGED native /\ cur' \in [Files -> File]
      /\ copying' = NoEntry \/ copying' \in Entry
      /\ \A f \in Files : VersionMoves(f)
  BY StepMoves
<1>2. \A f \in Files : EntryOf(f) \in Entry
  BY VersionsTyped
<1>3. \/ UNCHANGED indexing
      \/ StartReindex \/ StoreIndex
      \/ \E f \in Files : ReadForIndex(f)
  BY SearchLeavesStore DEF Next, StoreStep, Write, Delete, ReadSource, CarryOver, Sweep
<1>4. /\ indexing'.entry = NoEntry \/ indexing'.entry \in Entry
      /\ indexing'.begun \in BOOLEAN /\ indexing'.todo \subseteq Files
      /\ DOMAIN indexing' = {"begun", "todo", "entry"}
  <2>1. CASE \E f \in Files : ReadForIndex(f)
    BY <1>2, <2>1 DEF SearchTyped, StoreTyped, ReadForIndex
  <2>2. CASE StartReindex
    <3>1. {f \in Files : Live(f)} \subseteq Files
      OBVIOUS
    <3> QED
      BY <2>2, <3>1 DEF SearchTyped, StoreTyped, StartReindex
  <2>3. CASE StoreIndex
    BY <2>3 DEF SearchTyped, StoreTyped, StoreIndex
  <2>4. CASE UNCHANGED indexing
    BY <2>4 DEF SearchTyped, StoreTyped
  <2> QED
    BY <1>3, <2>1, <2>2, <2>3, <2>4
<1>5. indexing'.entry # NoEntry => native' /\ Behind(indexing.entry)'
  <2>1. CASE indexing'.entry = indexing.entry
    BY <1>1, <1>4, <2>1, BehindStays DEF Reindexing, SearchTyped, StoreTyped, Behind
  <2>2. CASE StoreIndex
    BY <2>2 DEF StoreIndex, SearchTyped, StoreTyped
  <2>3. CASE \E f \in Files : ReadForIndex(f)
    <3>1. PICK f \in Files : ReadForIndex(f)
      BY <2>3
    <3>2. indexing'.entry = IF Live(f) /\ native THEN EntryOf(f) ELSE indexing.entry
      BY <3>1 DEF ReadForIndex, SearchTyped, StoreTyped
    <3>3. CASE Live(f) /\ native
      <4>1. Behind(EntryOf(f)) /\ EntryOf(f) \in Entry
        BY <1>2, <3>3, VersionsTyped DEF Behind, EntryOf, Live
      <4> DEFINE e == EntryOf(f)
      <4>2. e \in Entry /\ Behind(e) /\ indexing'.entry = e
        BY <3>2, <3>3, <4>1
      <4> HIDE DEF e
      <4>3. cur' = cur
        BY <3>1 DEF ReadForIndex, storeVars
      <4> QED
        BY <1>1, <3>3, <4>2, <4>3 DEF Behind
    <3> QED
      BY <2>1, <3>2, <3>3
  <2> QED
    BY <1>3, <2>1, <2>2, <2>3 DEF StartReindex, SearchTyped, StoreTyped
<1> QED
  BY <1>1, <1>4, <1>5 DEF SearchTyped, StoreTyped

(* A repaired file that is not written stays repaired: its content is in    *)
(* use, so no sweep takes its text.                                         *)
LEMMA RepairStays ==
    ASSUME SearchTyped, ArtifactsTrue, Reindexing, Next,
           NEW f \in Files, Live(f), native, Repaired(f), cur'[f].number = cur[f].number
    PROVE  Repaired(f)'
<1>1. UNCHANGED native /\ VersionMoves(f) /\ cur[f].number \in Nat /\ cur[f].hash \in Hashes
  BY StepMoves, VersionsTyped
<1>2. CASE \E h \in Hashes : Sweep(h)
  BY <1>2 DEF Sweep, Repaired, Dangling, Live
<1>3. CASE ~\E h \in Hashes : Sweep(h)
  <2>1. text \subseteq text'
    <3>1. CASE StoreStep
      BY <1>3, <3>1 DEF StoreStep, Write, Delete, ReadSource, CarryOver, StartReindex,
         ReadForIndex, StoreIndex, storeVars, WithText
    <3>2. CASE ~StoreStep
      BY <3>2, SearchLeavesStore DEF Next, storeVars
    <3> QED
      BY <3>1, <3>2
  <2>2. CASE cur'[f] = cur[f]
    BY <2>1, <2>2 DEF Repaired, Dangling, Live
  <2>3. CASE /\ cur'[f].hash = cur[f].hash
             /\ cur'[f].artifact = Indexed(cur[f].hash) /\ text' = WithText(cur[f].hash)
    BY <2>3, SearchAssumption DEF Repaired, Dangling, Live, Indexed, WithText
  <2> QED
    BY <1>1, <2>2, <2>3 DEF VersionMoves
<1> QED
  BY <1>2, <1>3

(* What reindex has done, has in hand or has to do covers its listing.      *)
LEMMA ReindexStep ==
    ASSUME SearchTyped, ArtifactsTrue, Reindexing, Next
    PROVE  Reindexing'
<1>1. /\ UNCHANGED native /\ native \in BOOLEAN
      /\ \A f \in Files : VersionMoves(f)
      /\ \A f \in Files : cur[f].number \in Nat
  BY StepMoves, VersionsTyped DEF SearchTyped, StoreTyped
<1>2. untouched' = IF indexing.begun THEN {f \in untouched : cur'[f].number = cur[f].number}
                   ELSE indexing'.todo
  BY DEF Next, Watch
<1>3. \/ UNCHANGED indexing
      \/ StartReindex \/ StoreIndex
      \/ \E f \in Files : ReadForIndex(f)
  BY SearchLeavesStore DEF Next, StoreStep, Write, Delete, ReadSource, CarryOver, Sweep
<1>4. untouched \subseteq Files /\ \A f \in untouched : Live(f)
  BY DEF SearchTyped, Reindexing
<1>5. ~indexing'.begun => indexing'.todo = {} /\ indexing'.entry = NoEntry /\ untouched' = {}
  BY <1>2, <1>3 DEF SearchTyped, StoreTyped, Reindexing, StartReindex, StoreIndex, ReadForIndex
<1>6. \A f \in untouched' : (Live(f))'
  <2>1. CASE indexing.begun
    <3>1. \A f \in untouched' : /\ f \in Files /\ Live(f) /\ cur'[f].number = cur[f].number
      BY <1>2, <1>4, <2>1
    <3>2. \A f \in Files : cur'[f].number = cur[f].number => cur'[f].dead = cur[f].dead
      BY <1>1 DEF VersionMoves
    <3> QED
      BY <3>1, <3>2 DEF Live
  <2>2. CASE ~indexing.begun
    BY <1>2, <1>3, <2>2 DEF SearchTyped, StoreTyped, Reindexing, StartReindex, StoreIndex,
       ReadForIndex, storeVars, Live
  <2> QED
    BY <2>1, <2>2
<1>7. ASSUME native', indexing'.begun, NEW f \in untouched'
      PROVE  \/ f \in indexing'.todo
             \/ /\ indexing'.entry # NoEntry /\ indexing'.entry.path = f
                /\ indexing'.entry.number = cur'[f].number
             \/ Repaired(f)'
  <2>1. CASE ~indexing.begun
    BY <1>2, <2>1
  <2>2. CASE indexing.begun
    <3>1. f \in untouched /\ f \in Files /\ Live(f) /\ cur'[f].number = cur[f].number /\ native
      BY <1>1, <1>2, <1>4, <1>7, <2>2
    <3>2. Repaired(f) => Repaired(f)'
      BY <3>1, RepairStays
    <3>3. \/ f \in indexing.todo
          \/ /\ indexing.entry # NoEntry /\ indexing.entry.path = f
             /\ indexing.entry.number = cur[f].number
          \/ Repaired(f)
      BY <2>2, <3>1 DEF Reindexing
    <3>4. CASE UNCHANGED indexing
      BY <3>1, <3>2, <3>3, <3>4
    <3>5. CASE StoreIndex
      <4>1. indexing'.todo = indexing.todo
        BY <3>5 DEF StoreIndex, SearchTyped, StoreTyped
      <4>2. CASE indexing.entry # NoEntry /\ indexing.entry.path = f
                 /\ indexing.entry.number = cur[f].number
        <5>1. indexing.entry.hash = cur[f].hash
          BY <4>2 DEF Reindexing, Behind
        <5>2. cur'[f].artifact = Indexed(cur[f].hash) /\ text' = WithText(cur[f].hash)
              /\ cur'[f].hash = cur[f].hash
          BY <3>1, <3>5, <4>2, <5>1 DEF StoreIndex, SearchTyped, StoreTyped, File
        <5> QED
          BY <3>1, <5>2, SearchAssumption DEF Repaired, Dangling, Indexed, WithText
      <4> QED
        BY <3>2, <3>3, <4>1, <4>2
    <3>6. CASE \E g \in Files : ReadForIndex(g)
      <4>1. PICK g \in Files : ReadForIndex(g)
        BY <3>6
      <4>2. /\ indexing'.todo = indexing.todo \ {g} /\ indexing.entry = NoEntry /\ cur' = cur
            /\ Live(g) /\ native => indexing'.entry = EntryOf(g)
        BY <4>1 DEF ReadForIndex, SearchTyped, StoreTyped, storeVars
      <4>3. CASE f = g
        BY <1>1, <3>1, <4>2, <4>3 DEF EntryOf, NoEntry, Live
      <4> QED
        BY <3>2, <3>3, <4>2, <4>3
    <3> QED
      BY <1>3, <2>2, <3>4, <3>5, <3>6 DEF StartReindex
  <2> QED
    BY <2>1, <2>2
<1>8. indexing'.entry # NoEntry => native' /\ Behind(indexing.entry)'
  BY EntryStep
<1> QED
  BY <1>5, <1>6, <1>7, <1>8 DEF Reindexing

----------------------------------------------------------------------------
(* What the histories of a search record.                                   *)
LEMMA Watching ==
    ASSUME SearchTyped, Next, NEW s \in Searchers
    PROVE  /\ seen[s].readable \subseteq seen'[s].readable /\ seen[s].live \subseteq seen'[s].live
           /\ seen[s].matching \subseteq seen'[s].matching
           /\ seen[s].dangling \subseteq seen'[s].dangling
           /\ sc'[s] # "idle" /\ ~Ended(s) =>
                /\ Readable(s)' \subseteq seen'[s].readable
                /\ {f \in InScope(s)' : Live(f)'} \subseteq seen'[s].live
                /\ {f \in InScope(s)' : Live(f)' /\ cur'[f].hash \in MatchingHashes}
                       \subseteq seen'[s].matching
                /\ {f \in InScope(s)' : Dangling(f)'} \subseteq seen'[s].dangling
           /\ sc[s] = "idle" =>
                steady'[s] = IF sc'[s] = "idle" THEN {} ELSE Eligible(s)'
           /\ Ended(s) => steady'[s] = steady[s] /\ seen'[s] = seen[s]
           /\ sc[s] # "idle" /\ ~Ended(s) =>
                steady'[s] = {f \in steady[s] \cap Eligible(s)' : cur'[f].number = cur[f].number}
<1> DEFINE now == [readable |-> seen[s].readable \cup Readable(s)',
                   live     |-> seen[s].live \cup {f \in InScope(s)' : Live(f)'},
                   matching |-> seen[s].matching
                       \cup {f \in InScope(s)' : Live(f)' /\ cur'[f].hash \in MatchingHashes},
                   dangling |-> seen[s].dangling \cup {f \in InScope(s)' : Dangling(f)'}]
<1>1. seen'[s] = IF sc'[s] = "idle" \/ Ended(s) THEN seen[s] ELSE now
  BY DEF Next, Watch
<1>2. steady'[s] = IF sc[s] = "idle" THEN (IF sc'[s] = "idle" THEN {} ELSE Eligible(s)')
                   ELSE IF Ended(s) THEN steady[s]
                   ELSE {f \in steady[s] \cap Eligible(s)' : cur'[f].number = cur[f].number}
  BY DEF Next, Watch
<1>3. /\ now.readable = seen[s].readable \cup Readable(s)'
      /\ now.live = seen[s].live \cup {f \in InScope(s)' : Live(f)'}
      /\ now.matching = seen[s].matching
             \cup {f \in InScope(s)' : Live(f)' /\ cur'[f].hash \in MatchingHashes}
      /\ now.dangling = seen[s].dangling \cup {f \in InScope(s)' : Dangling(f)'}
  OBVIOUS
<1> HIDE DEF now
<1>4. CASE sc'[s] = "idle" \/ Ended(s)
  <2>1. seen'[s] = seen[s]
    BY <1>1, <1>4
  <2> QED
    BY <1>2, <1>4, <2>1 DEF Ended
<1>5. CASE ~(sc'[s] = "idle" \/ Ended(s))
  <2>1. seen'[s] = now
    BY <1>1, <1>5
  <2>2. /\ seen'[s].readable = seen[s].readable \cup Readable(s)'
        /\ seen'[s].live = seen[s].live \cup {f \in InScope(s)' : Live(f)'}
        /\ seen'[s].matching = seen[s].matching
               \cup {f \in InScope(s)' : Live(f)' /\ cur'[f].hash \in MatchingHashes}
        /\ seen'[s].dangling = seen[s].dangling \cup {f \in InScope(s)' : Dangling(f)'}
    BY <1>3, <2>1
  <2> QED
    BY <1>2, <1>5, <2>2
<1> QED
  BY <1>4, <1>5

(* A search goes forward, and its query stays once it has begun.            *)
LEMMA SearchGoesOn ==
    ASSUME SearchTyped, Next, NEW s \in Searchers
    PROVE  /\ sc[s] # "idle" => query'[s] = query[s] /\ sc'[s] # "idle"
           /\ Ended(s) => KeepsLocals(s)
<1>1. CASE KeepsLocals(s)
  BY <1>1 DEF KeepsLocals
<1>2. CASE SearchStep(s)
  BY <1>2 DEF SearchStep, ListDir, Prune, Enumerate, EndPrune, ByMetadata, Refuse, ByIndex,
     StartReading, EndReading, FailReading, ReadContent, Finish, SearchTyped, Ended
<1> QED
  BY <1>1, <1>2, OwnOrOther

(* The locals of a search keep their types.                                 *)
LEMMA SearchersTyped ==
    ASSUME SearchTyped, ArtifactsTrue, Reindexing, Next
    PROVE  SearchTyped'
<1>1. (StoreTyped)'
  BY EntryStep
<1>2. \A f \in Files : EntryOf(f) \in Entry
  BY VersionsTyped
<1>3. untouched' \subseteq Files
  BY <1>1 DEF Next, Watch, SearchTyped, StoreTyped
<1>4. \A s \in Searchers : Eligible(s)' \subseteq Files
  BY DEF Eligible, Readable, InScope
<1>5. steady' \in [Searchers -> SUBSET Files]
  <2>1. \A s \in Searchers : steady'[s] \subseteq Files
    BY <1>4, Watching DEF SearchTyped
  <2>2. steady' = [s \in Searchers |-> steady'[s]]
    BY DEF Next, Watch
  <2> QED
    BY <2>1, <2>2
<1>6. CASE UNCHANGED searchVars
  BY <1>1, <1>3, <1>5, <1>6 DEF SearchTyped, searchVars
<1>7. CASE \E s \in Searchers : SearchStep(s)
  <2>1. PICK s \in Searchers : SearchStep(s)
    BY <1>7
  <2> DEFINE Locals == /\ sc \in [Searchers -> {"idle", "prune", "enumerate", "read", "done", "refused"}]
                       /\ query \in [Searchers -> Query]
                       /\ todo \in [Searchers -> SUBSET Files]
                       /\ kept \in [Searchers -> SUBSET Files]
                       /\ entries \in [Searchers -> SUBSET Entry]
                       /\ results \in [Searchers -> SUBSET Files]
  <2> SUFFICES Locals'
    BY <1>1, <1>3, <1>5 DEF SearchTyped
  <2>2. Locals
    BY DEF SearchTyped
  <2>3. \A e \in entries[s] : e \in Entry /\ e.path \in Files
    BY <2>2 DEF Entry
  <2>4. {e.path : e \in entries[s]} \subseteq Files /\ {e.path : e \in Hits(s)} \subseteq Files
    BY <2>3 DEF Hits
  <2>5. CASE \E q \in Queries : ListDir(s, q)
    BY <2>2, <2>5, SearchAssumption DEF ListDir
  <2>6. CASE \E f \in Files : Prune(s, f)
    BY <2>2, <2>6 DEF Prune
  <2>7. CASE \E f \in Files : Enumerate(s, f)
    BY <1>2, <2>2, <2>7 DEF Enumerate
  <2>8. CASE EndPrune(s)
    BY <2>2, <2>8 DEF EndPrune
  <2>9. CASE ByMetadata(s) \/ Refuse(s) \/ ByIndex(s) \/ EndReading(s) \/ FailReading(s)
    BY <2>2, <2>4, <2>9 DEF ByMetadata, Refuse, ByIndex, EndReading, FailReading, Finish
  <2>10. CASE StartReading(s)
    BY <2>2, <2>4, <2>10 DEF StartReading
  <2>11. CASE \E e \in entries[s] : ReadContent(s, e)
    BY <2>2, <2>3, <2>11 DEF ReadContent
  <2> QED
    BY <2>1, <2>5, <2>6, <2>7, <2>8, <2>9, <2>10, <2>11 DEF SearchStep
<1> QED
  BY <1>6, <1>7 DEF Next, StoreStep, Write, Delete, ReadSource, CarryOver, Sweep, StartReindex,
     ReadForIndex, StoreIndex

----------------------------------------------------------------------------
(* What a search has seen.                                                  *)

(* What others do takes nothing from it.                                    *)
LEMMA VisibleBeside ==
    ASSUME SearchTyped, Next, UNCHANGED native, NEW s \in Searchers, Visible(s), KeepsLocals(s)
    PROVE  Visible(s)'
<1>1. /\ sc'[s] = sc[s] /\ query'[s] = query[s] /\ todo'[s] = todo[s] /\ kept'[s] = kept[s]
      /\ entries'[s] = entries[s] /\ results'[s] = results[s]
  BY DEF KeepsLocals
<1>2. InScope(s)' = InScope(s)
  BY <1>1 DEF InScope
<1>3. /\ seen[s].readable \subseteq seen'[s].readable /\ seen[s].live \subseteq seen'[s].live
      /\ seen[s].matching \subseteq seen'[s].matching
  BY Watching
<1> QED
  BY <1>1, <1>2, <1>3 DEF Visible

(* Each of its own steps adds only what it sees.                            *)
LEMMA VisibleStep ==
    ASSUME SearchTyped, Next, UNCHANGED native, NEW s \in Searchers, Visible(s), SearchStep(s)
    PROVE  Visible(s)'
<1>1. UNCHANGED <<accessVars, storeVars, copying, indexing>>
  BY SearchLeavesStore
<1>2. /\ seen[s].readable \subseteq seen'[s].readable /\ seen[s].live \subseteq seen'[s].live
      /\ seen[s].matching \subseteq seen'[s].matching
  BY Watching
<1>3. ASSUME sc'[s] # "idle", ~Ended(s)
      PROVE  /\ Readable(s)' \subseteq seen'[s].readable
             /\ {f \in InScope(s)' : Live(f)} \subseteq seen'[s].live
             /\ {f \in InScope(s)' : Live(f) /\ cur[f].hash \in MatchingHashes}
                    \subseteq seen'[s].matching
  <2>1. cur' = cur /\ \A f : Live(f)' = Live(f)
    BY <1>1 DEF storeVars, Live
  <2> QED
    BY <1>3, <2>1, Watching
<1>4. CASE \E q \in Queries : ListDir(s, q)
  <2>1. PICK q \in Queries : ListDir(s, q)
    BY <1>4
  <2>2. /\ sc[s] = "idle" /\ sc'[s] = "prune" /\ query'[s] = q
        /\ todo'[s] = {f \in Files : IsPrefix(q.scope, f) /\ Live(f)}
        /\ kept' = kept /\ entries' = entries /\ results' = results
    BY <2>1 DEF ListDir, SearchTyped
  <2>3. todo'[s] = {f \in InScope(s)' : Live(f)}
    BY <2>2 DEF InScope
  <2>4. todo'[s] \subseteq InScope(s)' \cap seen'[s].live
    BY <1>3, <2>2, <2>3 DEF Ended
  <2> QED
    BY <2>2, <2>4 DEF Visible
<1> HIDE DEF Ended
<1>5. ASSUME sc[s] # "idle"
      PROVE  query'[s] = query[s] /\ InScope(s)' = InScope(s) /\ Readable(s)' = Readable(s)
  <2>1. query'[s] = query[s]
    BY <1>5, SearchGoesOn
  <2>2. InScope(s)' = InScope(s)
    BY <2>1 DEF InScope
  <2>3. perms' = perms
    BY <1>1 DEF accessVars, grantVars
  <2>4. \A f : CheckPermission(query[s].who, f, "read")' <=> CheckPermission(query[s].who, f, "read")
    BY <2>1, <2>3 DEF CheckPermission, Matching
  <2> QED
    BY <2>1, <2>2, <2>4 DEF Readable
<1>6. CASE \E f \in Files : Prune(s, f)
  <2>1. PICK f \in Files : Prune(s, f)
    BY <1>6
  <2>2. /\ sc[s] = "prune" /\ sc' = sc /\ f \in todo[s] /\ todo'[s] = todo[s] \ {f}
        /\ kept'[s] = IF CheckPermission(query[s].who, f, "read") THEN kept[s] \cup {f} ELSE kept[s]
        /\ entries' = entries /\ results' = results
    BY <2>1 DEF Prune, SearchTyped
  <2>3. f \in InScope(s) \cap seen[s].live
    BY <2>2 DEF Visible
  <2>4. CheckPermission(query[s].who, f, "read") => f \in seen'[s].readable
    BY <1>3, <1>5, <2>2, <2>3 DEF Readable, Ended
  <2> QED
    BY <1>2, <1>5, <2>2, <2>3, <2>4 DEF Visible
<1>7. CASE EndPrune(s)
  <2>1. /\ sc[s] = "prune" /\ kept' = kept /\ entries' = entries
        /\ \/ /\ query[s].kind = "list" /\ sc'[s] = "done" /\ results'[s] = kept[s]
           \/ sc'[s] = "enumerate" /\ todo'[s] = kept[s] /\ results' = results
    BY <1>7 DEF EndPrune, SearchTyped
  <2> QED
    BY <1>2, <1>5, <2>1 DEF Visible
<1>8. CASE \E f \in Files : Enumerate(s, f)
  <2>1. PICK f \in Files : Enumerate(s, f)
    BY <1>8
  <2>2. /\ sc[s] = "enumerate" /\ sc' = sc /\ f \in todo[s] /\ todo'[s] = todo[s] \ {f}
        /\ entries'[s] = IF Live(f) THEN entries[s] \cup {EntryOf(f)} ELSE entries[s]
        /\ kept' = kept /\ results' = results
    BY <2>1 DEF Enumerate, SearchTyped
  <2>3. f \in kept[s] /\ f \in InScope(s)
    BY <2>2 DEF Visible
  <2>4. Live(f) /\ cur[f].hash \in MatchingHashes => f \in seen'[s].matching
    BY <1>3, <1>5, <2>2, <2>3 DEF Ended
  <2>5. EntryOf(f).path = f /\ EntryOf(f).hash = cur[f].hash
    BY DEF EntryOf
  <2>6. \A e \in entries'[s] : /\ e.path \in kept[s]
                               /\ e.hash \in MatchingHashes => e.path \in seen'[s].matching
    BY <1>2, <2>2, <2>3, <2>4, <2>5 DEF Visible
  <2> QED
    BY <1>2, <1>5, <2>2, <2>6 DEF Visible
<1>9. CASE ByMetadata(s) \/ Refuse(s) \/ ByIndex(s) \/ EndReading(s) \/ FailReading(s)
  <2>1. /\ sc[s] \in {"enumerate", "read"} /\ sc'[s] \in {"done", "refused"}
        /\ kept' = kept /\ entries' = entries
        /\ \/ results'[s] = {} \/ results'[s] = results[s]
           \/ query[s].kind = "find" /\ results'[s] = {e.path : e \in entries[s]}
           \/ results'[s] = {e.path : e \in Hits(s)}
    BY <1>9 DEF ByMetadata, Refuse, ByIndex, EndReading, FailReading, Finish, SearchTyped
  <2>2. results'[s] \subseteq seen[s].readable \cap seen[s].live
    BY <2>1 DEF Visible, Hits
  <2>3. query[s].kind \in {"regex", "fulltext"} => results'[s] \subseteq seen[s].matching
    BY <2>1 DEF Visible, Hits
  <2> QED
    BY <1>2, <1>5, <2>1, <2>2, <2>3 DEF Visible
<1>10. CASE StartReading(s)
  <2>1. /\ sc[s] = "enumerate" /\ sc'[s] = "read" /\ kept' = kept /\ entries' = entries
        /\ results' = results /\ query[s].kind = "regex" /\ ~native
    BY <1>10 DEF StartReading, SearchTyped
  <2> QED
    BY <1>2, <1>5, <2>1 DEF Visible
<1>11. CASE \E e \in entries[s] : ReadContent(s, e)
  <2>1. PICK e \in entries[s] : ReadContent(s, e)
    BY <1>11
  <2>2. /\ sc[s] = "read" /\ sc' = sc /\ kept' = kept /\ entries' = entries
        /\ results'[s] = IF e.hash \in MatchingHashes THEN results[s] \cup {e.path} ELSE results[s]
    BY <2>1 DEF ReadContent, SearchTyped
  <2> QED
    BY <1>2, <1>5, <2>2 DEF Visible
<1> QED
  BY <1>4, <1>6, <1>7, <1>8, <1>9, <1>10, <1>11 DEF SearchStep

----------------------------------------------------------------------------
(* What a search has not left out.                                          *)

(* The file of an entry that is steady is still of that content, and what   *)
(* was indexed is.                                                          *)
LEMMA StillThereStays ==
    ASSUME SearchTyped, ArtifactsTrue, Reindexing, Next, NEW s \in Searchers, NEW e \in Entry,
           sc[s] # "idle", ~Ended(s), StillThere(s, e)
    PROVE  StillThere(s, e)'
<1> SUFFICES ASSUME e.path \in steady'[s]
             PROVE  /\ e.number = cur'[e.path].number /\ e.hash = cur'[e.path].hash
                    /\ native' /\ e.artifact = "ready" => cur'[e.path].artifact = "ready"
  BY DEF StillThere
<1> DEFINE f == e.path
<1>1. f \in Files /\ native' = native /\ VersionMoves(f)
  BY StepMoves DEF Entry
<1>2. f \in steady[s] /\ f \in Eligible(s)' /\ cur'[f].number = cur[f].number
  BY Watching
<1>3. cur[f].number \in Nat
  BY <1>1, VersionsTyped
<1>4. cur'[f].hash = cur[f].hash
  BY <1>1, <1>2, <1>3 DEF VersionMoves
<1>5. cur'[f].artifact = cur[f].artifact \/ cur'[f].artifact = Indexed(cur[f].hash)
  BY <1>1, <1>2, <1>3 DEF VersionMoves
<1>6. cur[f].hash \notin BinaryHashes
  BY <1>2, <1>4, SearchAssumption DEF Eligible
<1> QED
  BY <1>1, <1>2, <1>4, <1>5, <1>6 DEF StillThere, Indexed

(* What others do may only make files unsteady.                             *)
LEMMA CompleteBeside ==
    ASSUME SearchTyped, ArtifactsTrue, Reindexing, Next, NEW s \in Searchers, Complete(s),
           KeepsLocals(s)
    PROVE  Complete(s)'
<1>1. /\ sc'[s] = sc[s] /\ query'[s] = query[s] /\ todo'[s] = todo[s] /\ kept'[s] = kept[s]
      /\ entries'[s] = entries[s] /\ results'[s] = results[s]
  BY DEF KeepsLocals
<1>2. /\ InScope(s)' = InScope(s)
      /\ Ended(s)' = Ended(s)
  BY <1>1 DEF InScope, Ended
<1>3. \A e \in entries[s] : e \in Entry
  BY DEF SearchTyped
<1>4. CASE sc[s] = "idle"
  BY <1>1, <1>4, Watching DEF Complete, StillThere
<1>5. CASE Ended(s)
  <2>1. steady'[s] = steady[s] /\ seen'[s] = seen[s]
    BY <1>5, Watching
  <2>2. sc[s] \notin {"idle", "prune", "enumerate", "read"}
    BY <1>5 DEF Ended
  <2>3. \A e \in entries[s] : Truthful(e)' = Truthful(e)
    BY DEF Truthful
  <2> QED
    BY <1>1, <1>2, <1>5, <2>1, <2>2, <2>3 DEF Complete
<1>6. CASE sc[s] # "idle" /\ ~Ended(s)
  <2>1. /\ steady'[s] \subseteq steady[s] /\ steady'[s] \subseteq Eligible(s)'
        /\ {f \in InScope(s)' : Dangling(f)'} \subseteq seen'[s].dangling
    BY <1>1, <1>6, Watching
  <2>2. \A e \in entries[s] : StillThere(s, e)'
    BY <1>3, <1>6, StillThereStays DEF Complete
  <2>3. \A e \in entries[s] : Truthful(e)' = Truthful(e)
    BY DEF Truthful
  <2> QED
    BY <1>1, <1>2, <1>6, <2>1, <2>2, <2>3 DEF Complete, Ended
<1> QED
  BY <1>4, <1>5, <1>6

(* Each of its own steps passes its steady files on.                        *)
LEMMA CompleteStep ==
    ASSUME SearchTyped, ArtifactsTrue, Reindexing, Next, NEW s \in Searchers, Complete(s),
           Visible(s), SearchStep(s)
    PROVE  Complete(s)'
<1>1. UNCHANGED <<accessVars, storeVars, copying, indexing>>
  BY SearchLeavesStore
<1>2. cur' = cur /\ text' = text /\ native' = native /\ perms' = perms
  BY <1>1 DEF storeVars, accessVars, grantVars
<1>3. /\ \A f : Live(f)' = Live(f)
      /\ \A f : Dangling(f)' = Dangling(f)
      /\ \A e : Truthful(e)' = Truthful(e)
  BY <1>2 DEF Live, Dangling, Truthful
<1>4. sc[s] # "done" /\ sc[s] # "refused" /\ ~Ended(s)
  BY DEF SearchStep, ListDir, Prune, Enumerate, EndPrune, ByMetadata, Refuse, ByIndex,
     StartReading, EndReading, FailReading, ReadContent, Ended
<1>5. \A e \in entries[s] : e \in Entry /\ e.path \in Files
  BY DEF SearchTyped, Entry
<1>6. CASE \E q \in Queries : ListDir(s, q)
  <2>1. PICK q \in Queries : ListDir(s, q)
    BY <1>6
  <2>2. /\ sc[s] = "idle" /\ sc'[s] = "prune" /\ query'[s] = q
        /\ todo'[s] = {f \in Files : IsPrefix(q.scope, f) /\ Live(f)}
        /\ kept' = kept /\ entries' = entries /\ results' = results
    BY <2>1 DEF ListDir, SearchTyped
  <2>3. todo'[s] = {f \in InScope(s)' : Live(f)'}
    BY <1>3, <2>2 DEF InScope
  <2>4. /\ steady'[s] = Eligible(s)'
        /\ {f \in InScope(s)' : Dangling(f)'} \subseteq seen'[s].dangling
    BY <1>4, <2>2, Watching
  <2>5. Eligible(s)' \subseteq todo'[s]
    BY <2>3 DEF Eligible, Readable
  <2>6. entries'[s] = {}
    BY <2>2 DEF Visible
  <2> QED
    BY <2>2, <2>4, <2>5, <2>6 DEF Complete
<1>7. ASSUME sc[s] # "idle"
      PROVE  /\ query'[s] = query[s] /\ InScope(s)' = InScope(s) /\ Readable(s)' = Readable(s)
             /\ Eligible(s)' = Eligible(s)
             /\ steady'[s] = steady[s] /\ steady[s] \subseteq Eligible(s)
             /\ seen[s].dangling \subseteq seen'[s].dangling
             /\ {f \in InScope(s) : Dangling(f)} \subseteq seen'[s].dangling
             /\ \A e \in entries[s] : StillThere(s, e)'
  <2>1. query'[s] = query[s] /\ sc'[s] # "idle"
    BY <1>7, SearchGoesOn
  <2>2. InScope(s)' = InScope(s)
    BY <2>1 DEF InScope
  <2>3. \A f : CheckPermission(query[s].who, f, "read")' <=> CheckPermission(query[s].who, f, "read")
    BY <1>2, <2>1 DEF CheckPermission, Matching
  <2>4. Readable(s)' = Readable(s)
    BY <2>1, <2>2, <2>3 DEF Readable
  <2>5. Eligible(s)' = Eligible(s)
    BY <1>2, <1>3, <2>4 DEF Eligible
  <2>6. steady[s] \subseteq Eligible(s) /\ \A e \in entries[s] : StillThere(s, e)
    BY <1>4 DEF Complete
  <2>7. steady'[s] = steady[s]
    <3>1. steady'[s] = {f \in steady[s] \cap Eligible(s)' : cur'[f].number = cur[f].number}
      BY <1>4, <1>7, Watching
    <3>2. \A f \in steady[s] : f \in Eligible(s)' /\ cur'[f].number = cur[f].number
      BY <1>2, <2>5, <2>6
    <3> QED
      BY <3>1, <3>2
  <2>8. \A e \in entries[s] : StillThere(s, e)'
    BY <1>2, <2>6, <2>7 DEF StillThere
  <2>9. /\ seen[s].dangling \subseteq seen'[s].dangling
        /\ {f \in InScope(s)' : Dangling(f)'} \subseteq seen'[s].dangling
    BY <1>4, <2>1, Watching
  <2> QED
    BY <1>3, <2>1, <2>2, <2>4, <2>5, <2>6, <2>7, <2>8, <2>9
<1>8. CASE \E f \in Files : Prune(s, f)
  <2>1. PICK f \in Files : Prune(s, f)
    BY <1>8
  <2>2. /\ sc[s] = "prune" /\ sc' = sc /\ f \in todo[s] /\ todo'[s] = todo[s] \ {f}
        /\ kept'[s] = IF CheckPermission(query[s].who, f, "read") THEN kept[s] \cup {f} ELSE kept[s]
        /\ entries' = entries /\ results' = results
    BY <2>1 DEF Prune, SearchTyped
  <2>3. f \in steady[s] => CheckPermission(query[s].who, f, "read")
    BY <1>7, <2>2 DEF Eligible, Readable
  <2>4. steady'[s] \subseteq todo'[s] \cup kept'[s]
    BY <1>7, <2>2, <2>3 DEF Complete
  <2> QED
    BY <1>3, <1>7, <2>2, <2>4 DEF Complete, Ended
<1>9. CASE EndPrune(s)
  <2>1. /\ sc[s] = "prune" /\ todo[s] = {} /\ kept' = kept /\ entries' = entries
        /\ \/ /\ query[s].kind = "list" /\ sc'[s] = "done" /\ results'[s] = kept[s]
           \/ sc'[s] = "enumerate" /\ todo'[s] = kept[s] /\ results' = results
    BY <1>9 DEF EndPrune, SearchTyped
  <2>2. entries[s] = {} /\ steady[s] \subseteq kept[s]
    BY <2>1 DEF Complete, Visible
  <2> QED
    BY <1>3, <1>7, <2>1, <2>2 DEF Complete, Ended
<1>10. CASE \E f \in Files : Enumerate(s, f)
  <2>1. PICK f \in Files : Enumerate(s, f)
    BY <1>10
  <2>2. /\ sc[s] = "enumerate" /\ sc' = sc /\ f \in todo[s] /\ todo'[s] = todo[s] \ {f}
        /\ entries'[s] = IF Live(f) THEN entries[s] \cup {EntryOf(f)} ELSE entries[s]
        /\ kept' = kept /\ results' = results
    BY <2>1 DEF Enumerate, SearchTyped
  <2>3. PICK new : new = EntryOf(f)
    OBVIOUS
  <2>4. f \in steady[s] => Live(f)
    BY <1>7, <2>2 DEF Eligible
  <2>5. \A e \in entries[s] : e.path # f
    BY <2>2 DEF Complete
  <2>6. /\ new.path = f /\ Truthful(new) /\ StillThere(s, new)'
        /\ entries'[s] = IF Live(f) THEN entries[s] \cup {new} ELSE entries[s]
    BY <1>2, <2>2, <2>3 DEF EntryOf, Truthful, ArtifactsTrue, StillThere
  <2>7. /\ \A g \in steady'[s] : g \in todo'[s] \/ \E e \in entries'[s] : e.path = g
        /\ \A e \in entries'[s] : e.path \notin todo'[s]
        /\ \A e, d \in entries'[s] : e.path = d.path => e = d
    BY <1>7, <2>2, <2>4, <2>5, <2>6 DEF Complete
  <2>8. \A e \in entries'[s] : Truthful(e) /\ StillThere(s, e)'
    BY <1>7, <2>2, <2>6 DEF Complete
  <2> QED
    BY <1>3, <1>7, <2>2, <2>7, <2>8 DEF Complete, Ended
<1>11. CASE ByIndex(s)
  <2>1. /\ sc[s] = "enumerate" /\ todo[s] = {} /\ sc'[s] = "done" /\ entries' = entries
        /\ native /\ \A e \in entries[s] : e.artifact # NoText
        /\ results'[s] = {e.path : e \in Hits(s)}
    BY <1>11 DEF ByIndex, Finish, SearchTyped, Stragglers
  <2>2. ASSUME NEW f \in steady[s]
        PROVE  f \in results'[s] \/ f \in seen'[s].dangling
    <3>1. PICK e \in entries[s] : e.path = f
      BY <2>1 DEF Complete
    <3>2. f \in Eligible(s) /\ StillThere(s, e) /\ Truthful(e)
      BY <1>4, <1>7, <2>1 DEF Complete
    <3>3. cur[f].hash = e.hash /\ e.hash \in MatchingHashes /\ Live(f) /\ f \in InScope(s)
      BY <3>1, <3>2 DEF StillThere, Eligible, Readable
    <3>4. e.artifact = "ready"
      BY <1>5, <2>1, <3>2, <3>3, SearchAssumption DEF Truthful, Entry, Artifacts
    <3>5. cur[f].artifact = "ready"
      BY <2>1, <3>1, <3>2, <3>4 DEF StillThere
    <3>6. CASE e.hash \in text
      BY <2>1, <3>1, <3>3, <3>4, <3>6 DEF Hits
    <3>7. CASE e.hash \notin text
      BY <1>7, <2>1, <3>3, <3>5, <3>7 DEF Dangling
    <3> QED
      BY <3>6, <3>7
  <2> QED
    BY <1>3, <1>7, <2>1, <2>2 DEF Complete, Ended
<1>12. CASE ByMetadata(s) \/ Refuse(s) \/ FailReading(s)
  <2>1. CASE ByMetadata(s)
    <3>1. /\ sc[s] = "enumerate" /\ todo[s] = {} /\ sc'[s] = "done" /\ entries' = entries
          /\ results'[s] = {e.path : e \in entries[s]}
      BY <2>1 DEF ByMetadata, Finish, SearchTyped
    <3>2. steady[s] \subseteq results'[s]
      BY <3>1 DEF Complete
    <3> QED
      BY <1>3, <1>7, <3>1, <3>2 DEF Complete, Ended
  <2>2. CASE Refuse(s) \/ FailReading(s)
    <3>1. sc[s] # "idle" /\ sc'[s] = "refused" /\ entries' = entries
      BY <2>2 DEF Refuse, FailReading, Finish, SearchTyped
    <3> QED
      BY <1>3, <1>7, <3>1 DEF Complete, Ended
  <2> QED
    BY <1>12, <2>1, <2>2
<1>13. CASE StartReading(s)
  <2>1. /\ sc[s] = "enumerate" /\ todo[s] = {} /\ sc'[s] = "read" /\ entries' = entries
        /\ results' = results /\ todo'[s] = {e.path : e \in entries[s]}
    BY <1>13 DEF StartReading, SearchTyped
  <2>2. \A f \in steady[s] : (\E e \in entries[s] : e.path = f) /\ f \in todo'[s]
    BY <2>1 DEF Complete
  <2> QED
    BY <1>3, <1>7, <2>1, <2>2 DEF Complete, Ended
<1>14. CASE \E e \in entries[s] : ReadContent(s, e)
  <2>1. PICK e \in entries[s] : ReadContent(s, e)
    BY <1>14
  <2>2. /\ sc[s] = "read" /\ sc' = sc /\ entries' = entries /\ todo'[s] = todo[s] \ {e.path}
        /\ results'[s] = IF e.hash \in MatchingHashes THEN results[s] \cup {e.path} ELSE results[s]
    BY <2>1 DEF ReadContent, SearchTyped
  <2>3. e.path \in steady[s] => e.hash \in MatchingHashes
    BY <1>4, <1>7, <2>2 DEF Complete, StillThere, Eligible
  <2>4. \A f \in steady[s] : (\E d \in entries[s] : d.path = f) /\ f \in todo'[s] \cup results'[s]
    BY <2>2, <2>3 DEF Complete
  <2> QED
    BY <1>3, <1>7, <2>2, <2>4 DEF Complete, Ended
<1>15. CASE EndReading(s)
  <2>1. /\ sc[s] = "read" /\ todo[s] = {} /\ sc'[s] = "done" /\ entries' = entries
        /\ results'[s] = results[s]
    BY <1>15 DEF EndReading, Finish, SearchTyped
  <2>2. steady[s] \subseteq results[s]
    BY <2>1 DEF Complete
  <2> QED
    BY <1>3, <1>7, <2>1, <2>2 DEF Complete, Ended
<1> QED
  BY <1>6, <1>8, <1>9, <1>10, <1>11, <1>12, <1>13, <1>14, <1>15 DEF SearchStep

----------------------------------------------------------------------------
(* The invariant holds at the start and is kept by every step.              *)
LEMMA SearchInit == Init => SearchInv
<1> SUFFICES ASSUME Init PROVE SearchInv
  OBVIOUS
<1>1. cur \in [Files -> File] /\ \A f \in Files : Truthful(cur[f])
  BY SearchAssumption, ArtifactsAssumption DEF Init, Files, File, Artifacts, Truthful
<1>2. \A s \in Searchers : /\ sc[s] = "idle" /\ todo[s] = {} /\ kept[s] = {} /\ entries[s] = {}
                           /\ results[s] = {} /\ steady[s] = {}
  BY DEF Init
<1>3. \A s \in Searchers : Visible(s) /\ Complete(s)
  BY <1>2 DEF Visible, Complete, Ended
<1>4. Reindexing /\ ArtifactsTrue
  BY <1>1 DEF Init, Reindexing, ArtifactsTrue
<1>5. Searchers # {} => AnyQuery \in Query
  BY SearchAssumption DEF AnyQuery
<1>6. StoreTyped
  BY <1>1 DEF Init, StoreTyped
<1> QED
  BY <1>3, <1>4, <1>5, <1>6 DEF Init, SearchInv, SearchTyped

(* Every step of Next keeps it, and so does a stutter.                      *)
LEMMA SearchStepKeeps == SearchInv /\ [Next]_vars => SearchInv'
<1> SUFFICES ASSUME SearchInv, [Next]_vars PROVE SearchInv'
  OBVIOUS
<1>1. CASE Next
  <2>1. SearchTyped /\ ArtifactsTrue /\ Reindexing
    BY DEF SearchInv
  <2>2. SearchTyped' /\ Reindexing'
    BY <1>1, <2>1, SearchersTyped, ReindexStep
  <2>3. /\ UNCHANGED native
        /\ copying' = NoEntry \/ (copying' \in Entry /\ Truthful(copying'))
        /\ \A f \in Files : Truthful(cur[f])'
    BY <1>1, <2>1, StepMoves
  <2>4. ArtifactsTrue'
    BY <2>3 DEF ArtifactsTrue, Truthful
  <2>5. ASSUME NEW s \in Searchers PROVE (Visible(s) /\ Complete(s))'
    <3>1. Visible(s) /\ Complete(s)
      BY DEF SearchInv
    <3> QED
      BY <1>1, <2>1, <2>3, <3>1, OwnOrOther, VisibleBeside, VisibleStep, CompleteBeside,
         CompleteStep
  <2> QED
    BY <2>2, <2>4, <2>5 DEF SearchInv
<1>2. CASE UNCHANGED vars
  <2>1. /\ UNCHANGED <<storeVars, copying, indexing, searchVars, untouched, steady, seen, perms>>
    BY <1>2 DEF vars, accessVars, grantVars
  <2>2. SearchTyped' /\ ArtifactsTrue' /\ Reindexing'
    BY <2>1 DEF SearchInv, SearchTyped, StoreTyped, ArtifactsTrue, Reindexing, Truthful, Behind,
       Live, Repaired, Dangling, storeVars, searchVars
  <2>3. ASSUME NEW s \in Searchers PROVE (Visible(s) /\ Complete(s))'
    <3>1. Visible(s) /\ Complete(s)
      BY DEF SearchInv
    <3>2. /\ InScope(s)' = InScope(s)
          /\ \A f : /\ Live(f)' = Live(f) /\ Dangling(f)' = Dangling(f)
                    /\ CheckPermission(query[s].who, f, "read")' <=>
                       CheckPermission(query[s].who, f, "read")
      BY <2>1 DEF InScope, Live, Dangling, CheckPermission, Matching, storeVars, searchVars
    <3>3. Readable(s)' = Readable(s)
      BY <2>1, <3>2 DEF Readable
    <3>4. Eligible(s)' = Eligible(s)
      BY <2>1, <3>2, <3>3 DEF Eligible, storeVars
    <3>5. Visible(s)'
      BY <2>1, <3>1, <3>2 DEF Visible, storeVars, searchVars
    <3>6. \A e \in entries[s] : /\ StillThere(s, e)' <=> StillThere(s, e)
                                /\ Truthful(e)' <=> Truthful(e)
      BY <2>1 DEF StillThere, Truthful, storeVars
    <3>7. Complete(s)'
      BY <2>1, <3>1, <3>2, <3>4, <3>6 DEF Complete, Ended, storeVars, searchVars
    <3> QED
      BY <3>5, <3>7
  <2> QED
    BY <2>2, <2>3 DEF SearchInv
<1> QED
  BY <1>1, <1>2

(* The inductive invariant holds in every state, however the files, the     *)
(* permissions and the index change during the searches.                    *)
THEOREM SearchInvariance == Spec => []SearchInv
BY SearchInit, SearchStepKeeps, PTL DEF Spec

(* A path that list or search reports was readable by the caller, was a     *)
(* live file and, for the text kinds, had matching content, each at some    *)
(* moment of the call, though nothing is held between its store operations  *)
(* (vfs.py:810-905).                                                        *)
THEOREM ResultsAreVisible == Spec => []ResultsWereVisible
<1>1. SearchInv => ResultsWereVisible
  BY DEF SearchInv, Visible, ResultsWereVisible
<1> QED
  BY <1>1, SearchInvariance, PTL

(* A search that does not fail has found every file that was there,         *)
(* readable, matching and unwritten all along, but for files whose text was *)
(* swept under an artifact carried over (vfs.py:1093-1106,                  *)
(* reader.py:59-62).                                                        *)
THEOREM SearchesAreComplete == Spec => []CompleteOrRefused
<1>1. SearchInv => CompleteOrRefused
  BY DEF SearchInv, Complete, CompleteOrRefused
<1> QED
  BY <1>1, SearchInvariance, PTL

(* A reindex leaves no file of its listing that nobody wrote since without  *)
(* an artifact that tells the truth (vfs.py:1175-1224).                     *)
THEOREM ReindexingRepairs == Spec => []ReindexRepairs
<1>1. SearchInv => ReindexRepairs
  BY DEF SearchInv, Reindexing, Repaired, ReindexRepairs
<1> QED
  BY <1>1, SearchInvariance, PTL

(* Beside searches and a changing store, permissions behave as Access says: *)
(* whatever holds of it holds of the composition.                           *)
THEOREM SearchRefinesAccess == Spec => AccessSpec
<1>1. Init => AccessInit
  BY DEF Init
<1>2. [Next]_vars => [AccessNext]_accessVars
  BY SearchLeavesStore DEF Next, vars, StoreStep, Write, Delete, ReadSource, CarryOver, Sweep,
     StartReindex, ReadForIndex, StoreIndex
<1> QED
  BY <1>1, <1>2, PTL DEF Spec, AccessSpec
=============================================================================
