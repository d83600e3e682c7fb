------------------------------- MODULE Access -------------------------------
(* Who may do what in one namespace: the permission rows, how a check reads *)
(* them (check_permission), how they change (VFS.grant and                  *)
(* VFS.bootstrap_admin, each a check, a write and an audit event with an    *)
(* await between them), and how namespaces and principals get their names   *)
(* (VFS.create_namespace and VFS.create_principal).                         *)
(*                                                                          *)
(* A path is the sequence of its slashes and name fragments, <<"/", "w">>   *)
(* for "/w": a segment may have several fragments, so that one name can be  *)
(* the beginning of another, and Len and IsPrefix are those of the strings. *)
EXTENDS Naturals, FiniteSets, SequencesExt

CONSTANTS
    Principals,
    Paths,          \* the paths a check is asked about, the prefixes of rows included
    Slash,          \* the fragment "/"
    Clients,        \* concurrent callers of grant and bootstrap_admin
    Asks,           \* the changes they may ask for
    InitLog,        \* the changes made before the model starts
    MaxRows,        \* bound on the rows written
    Creators,       \* concurrent callers of create_namespace and create_principal
    DisplayNames,
    Transactional   \* transaction() is atomic (SQL) or a no-op (MongoDB)

Operations == {"read", "write", "delete", "execute", "admin"}
Root == <<Slash>>

Row == [who : Principals, prefix : Paths, ops : SUBSET Operations]
Ask == [kind : {"grant", "bootstrap"}, by : Principals, row : Row]

ASSUME AccessAssumption ==
    /\ Root \in Paths
    /\ \A p \in Paths : /\ p \in Seq({p[i] : i \in DOMAIN p})
                        /\ Len(p) > 0 /\ p[1] = Slash
    /\ Asks \subseteq Ask /\ Asks # {}
    /\ \A a \in Asks : a.kind = "bootstrap" =>
           a.row = [who |-> a.by, prefix |-> Root, ops |-> {"admin"}]
    /\ InitLog \in Seq(Ask)
    /\ MaxRows \in Nat
    /\ Transactional \in BOOLEAN

VARIABLES
    perms,      \* the rows of the permissions table, one for a principal and a prefix
    log,        \* history: the changes written to it, in order
    audited,    \* the positions of log that have an audit event
    pc,         \* what each client does next
    job,        \* the change it is making
    at,         \* the position of log it wrote
    names,      \* the names table, one name for an entity
    entities,   \* the namespaces and principals stored, under the name they carry
    making      \* how far each creator is

grantVars == <<perms, log, audited, pc, job, at>>
nameVars == <<names, entities, making>>
accessVars == <<grantVars, nameVars>>

----------------------------------------------------------------------------
(* Checking.                                                                *)

(* Mutant: a prefix covers whatever begins with its characters.             *)
BarePrefix(prefix) == prefix

DirForm(prefix) == IF Last(prefix) = Slash THEN prefix ELSE Append(prefix, Slash)

PrefixMatches(prefix, path) == path = prefix \/ IsPrefix(DirForm(prefix), path)

Matching(who, path) == {r \in perms : r.who = who /\ PrefixMatches(r.prefix, path)}

(* The longest matching prefix decides alone; no match refuses.             *)
CheckPermission(who, path, op) ==
    \E r \in Matching(who, path) :
        /\ \A s \in Matching(who, path) : Len(s.prefix) <= Len(r.prefix)
        /\ op \in r.ops

HasAnyAdmin == \E r \in perms : "admin" \in r.ops

----------------------------------------------------------------------------
SameKey(r, q) == r.who = q.who /\ r.prefix = q.prefix

(* Mutant: a plain insert, no conflict clause.                              *)
InsertRow(rows, row) == rows \cup {row}

Upsert(rows, row) ==
    {r \in rows : ~SameKey(r, row)} \cup {row}

(* What a sequence of changes leaves: the last row of each key.             *)
LastRows(changes) ==
    {changes[i].row : i \in {n \in DOMAIN changes : \A m \in DOMAIN changes :
                                 SameKey(changes[m].row, changes[n].row) => m <= n}}

(* One of the first n changes gave the author of a admin over its prefix.   *)
GivenAdmin(a, changes, n) ==
    \E j \in 1..n : /\ changes[j].row.who = a.by
                    /\ "admin" \in changes[j].row.ops
                    /\ PrefixMatches(changes[j].row.prefix, a.row.prefix)

Traced(changes) ==
    \A i \in DOMAIN changes :
        changes[i].kind = "grant" => GivenAdmin(changes[i], changes, i - 1)

ASSUME InitLogAssumption == Traced(InitLog)

(* The local variables of a call that is not running hold nothing.          *)
AnyAsk == CHOOSE a \in Asks : TRUE

AccessInit ==
    /\ perms = LastRows(InitLog)
    /\ log = InitLog
    /\ audited = DOMAIN InitLog
    /\ pc = [c \in Clients |-> "idle"]
    /\ job = [c \in Clients |-> AnyAsk]
    /\ at = [c \in Clients |-> 0]
    /\ names = {}
    /\ entities = {}
    /\ making = [c \in Creators |-> "new"]

(* Mutant: any administrator of the namespace may change any row.           *)
AdminSomewhere(a) == \E p \in Paths : CheckPermission(a.by, p, "admin")

Authorised(a) == CheckPermission(a.by, a.row.prefix, "admin")

(* A call that is refused leaves everything as it was.                      *)
Admit(c) ==
    /\ pc[c] = "idle"
    /\ \E a \in Asks :
        /\ IF a.kind = "grant" THEN Authorised(a) ELSE ~HasAnyAdmin
        /\ job' = [job EXCEPT ![c] = a]
    /\ pc' = [pc EXCEPT ![c] = "set"]
    /\ UNCHANGED <<perms, log, audited, at, nameVars>>

SetPermission(c) ==
    /\ pc[c] = "set"
    /\ Len(log) < MaxRows
    /\ perms' = Upsert(perms, job[c].row)
    /\ log' = Append(log, job[c])
    /\ at' = [at EXCEPT ![c] = Len(log) + 1]
    /\ pc' = [pc EXCEPT ![c] = "audit"]
    /\ UNCHANGED <<audited, job, nameVars>>

RecordChange(c) ==
    /\ pc[c] = "audit"
    /\ audited' = audited \cup {at[c]}
    /\ pc' = [pc EXCEPT ![c] = "idle"]
    /\ job' = [job EXCEPT ![c] = AnyAsk]
    /\ at' = [at EXCEPT ![c] = 0]
    /\ UNCHANGED <<perms, log, nameVars>>

----------------------------------------------------------------------------
(* Naming. An identifier is fresh, so each creator stands for its entity.   *)

(* Mutant: the name is looked for among the stored entities.                *)
NoEntityHas(n) == \A x \in entities : x.name # n

NameFree(n) == \A x \in names : x.name # n

(* set_name; on a transactional store the entity is committed with it.      *)
ClaimName(c, n) ==
    /\ making[c] = "new"
    /\ NameFree(n)
    /\ names' = names \cup {[id |-> c, name |-> n]}
    /\ entities' = IF Transactional THEN entities \cup {[id |-> c, name |-> n]} ELSE entities
    /\ making' = [making EXCEPT ![c] = IF Transactional THEN "made" ELSE "named"]
    /\ UNCHANGED grantVars

(* The unique constraint refuses a name another entity has.                 *)
RefuseName(c, n) ==
    /\ making[c] = "new"
    /\ ~NameFree(n)
    /\ making' = [making EXCEPT ![c] = "conflict"]
    /\ UNCHANGED <<grantVars, names, entities>>

PutEntity(c) ==
    /\ making[c] = "named"
    /\ entities' = entities \cup {x \in names : x.id = c}
    /\ making' = [making EXCEPT ![c] = "made"]
    /\ UNCHANGED <<grantVars, names>>

CrashCreator(c) ==
    /\ making[c] = "named"
    /\ making' = [making EXCEPT ![c] = "crashed"]
    /\ UNCHANGED <<grantVars, names, entities>>

----------------------------------------------------------------------------
AccessNext ==
    \/ \E c \in Clients : Admit(c) \/ SetPermission(c) \/ RecordChange(c)
    \/ \E c \in Creators : \/ PutEntity(c) \/ CrashCreator(c)
                           \/ \E n \in DisplayNames : ClaimName(c, n) \/ RefuseName(c, n)

AccessSpec == AccessInit /\ [][AccessNext]_accessVars

----------------------------------------------------------------------------
AccessTypeOK ==
    /\ perms \subseteq Row
    /\ \A r, q \in perms : SameKey(r, q) => r = q
    /\ log \in Seq(Ask)
    /\ audited \subseteq DOMAIN log
    /\ pc \in [Clients -> {"idle", "set", "audit"}]
    /\ job \in [Clients -> Asks]
    /\ at \in [Clients -> {0} \cup DOMAIN log]
    /\ names \subseteq [id : Creators, name : DisplayNames]
    /\ entities \subseteq [id : Creators, name : DisplayNames]
    /\ making \in [Creators -> {"new", "named", "made", "conflict", "crashed"}]

(* Every permission in the table goes back to the bootstrap: the table is   *)
(* what the changes made it, and a change made by grant was made by a       *)
(* principal who had been given admin, by an earlier change, on a prefix    *)
(* that covers the one it changes (vfs.py:1236-1247). However checks and    *)
(* writes of concurrent calls interleave, nobody's authority grows out of   *)
(* its subtree, and every change is audited or about to be.                 *)
AuthorityTraced ==
    /\ perms = LastRows(log)
    /\ Traced(log)
    /\ \A i \in DOMAIN log \ audited : \E c \in Clients : pc[c] = "audit" /\ at[c] = i

(* The check sorts the rows by the length of their prefixes and takes the   *)
(* first that matches (sql_metadata.py:404-409): it answers what the most   *)
(* specific row says, the one that no other matching row lies under, so a   *)
(* narrow row can withhold what a broad one gives and "/w" says nothing of  *)
(* "/ws".                                                                   *)
MostSpecificDecides ==
    \A who \in Principals, path \in Paths, op \in Operations :
        LET covers == {r \in perms : r.who = who /\ (path = r.prefix
                          \/ \E n \in 1..Len(path) :
                                /\ r.prefix \in {SubSeq(path, 1, n), SubSeq(path, 1, n - 1)}
                                /\ path[n] = Slash)}
            finest == {r \in covers : \A s \in covers : IsPrefix(s.prefix, r.prefix)}
        IN  CheckPermission(who, path, op) <=> \E r \in finest : op \in r.ops

(* Display names are unique and every stored entity owns the one it         *)
(* carries; a name without its entity belongs to a call in progress or to   *)
(* one that died on a store without transactions (vfs.py:1306-1312).        *)
EntityNamed ==
    /\ entities \subseteq names
    /\ \A x, y \in names : x.name = y.name => x = y
    /\ \A x \in names \ entities : ~Transactional /\ making[x.id] \in {"named", "crashed"}

=============================================================================
