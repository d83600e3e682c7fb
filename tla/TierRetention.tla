--------------------------- MODULE TierRetention ---------------------------
(***************************************************************************)
(* Age-tiered retention of one file: evaluate_tier_retention and the run   *)
(* that applies it (gc.py), beside writers and a clock.  Files are         *)
(* independent of each other here, so one is enough.  The policy that run  *)
(* builds leaves keep_first_version and keep_current_version at True.      *)
(***************************************************************************)
EXTENDS Integers, Sequences

CONSTANTS
    Tiers,           \* sequence of [maxAge, keepEvery]; keepEvery = 0 is None
    Lag,             \* bound: time between a writer's clock reading and its commit
    MaxTime,         \* bound on the clock
    MaxNumber,       \* bound on the versions written
    MaxRuns          \* bound on the collections

ASSUME TiersAssumption ==
    Tiers \in Seq([maxAge : Nat, keepEvery : Nat])

ASSUME BoundsAssumption ==
    Lag \in Nat /\ MaxTime \in Nat /\ MaxNumber \in Nat /\ MaxRuns \in Nat

Stored == [number : Nat, created : Nat, tombstone : BOOLEAN]

----------------------------------------------------------------------------
(* The evaluator, a function of a set of content versions and a time.      *)

(* min(..., key=(created_at, version_number))                              *)
Before(v, w) ==
    \/ v.created < w.created
    \/ v.created = w.created /\ v.number < w.number

Oldest(S) == {v \in S : \A w \in S : ~Before(w, v)}

(* max(..., key=version_number)                                            *)
Newest(S) == {v \in S : \A w \in S : w.number <= v.number}

Age(v, t) == t - v.created

BandFloor(i) == IF i = 1 THEN 0 ELSE Tiers[i - 1].maxAge

(* Mutant: the band is open at its younger end.                            *)
InBandOpen(v, i, t) == BandFloor(i) < Age(v, t) /\ Age(v, t) < Tiers[i].maxAge

InBand(v, i, t) == BandFloor(i) <= Age(v, t) /\ Age(v, t) < Tiers[i].maxAge

(* Windows are anchored at the collection's time; with keep_every=None     *)
(* every version is a window of its own.                                   *)
SameWindow(v, w, i, t) ==
    IF Tiers[i].keepEvery = 0 THEN v = w
    ELSE Age(v, t) \div Tiers[i].keepEvery = Age(w, t) \div Tiers[i].keepEvery

Window(S, v, i, t) == {w \in S : InBand(w, i, t) /\ SameWindow(v, w, i, t)}

(* Mutant: the survivor of a window is its newest version.                 *)
TierKeepsNewest(S, i, t) ==
    UNION {Newest(Window(S, v, i, t)) : v \in {w \in S : InBand(w, i, t)}}

TierKeeps(S, i, t) ==
    UNION {Oldest(Window(S, v, i, t)) : v \in {w \in S : InBand(w, i, t)}}

Kept(S, t) ==
    Oldest(S) \cup Newest(S) \cup UNION {TierKeeps(S, i, t) : i \in DOMAIN Tiers}

Reclaimable(S, t) == S \ Kept(S, t)

----------------------------------------------------------------------------
(* The file, its writers and the collector.                                *)

VARIABLES
    now,             \* the clock
    versions,        \* rows of the file
    latest,          \* its current_version_number
    written,         \* history variable: all rows there have been
    gcPc,            \* where the collector is
    at,              \* its `now`
    doomed,          \* its reclaimable_ids
    runs,            \* collections begun
    racing           \* history variable: numbers committed while a run had not listed

vars == <<now, versions, latest, written, gcPc, at, doomed, runs, racing>>
file == <<versions, latest, written, racing>>
collector == <<gcPc, at, doomed, runs>>

Content(S) == {v \in S : ~v.tombstone}

(* Mutant: tombstones are listed too.                                      *)
ListedAll(S) == S

(* What iter_versions_for_gc yields: no tombstones.                        *)
Listed(S) == Content(S)

Init ==
    /\ now = 0
    /\ versions = {} /\ latest = 0 /\ written = {} /\ racing = {}
    /\ gcPc = "idle" /\ at = 0 /\ doomed = {} /\ runs = 0

Tick ==
    /\ now < MaxTime
    /\ now' = now + 1
    /\ UNCHANGED <<file, collector>>

(* A version commits with the time its writer read before: not before the  *)
(* previous version, whose pointer it had read, was committed.             *)
CommitAs(tombstone) ==
    \E t \in Nat \cap (now - Lag) .. now :
        LET v == [number |-> latest + 1, created |-> t, tombstone |-> tombstone] IN
        /\ \A w \in written : w.created <= t
        /\ versions' = versions \cup {v}
        /\ latest' = v.number
        /\ written' = written \cup {v}
        /\ racing' = IF gcPc \in {"enumerate", "list"} THEN racing \cup {v.number} ELSE racing

Write ==
    /\ latest < MaxNumber
    /\ CommitAs(FALSE)
    /\ UNCHANGED <<now, collector>>

DeleteFile ==
    /\ latest < MaxNumber
    /\ \E v \in versions : v.number = latest /\ ~v.tombstone
    /\ CommitAs(TRUE)
    /\ UNCHANGED <<now, collector>>

(* now = datetime.now(): before any query.                                 *)
StartRun ==
    /\ gcPc = "idle" /\ runs < MaxRuns
    /\ gcPc' = "enumerate"
    /\ at' = now
    /\ runs' = runs + 1
    /\ UNCHANGED <<now, file, doomed>>

(* list_reclaimable_versions with the permissive policy finds the files    *)
(* that have content versions.                                             *)
EnumerateFiles ==
    /\ gcPc = "enumerate"
    /\ gcPc' = IF Listed(versions) = {} THEN "idle" ELSE "list"
    /\ UNCHANGED <<now, file, at, doomed, runs>>

(* iter_versions_for_gc and evaluate_tier_retention.                       *)
ListVersions ==
    /\ gcPc = "list"
    /\ doomed' = Reclaimable(Listed(versions), at)
    /\ gcPc' = IF doomed' = {} THEN "idle" ELSE "delete"
    /\ UNCHANGED <<now, file, at, runs>>

(* Mutant: the ids stay listed after their deletion.                       *)
DeleteVersionsAgain ==
    /\ gcPc = "delete"
    /\ versions' = versions \ doomed
    /\ gcPc' = "idle"
    /\ UNCHANGED <<now, latest, written, racing, at, doomed, runs>>

DeleteVersions ==
    /\ gcPc = "delete"
    /\ versions' = versions \ doomed
    /\ gcPc' = "idle"
    /\ doomed' = {}
    /\ UNCHANGED <<now, latest, written, racing, at, runs>>

CrashRun ==
    /\ gcPc # "idle"
    /\ gcPc' = "idle"
    /\ doomed' = {}
    /\ UNCHANGED <<now, file, at, runs>>

Next ==
    \/ Tick \/ Write \/ DeleteFile
    \/ StartRun \/ EnumerateFiles \/ ListVersions \/ DeleteVersions \/ CrashRun

Spec == Init /\ [][Next]_vars

----------------------------------------------------------------------------
(* Properties.                                                             *)

TypeOK ==
    /\ now \in Nat /\ at \in Nat /\ runs \in Nat /\ latest \in Nat
    /\ versions \subseteq written
    /\ written \subseteq Stored
    /\ \A v \in written : v.number <= latest /\ v.created <= now
    /\ gcPc \in {"idle", "enumerate", "list", "delete"}
    /\ doomed \subseteq versions
    /\ racing \subseteq Nat

(* The first version and the last one with content are never reclaimed,    *)
(* whatever is written, deleted or collected around the run: a deleted     *)
(* file can always be rolled back to what it last was (GarbageCollector.run*)
(* "for deleted files the last content version is treated as current").    *)
FirstAndLastContentKept ==
    Oldest(Content(written)) \cup Newest(Content(written)) \subseteq versions

(* What the newest tier keeps whole is kept: a version too young to be     *)
(* thinned is there, unless it was committed while a collection had read   *)
(* the clock and not yet the versions.                                     *)
Fresh(v, t) ==
    Tiers # <<>> /\ Tiers[1].keepEvery = 0 /\ Age(v, t) < Tiers[1].maxAge

SettledFreshKept ==
    \A v \in Content(written) : Fresh(v, now) /\ v.number \notin racing => v \in versions

(* u stands for v in its window of tier i.                                 *)
StandsFor(u, v, i) ==
    /\ ~u.tombstone /\ ~Before(v, u)
    /\ InBand(u, i, at) /\ SameWindow(v, u, i, at)

(* Of every window that has versions a collection leaves the one that was  *)
(* created first: what it takes away is outside all tiers, or has such a   *)
(* version in its window.                                                  *)
WindowsKeepFirst ==
    [][\A v \in versions \ versions' : \A i \in DOMAIN Tiers :
         InBand(v, i, at) => \E u \in versions' : StandsFor(u, v, i)]_vars
=============================================================================
