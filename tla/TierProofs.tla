---------------------------- MODULE TierProofs ----------------------------
(***************************************************************************)
(* Safety of TierRetention for every sequence of tiers, and without its    *)
(* bounds on time, versions and collections.                               *)
(*                                                                         *)
(* The versions are numbered in the order of their times (Ordered), so the *)
(* ends of the history are the ends of what is stored, and the evaluator   *)
(* keeps them.  What a run has decided to delete (doomed) was decided from *)
(* an older table: each part of IInv about doomed says why the decision is *)
(* still right when it is carried out.                                     *)
(***************************************************************************)
EXTENDS TierRetention, TLAPS

(* Numbers identify versions and follow their times.                       *)
Ordered ==
    \A v, w \in written :
        /\ v.number = w.number => v = w
        /\ v.number < w.number => v.created <= w.created

(* Every set of versions has one that was created first.                   *)
HasOldest == \A S \in SUBSET written : S # {} => Oldest(S) # {}

Ends == Oldest(Content(written)) \cup Newest(Content(written))

(* A version that was not committed under a run's clock reading is not     *)
(* younger than that reading, and not taken while it is fresh.             *)
Settled(v) ==
    v.number \notin racing =>
        /\ gcPc \in {"enumerate", "list"} => v.created <= at
        /\ v \in doomed => ~Fresh(v, at)
        /\ Fresh(v, now) => v \in versions

DoomedReplaced ==
    \A v \in doomed : \A i \in DOMAIN Tiers :
        InBand(v, i, at) => \E u \in versions \ doomed : StandsFor(u, v, i)

IInv ==
    /\ TypeOK
    /\ at <= now
    /\ gcPc # "delete" => doomed = {}
    /\ Ordered
    /\ HasOldest
    /\ Ends \subseteq versions \ doomed
    /\ \A v \in Content(written) : Settled(v)
    /\ DoomedReplaced

----------------------------------------------------------------------------
(* The evaluator.                                                          *)

(* The first and the last of a set of versions are never reclaimable.      *)
LEMMA EndsNotReclaimable ==
    ASSUME NEW S, NEW t, NEW v \in Oldest(S) \cup Newest(S)
    PROVE  v \notin Reclaimable(S, t)
BY DEF Reclaimable, Kept

(* A version in the newest tier is not reclaimable if that tier keeps all. *)
LEMMA FreshNotReclaimable ==
    ASSUME NEW S \in SUBSET Stored, NEW t \in Nat, NEW v \in S,
           v.created <= t, Fresh(v, t)
    PROVE  v \notin Reclaimable(S, t)
<1>1. 1 \in DOMAIN Tiers
  BY TiersAssumption DEF Fresh
<1>2. v.created \in Nat /\ v.number \in Nat
  BY DEF Stored
<1>3. InBand(v, 1, t)
  BY <1>2 DEF Fresh, InBand, BandFloor, Age
<1>4. v \in Oldest(Window(S, v, 1, t))
  <2>1. \A w \in Window(S, v, 1, t) : w = v
    BY DEF Window, SameWindow, Fresh
  <2>2. v \in Window(S, v, 1, t)
    BY <1>3 DEF Window, SameWindow, Fresh
  <2>3. ~Before(v, v)
    BY <1>2 DEF Before
  <2> QED
    BY <2>1, <2>2, <2>3 DEF Oldest
<1>5. v \in TierKeeps(S, 1, t)
  BY <1>3, <1>4 DEF TierKeeps
<1> QED
  BY <1>1, <1>5 DEF Reclaimable, Kept

(* What is reclaimed from a window has an older version there that stays.  *)
LEMMA ReclaimedReplaced ==
    ASSUME NEW S \in SUBSET Stored, NEW t \in Nat,
           NEW v \in Reclaimable(S, t), NEW i \in DOMAIN Tiers, InBand(v, i, t),
           Oldest(Window(S, v, i, t)) # {}
    PROVE  \E u \in S \ Reclaimable(S, t) :
             ~Before(v, u) /\ InBand(u, i, t) /\ SameWindow(v, u, i, t)
<1>1. v \in S
  BY DEF Reclaimable
<1>2. v \in Window(S, v, i, t)
  BY <1>1 DEF Window, SameWindow
<1>3. PICK u \in Oldest(Window(S, v, i, t)) : TRUE
  OBVIOUS
<1>4. u \in S /\ InBand(u, i, t) /\ SameWindow(v, u, i, t) /\ ~Before(v, u)
  BY <1>2 DEF Oldest, Window
<1>5. u \in TierKeeps(S, i, t)
  BY <1>1 DEF TierKeeps
<1>6. u \notin Reclaimable(S, t)
  BY <1>5 DEF Reclaimable, Kept
<1> QED
  BY <1>4, <1>6

----------------------------------------------------------------------------
(* The history.                                                            *)

(* Among versions, the order by (created_at, version_number) is the order  *)
(* by number.                                                              *)
LEMMA BeforeIsLess ==
    ASSUME TypeOK, Ordered, NEW v \in written, NEW w \in written
    PROVE  Before(v, w) <=> v.number < w.number
<1>1. v.number \in Nat /\ w.number \in Nat /\ v.created \in Nat /\ w.created \in Nat
  BY DEF TypeOK, Stored
<1>2. /\ v.number = w.number => v = w
      /\ v.number < w.number => v.created <= w.created
      /\ w.number < v.number => w.created <= v.created
  BY DEF Ordered
<1> QED
  BY <1>1, <1>2 DEF Before

(* A new version keeps the history in order.                               *)
LEMMA CommitKeepsOrder ==
    ASSUME IInv, NEW tombstone \in BOOLEAN, CommitAs(tombstone)
    PROVE  /\ Ordered' /\ HasOldest'
           /\ written' \in SUBSET Stored
           /\ \E v \in Stored :
                /\ v \notin written /\ v.tombstone = tombstone
                /\ v.number = latest + 1
                /\ v.created <= now
                /\ versions' = versions \cup {v}
                /\ written' = written \cup {v}
                /\ latest' = v.number
                /\ racing' = IF gcPc \in {"enumerate", "list"}
                             THEN racing \cup {v.number} ELSE racing
                /\ \A w \in written : Before(w, v) /\ ~Before(v, w) /\ w.number < v.number
<1> USE DEF IInv, TypeOK
<1>1. PICK t \in Nat :
        LET v == [number |-> latest + 1, created |-> t, tombstone |-> tombstone] IN
        /\ t <= now
        /\ \A w \in written : w.created <= t
        /\ versions' = versions \cup {v}
        /\ latest' = v.number
        /\ written' = written \cup {v}
        /\ racing' = IF gcPc \in {"enumerate", "list"} THEN racing \cup {v.number} ELSE racing
  BY BoundsAssumption DEF CommitAs
<1> DEFINE v == [number |-> latest + 1, created |-> t, tombstone |-> tombstone]
<1>2. v \in Stored /\ v.number = latest + 1 /\ v.created = t /\ v.tombstone = tombstone
  BY DEF Stored
<1>3. \A w \in written :
        /\ w.number \in Nat /\ w.created \in Nat
        /\ w.number < v.number /\ w.created <= v.created
  BY <1>1, <1>2 DEF Stored
<1>4. \A w \in written : Before(w, v) /\ ~Before(v, w)
  BY <1>2, <1>3 DEF Before
<1>5. v \notin written
  BY <1>2, <1>3
<1>6. written' = written \cup {v}
  BY <1>1
<1> HIDE DEF v
<1>7. Ordered'
  <2> SUFFICES ASSUME NEW x \in written', NEW y \in written'
               PROVE  /\ x.number = y.number => x = y
                      /\ x.number < y.number => x.created <= y.created
    BY DEF Ordered
  <2>1. CASE x \in written /\ y \in written
    BY <2>1 DEF Ordered
  <2>2. CASE x = v /\ y \in written
    BY <2>2, <1>2, <1>3
  <2>3. CASE x \in written /\ y = v
    BY <2>3, <1>2, <1>3
  <2>4. CASE x = v /\ y = v
    BY <2>4, <1>2
  <2> QED
    BY <1>6, <2>1, <2>2, <2>3, <2>4
<1>8. HasOldest'
  <2> SUFFICES ASSUME NEW S \in SUBSET written', S # {}
               PROVE  Oldest(S) # {}
    BY DEF HasOldest
  <2>1. CASE S \cap written = {}
    <3>1. S = {v}
      BY <2>1, <1>6
    <3>2. ~Before(v, v)
      BY <1>2 DEF Before
    <3> QED
      BY <3>1, <3>2 DEF Oldest
  <2>2. CASE S \cap written # {}
    <3>1. PICK u \in Oldest(S \cap written) : TRUE
      BY <2>2 DEF HasOldest
    <3>2. \A w \in S : w = v \/ w \in S \cap written
      BY <1>6
    <3>3. u \in Oldest(S)
      BY <3>1, <3>2, <1>4 DEF Oldest
    <3> QED
      BY <3>3
  <2> QED
    BY <2>1, <2>2
<1>9. written' \in SUBSET Stored
  BY <1>2, <1>6
<1> QED
  BY <1>1, <1>2, <1>3, <1>4, <1>5, <1>6, <1>7, <1>8, <1>9 DEF v

----------------------------------------------------------------------------
(* The invariant.                                                          *)

(* The file starts with no version.                                        *)
LEMMA InitHolds ==
    Init => IInv
BY DEF Init, IInv, TypeOK, Ordered, HasOldest, Ends, Oldest, Newest, Content, DoomedReplaced

(* Ageing: what is fresh was fresh.                                        *)
LEMMA FreshEarlier ==
    ASSUME NEW v \in Stored, NEW t \in Nat, NEW u \in Nat, t <= u, Fresh(v, u)
    PROVE  Fresh(v, t)
<1>1. 1 \in DOMAIN Tiers
  BY TiersAssumption DEF Fresh
<1>2. Tiers[1].maxAge \in Nat
  <2> DEFINE Tier == [maxAge : Nat, keepEvery : Nat]
  <2>1. Tiers \in Seq(Tier)
    BY TiersAssumption
  <2> HIDE DEF Tier
  <2>2. Tiers[1] \in Tier
    BY <1>1, <2>1
  <2> QED
    BY <2>2 DEF Tier
<1>3. v.created \in Nat
  BY DEF Stored
<1> QED
  BY <1>2, <1>3 DEF Fresh, Age

(* Time passes: versions age, and what was fresh may cease to be.          *)
LEMMA TickStep ==
    ASSUME IInv, Tick
    PROVE  IInv'
<1> USE DEF IInv
<1>1. now \in Nat /\ now' = now + 1 /\ UNCHANGED <<file, collector>>
  BY DEF Tick, TypeOK
<1>2. TypeOK'
  BY <1>1 DEF TypeOK, file, collector, Stored
<1>3. \A v \in Content(written) : Settled(v)'
  <2>1. \A v \in Content(written) : v \in Stored
    BY DEF TypeOK, Content
  <2> QED
    BY <1>1, <2>1, FreshEarlier DEF Settled, file, collector
<1>4. /\ at' <= now' /\ (gcPc # "delete" => doomed = {})'
      /\ Ordered' /\ HasOldest' /\ (Ends \subseteq versions \ doomed)'
  BY <1>1 DEF TypeOK, file, collector, Ordered, HasOldest, Ends, Content
<1>5. DoomedReplaced'
  BY <1>1 DEF file, collector, DoomedReplaced, StandsFor, InBand, SameWindow
<1> QED
  BY <1>1, <1>2, <1>3, <1>4, <1>5 DEF file, Content

(* A version is committed, by a write or a deletion.                       *)
LEMMA CommitStep ==
    ASSUME IInv, NEW tombstone \in BOOLEAN, CommitAs(tombstone),
           UNCHANGED <<now, collector>>
    PROVE  IInv'
<1>1. PICK v \in Stored :
        /\ v \notin written /\ v.tombstone = tombstone
        /\ v.number = latest + 1
        /\ v.created <= now
        /\ versions' = versions \cup {v}
        /\ written' = written \cup {v}
        /\ latest' = v.number
        /\ racing' = IF gcPc \in {"enumerate", "list"} THEN racing \cup {v.number} ELSE racing
        /\ \A w \in written : Before(w, v) /\ ~Before(v, w) /\ w.number < v.number
  BY CommitKeepsOrder
<1>2. Ordered' /\ HasOldest'
  BY CommitKeepsOrder
<1> USE DEF IInv
<1>3. now' = now /\ gcPc' = gcPc /\ at' = at /\ doomed' = doomed /\ runs' = runs
  BY DEF collector
<1>4. TypeOK'
  BY <1>1, <1>3 DEF TypeOK, Stored
<1>5. v \notin doomed
  BY <1>1 DEF TypeOK
<1>6. (Ends \subseteq versions \ doomed)'
  <2> SUFFICES ASSUME NEW x \in Ends'
               PROVE  x \in versions' \ doomed'
    OBVIOUS
  <2>1. CASE x = v
    BY <2>1, <1>1, <1>3, <1>5
  <2>2. CASE x # v
    <3>1. x \in Content(written)
      BY <2>2, <1>1 DEF Ends, Oldest, Newest, Content
    <3>2. Content(written) \subseteq Content(written')
      BY <1>1 DEF Content
    <3>3. x \in Ends
      BY <3>1, <3>2 DEF Ends, Oldest, Newest
    <3> QED
      BY <3>3, <1>1, <1>3
  <2> QED
    BY <2>1, <2>2
<1>7. ASSUME NEW x \in Content(written')
      PROVE  Settled(x)'
  <2>1. CASE x = v
    BY <2>1, <1>1, <1>3, <1>5 DEF Settled
  <2>2. CASE x # v
    <3>1. x \in Content(written)
      BY <2>2, <1>1 DEF Content
    <3> QED
      BY <3>1, <1>1, <1>3 DEF Settled
  <2> QED
    BY <2>1, <2>2
<1>8. DoomedReplaced'
  BY <1>1, <1>3, <1>5 DEF DoomedReplaced, StandsFor, InBand, SameWindow
<1> QED
  BY <1>2, <1>3, <1>4, <1>6, <1>7, <1>8

(* A run reads the clock.                                                  *)
LEMMA StartRunStep ==
    ASSUME IInv, StartRun
    PROVE  IInv'
<1> USE DEF IInv, StartRun, file
<1>1. doomed = {}
  OBVIOUS
<1>2. \A v \in Content(written) : v.created <= now
  BY DEF TypeOK, Content
<1>3. \A v \in Content(written) : Settled(v)'
  BY <1>1, <1>2 DEF Settled
<1>4. TypeOK'
  BY DEF TypeOK
<1>5. at' <= now'
  BY DEF TypeOK
<1>6. Ordered' /\ HasOldest' /\ (Ends \subseteq versions \ doomed)' /\ DoomedReplaced'
  BY <1>1 DEF Ordered, HasOldest, Ends, Content, DoomedReplaced
<1> QED
  BY <1>1, <1>3, <1>4, <1>5, <1>6 DEF Content

(* It enumerates the files.                                                *)
LEMMA EnumerateStep ==
    ASSUME IInv, EnumerateFiles
    PROVE  IInv'
<1> USE DEF IInv, EnumerateFiles, file
<1>1. \A v \in Content(written) : Settled(v)'
  BY DEF Settled
<1>2. TypeOK'
  BY DEF TypeOK
<1>3. Ordered' /\ HasOldest' /\ (Ends \subseteq versions \ doomed)' /\ DoomedReplaced'
  BY DEF Ordered, HasOldest, Ends, Content, DoomedReplaced
<1> QED
  BY <1>1, <1>2, <1>3 DEF Content

(* It may die, and decides nothing then.                                   *)
LEMMA CrashStep ==
    ASSUME IInv, CrashRun
    PROVE  IInv'
<1> USE DEF IInv, CrashRun, file
<1>1. \A v \in Content(written) : Settled(v)'
  BY DEF Settled
<1>2. TypeOK'
  BY DEF TypeOK
<1>3. Ordered' /\ HasOldest' /\ (Ends \subseteq versions \ doomed)' /\ DoomedReplaced'
  BY DEF Ordered, HasOldest, Ends, Content, DoomedReplaced
<1> QED
  BY <1>1, <1>2, <1>3 DEF Content

(* The decision, taken from the table as it is.                            *)
LEMMA ListStep ==
    ASSUME IInv, ListVersions
    PROVE  IInv'
<1> USE DEF IInv
<1> DEFINE S == Content(versions)
<1>1. /\ gcPc = "list" /\ doomed' = Reclaimable(S, at)
      /\ gcPc' = IF doomed' = {} THEN "idle" ELSE "delete"
      /\ now' = now /\ versions' = versions /\ latest' = latest /\ written' = written
      /\ racing' = racing /\ at' = at /\ runs' = runs
  BY DEF ListVersions, Listed, file
<1>2. S \in SUBSET Stored /\ S \subseteq written /\ S \subseteq versions
      /\ S \subseteq Content(written) /\ at \in Nat
  BY DEF TypeOK, Content
<1>3. doomed' \subseteq S
  BY <1>1 DEF Reclaimable
<1> HIDE DEF S
<1>4. TypeOK'
  BY <1>1, <1>2, <1>3 DEF TypeOK
<1>5. (Ends \subseteq versions \ doomed)'
  <2> SUFFICES ASSUME NEW x \in Ends
               PROVE  x \in versions /\ x \notin doomed'
    BY <1>1 DEF Ends, Content
  <2>1. x \in S
    BY DEF S, Ends, Content, Oldest, Newest
  <2>2. x \in Oldest(S) \cup Newest(S)
    BY <2>1, <1>2 DEF Ends, Oldest, Newest
  <2> QED
    BY <2>2, <1>1, EndsNotReclaimable
<1>6. ASSUME NEW v \in Content(written)
      PROVE  Settled(v)'
  <2> SUFFICES ASSUME v.number \notin racing, v \in doomed'
               PROVE  ~Fresh(v, at)
    BY <1>1 DEF Settled
  <2>1. v \in S /\ v.created <= at
    BY <1>1, <1>3 DEF Settled
  <2> QED
    BY <2>1, <1>1, <1>2, FreshNotReclaimable
<1>7. DoomedReplaced'
  <2> SUFFICES ASSUME NEW v \in doomed', NEW i \in DOMAIN Tiers, InBand(v, i, at)
               PROVE  \E u \in versions \ doomed' : StandsFor(u, v, i)
    BY <1>1 DEF DoomedReplaced, StandsFor
  <2>1. Window(S, v, i, at) \in SUBSET written
    BY <1>2 DEF Window
  <2>2. v \in Window(S, v, i, at)
    BY <1>3 DEF Window, SameWindow
  <2>3. Oldest(Window(S, v, i, at)) # {}
    BY <2>1, <2>2 DEF HasOldest
  <2>4. \E u \in S \ Reclaimable(S, at) :
          ~Before(v, u) /\ InBand(u, i, at) /\ SameWindow(v, u, i, at)
    BY <2>3, <1>1, <1>2, ReclaimedReplaced
  <2>5. \A u \in S : ~u.tombstone
    BY DEF S, Content
  <2> QED
    BY <2>4, <2>5, <1>1, <1>2 DEF StandsFor
<1>8. Ordered' /\ HasOldest'
  BY <1>1 DEF Ordered, HasOldest
<1> QED
  BY <1>1, <1>4, <1>5, <1>6, <1>7, <1>8 DEF Content

(* It deletes what it decided to, beside what was committed since.         *)
LEMMA DeleteStep ==
    ASSUME IInv, DeleteVersions
    PROVE  IInv'
<1> USE DEF IInv
<1>1. /\ versions' = versions \ doomed /\ doomed' = {} /\ gcPc' = "idle"
      /\ UNCHANGED <<now, latest, written, racing, at, runs>>
  BY DEF DeleteVersions
<1>2. ASSUME NEW v \in Content(written)
      PROVE  Settled(v)'
  <2>1. v \in Stored
    BY DEF TypeOK, Content
  <2>2. Fresh(v, now) => Fresh(v, at)
    BY <2>1, FreshEarlier DEF TypeOK
  <2> QED
    BY <2>2, <1>1 DEF Settled
<1>3. TypeOK'
  BY <1>1 DEF TypeOK
<1>4. Ordered' /\ HasOldest' /\ (Ends \subseteq versions \ doomed)' /\ DoomedReplaced'
  BY <1>1 DEF Ordered, HasOldest, Ends, Content, DoomedReplaced
<1> QED
  BY <1>1, <1>2, <1>3, <1>4 DEF Content

(* Every step keeps the invariant.                                         *)
LEMMA StepPreserves ==
    IInv /\ [Next]_vars => IInv'
<1> SUFFICES ASSUME IInv, [Next]_vars
             PROVE  IInv'
  OBVIOUS
<1>1. CASE Tick
  BY <1>1, TickStep
<1>2. CASE Write
  BY <1>2, CommitStep DEF Write
<1>3. CASE DeleteFile
  BY <1>3, CommitStep DEF DeleteFile
<1>4. CASE StartRun
  BY <1>4, StartRunStep
<1>5. CASE EnumerateFiles
  BY <1>5, EnumerateStep
<1>6. CASE ListVersions
  BY <1>6, ListStep
<1>7. CASE DeleteVersions
  BY <1>7, DeleteStep
<1>8. CASE CrashRun
  BY <1>8, CrashStep
<1>9. CASE UNCHANGED vars
  <2>1. Ordered' /\ HasOldest' /\ (Ends \subseteq versions \ doomed)' /\ TypeOK'
    BY <1>9 DEF vars, IInv, TypeOK, Ordered, HasOldest, Ends, Content
  <2>2. (\A v \in Content(written) : Settled(v))' /\ DoomedReplaced'
    BY <1>9 DEF vars, IInv, Content, Settled, DoomedReplaced, StandsFor
  <2> QED
    BY <2>1, <2>2, <1>9 DEF vars, IInv
<1> QED
  BY <1>1, <1>2, <1>3, <1>4, <1>5, <1>6, <1>7, <1>8, <1>9 DEF Next

(* The invariant holds in every reachable state, whatever the tiers and    *)
(* however many versions and collections there are.                        *)
THEOREM Invariance == Spec => []IInv
<1> QED
  BY InitHolds, StepPreserves, PTL DEF Spec

(* The state of the tier collector keeps its types, for any number of      *)
(* versions and collections.                                               *)
THEOREM TypeCorrect == Spec => []TypeOK
<1>1. IInv => TypeOK
  BY DEF IInv
<1> QED
  BY <1>1, Invariance, PTL

(* The first and the last content of a file survive every collection:      *)
(* keep_first_version, keep_current_version and the listing without        *)
(* tombstones in _tier_version_gc.                                         *)
THEOREM EndsSurvive == Spec => []FirstAndLastContentKept
<1>1. IInv => FirstAndLastContentKept
  BY DEF IInv, Ends, FirstAndLastContentKept
<1> QED
  BY <1>1, Invariance, PTL

(* Young versions survive if no collection was reading when they were      *)
(* committed.                                                              *)
THEOREM SettledSurvive == Spec => []SettledFreshKept
<1>1. IInv => SettledFreshKept
  BY DEF IInv, Settled, SettledFreshKept
<1> QED
  BY <1>1, Invariance, PTL

(* No collection takes the first version of a window.                      *)
THEOREM WindowsSurvive == Spec => WindowsKeepFirst
<1> DEFINE Kept1 == \A v \in versions \ versions' : \A i \in DOMAIN Tiers :
                     InBand(v, i, at) => \E u \in versions' : StandsFor(u, v, i)
<1>1. IInv /\ [Next]_vars => [Kept1]_vars
  <2> SUFFICES ASSUME IInv, [Next]_vars, NEW v \in versions \ versions',
                      NEW i \in DOMAIN Tiers, InBand(v, i, at)
               PROVE  \E u \in versions' : StandsFor(u, v, i)
    OBVIOUS
  <2>1. DeleteVersions
    BY DEF Next, vars, file, Tick, Write, DeleteFile, CommitAs, StartRun,
           EnumerateFiles, ListVersions, CrashRun
  <2>2. versions' = versions \ doomed
    BY <2>1 DEF DeleteVersions
  <2> QED
    BY <2>2 DEF IInv, DoomedReplaced
<1> QED
  BY <1>1, Invariance, PTL DEF Spec, WindowsKeepFirst
=============================================================================
