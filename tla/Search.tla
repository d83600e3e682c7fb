------------------------------- MODULE Search -------------------------------
(* Listing and searching a namespace while it changes: VFS.list and         *)
(* VFS.search, the native text index of the SQL stores (NativeTextSearch),  *)
(* the brute-force search of a store without one, VFS.reindex, and what     *)
(* keeps the index and the versions apart (commits that carry an artifact   *)
(* over, the sweep of unreferenced text). Every store call is one step;     *)
(* between two of them files, permissions and text rows may change.         *)
EXTENDS Access

CONSTANTS
    Searchers,      \* concurrent callers of list and search
    Queries,        \* what they may ask
    Hashes,
    MatchingHashes, \* the contents the query matches
    BinaryHashes,   \* the contents that are not UTF-8 text
    Commits,        \* the writes that may happen, [path, hash]
    InitFiles,      \* the files at the start
    NoText,         \* no artifact, or one of a retired index configuration
    MaxVersions,    \* bound on the versions of a file
    MaxReads        \* SearchLimits.max_content_reads

Kinds == {"list", "find", "regex", "fulltext"}
Query == [kind : Kinds, who : Principals, scope : Paths]
Artifacts == {"ready", "unsupported", NoText}
File == [number : Nat, hash : Hashes, dead : BOOLEAN, artifact : Artifacts]

ASSUME SearchAssumption ==
    /\ Queries \subseteq Query /\ Queries # {}
    /\ MatchingHashes \subseteq Hashes \ BinaryHashes
    /\ Commits \subseteq [path : Paths, hash : Hashes]
    /\ InitFiles \in [DOMAIN InitFiles -> File]
    /\ DOMAIN InitFiles \subseteq Paths
    /\ NoText \notin {"ready", "unsupported"}
    /\ MaxReads \in Nat

Files == DOMAIN InitFiles

(* The artifacts there are at the start were made by index(): only a        *)
(* content that is not text was found unsupported (vfs.py:324-342).         *)
ASSUME ArtifactsAssumption ==
    \A f \in Files : InitFiles[f].artifact = "unsupported" => InitFiles[f].hash \in BinaryHashes

VARIABLES
    native,     \* the store has a text index; FALSE is SQLite without FTS5
    cur,        \* the current version of each file; number 0 for none
    text,       \* the contents whose text the index holds
    copying,    \* a copy, move or rollback: the version it read
    indexing,   \* a reindex: the files to do and the version it read
    sc,         \* what each search does next
    query,
    todo,       \* the files it has not come to
    kept,       \* the files it may show
    entries,    \* the versions it enumerated
    results,
    reads,      \* the blobs it read
    untouched,  \* history: the files of the reindex's listing not written since
    steady,     \* history: the files it could have found all along, unwritten
    seen        \* history: what held of the files it asks for at some time since it started

storeVars == <<native, cur, text>>
searchVars == <<sc, query, todo, kept, entries, results, reads>>
vars == <<accessVars, storeVars, copying, indexing, searchVars, untouched, steady, seen>>

----------------------------------------------------------------------------
Live(f) == cur[f].number > 0 /\ ~cur[f].dead

EntryOf(f) == [path |-> f, number |-> cur[f].number, hash |-> cur[f].hash,
               artifact |-> cur[f].artifact]

NoEntry == [path |-> CHOOSE f \in Files : TRUE, number |-> 0,
            hash |-> CHOOSE h \in Hashes : TRUE, artifact |-> NoText]

(* The file says that its text is indexed, and it is not.                   *)
Dangling(f) == Live(f) /\ cur[f].artifact = "ready" /\ cur[f].hash \notin text

InScope(s)  == {f \in Files : IsPrefix(query[s].scope, f)}
Readable(s) == {f \in InScope(s) : CheckPermission(query[s].who, f, "read")}

(* The files a text search ought to find now.                               *)
Eligible(s) == {f \in Readable(s) : Live(f) /\ cur[f].hash \in MatchingHashes}

Ended(s) == sc[s] \in {"done", "refused"}

AnyQuery == CHOOSE q \in Queries : TRUE
Unseen == [readable |-> {}, live |-> {}, matching |-> {}, dangling |-> {}]

Init ==
    /\ AccessInit
    /\ native \in BOOLEAN
    /\ cur = IF native THEN InitFiles
             ELSE [f \in Files |-> [InitFiles[f] EXCEPT !.artifact = NoText]]
    /\ text = {cur[f].hash : f \in {g \in Files : cur[g].artifact = "ready"}}
    /\ copying = NoEntry
    /\ indexing = [begun |-> FALSE, todo |-> {}, entry |-> NoEntry]
    /\ untouched = {}
    /\ sc = [s \in Searchers |-> "idle"]
    /\ query = [s \in Searchers |-> AnyQuery]
    /\ todo = [s \in Searchers |-> {}]
    /\ kept = [s \in Searchers |-> {}]
    /\ entries = [s \in Searchers |-> {}]
    /\ results = [s \in Searchers |-> {}]
    /\ reads = [s \in Searchers |-> 0]
    /\ steady = [s \in Searchers |-> {}]
    /\ seen = [s \in Searchers |-> Unseen]

----------------------------------------------------------------------------
(* The store changes.                                                       *)

Indexed(h) == IF ~native THEN NoText ELSE IF h \in BinaryHashes THEN "unsupported" ELSE "ready"

WithText(h) == IF Indexed(h) = "ready" THEN text \cup {h} ELSE text

Version(f, h, artifact) ==
    [number |-> cur[f].number + 1, hash |-> h, dead |-> FALSE, artifact |-> artifact]

Tombstone(f) == [Version(f, cur[f].hash, NoText) EXCEPT !.dead = TRUE]

(* Version, artifact and text row commit in one transaction.                *)
Write(f, h) ==
    /\ cur[f].number < MaxVersions
    /\ cur' = [cur EXCEPT ![f] = Version(f, h, Indexed(h))]
    /\ text' = WithText(h)
    /\ UNCHANGED <<accessVars, native, copying, indexing, searchVars>>

Delete(f) ==
    /\ cur[f].number \in 1..(MaxVersions - 1)
    /\ cur' = [cur EXCEPT ![f] = Tombstone(f)]
    /\ UNCHANGED <<accessVars, native, text, copying, indexing, searchVars>>

(* copy, move and rollback read a version, then commit one with its content *)
(* and its search_meta; the text is taken to be there. A move deletes its   *)
(* source in the same transaction (without transactions: a Delete after).   *)
ReadSource(f) ==
    /\ copying = NoEntry
    /\ Live(f)
    /\ copying' = EntryOf(f)
    /\ UNCHANGED <<accessVars, storeVars, indexing, searchVars>>

CarryOver(f, moving) ==
    LET src == copying.path
    IN  /\ copying # NoEntry
        /\ cur[f].number < MaxVersions
        /\ moving => f # src /\ cur[src].number < MaxVersions
        /\ cur' = [g \in Files |->
               IF g = f THEN Version(f, copying.hash, copying.artifact)
               ELSE IF moving /\ g = src THEN Tombstone(g) ELSE cur[g]]
        /\ copying' = NoEntry
        /\ UNCHANGED <<accessVars, native, text, indexing, searchVars>>

(* _blob_gc checks the references of a content and deletes its text in one  *)
(* transaction. Versions that are not current may have been reclaimed.      *)
Sweep(h) ==
    /\ h \in text
    /\ \A f \in Files : Live(f) => cur[f].hash # h
    /\ text' = text \ {h}
    /\ UNCHANGED <<accessVars, native, cur, copying, indexing, searchVars>>

StartReindex ==
    /\ ~indexing.begun
    /\ indexing' = [indexing EXCEPT !.begun = TRUE, !.todo = {f \in Files : Live(f)}]
    /\ UNCHANGED <<accessVars, storeVars, copying, searchVars>>

(* Mutant: a version that has an artifact is skipped.                       *)
ReadUnlessIndexed(f) ==
    /\ f \in indexing.todo
    /\ indexing.entry = NoEntry
    /\ indexing' = [indexing EXCEPT
           !.todo = @ \ {f},
           !.entry = IF Live(f) /\ native /\ cur[f].artifact = NoText THEN EntryOf(f) ELSE @]
    /\ UNCHANGED <<accessVars, storeVars, copying, searchVars>>

(* A file deleted since the listing is passed over; without an index        *)
(* DefaultSearchProvider.index makes no artifact.                           *)
ReadForIndex(f) ==
    /\ f \in indexing.todo
    /\ indexing.entry = NoEntry
    /\ indexing' = [indexing EXCEPT !.todo = @ \ {f},
                                    !.entry = IF Live(f) /\ native THEN EntryOf(f) ELSE @]
    /\ UNCHANGED <<accessVars, storeVars, copying, searchVars>>

(* index_text and update_search_artifact in one transaction; the artifact   *)
(* goes to the version that was read, and to no later one.                  *)
StoreIndex ==
    LET e == indexing.entry
    IN  /\ e # NoEntry
        /\ text' = WithText(e.hash)
        /\ cur' = IF cur[e.path].number = e.number
                  THEN [cur EXCEPT ![e.path].artifact = Indexed(e.hash)] ELSE cur
        /\ indexing' = [indexing EXCEPT !.entry = NoEntry]
        /\ UNCHANGED <<accessVars, native, copying, searchVars>>

----------------------------------------------------------------------------
(* One list or search.                                                      *)

ListDir(s, q) ==
    /\ sc[s] = "idle"
    /\ sc' = [sc EXCEPT ![s] = "prune"]
    /\ query' = [query EXCEPT ![s] = q]
    /\ todo' = [todo EXCEPT ![s] = {f \in Files : IsPrefix(q.scope, f) /\ Live(f)}]
    /\ UNCHANGED <<accessVars, storeVars, copying, indexing, kept, entries, results, reads>>

(* Invisible pruning, one check for each file.                              *)
Prune(s, f) ==
    /\ sc[s] = "prune" /\ f \in todo[s]
    /\ todo' = [todo EXCEPT ![s] = @ \ {f}]
    /\ kept' = [kept EXCEPT ![s] = IF CheckPermission(query[s].who, f, "read")
                                   THEN @ \cup {f} ELSE @]
    /\ UNCHANGED <<accessVars, storeVars, copying, indexing, sc, query, entries, results, reads>>

EndPrune(s) ==
    /\ sc[s] = "prune" /\ todo[s] = {}
    /\ IF query[s].kind = "list"
       THEN /\ sc' = [sc EXCEPT ![s] = "done"]
            /\ results' = [results EXCEPT ![s] = kept[s]]
            /\ UNCHANGED todo
       ELSE /\ sc' = [sc EXCEPT ![s] = "enumerate"]
            /\ todo' = [todo EXCEPT ![s] = kept[s]]
            /\ UNCHANGED results
    /\ UNCHANGED <<accessVars, storeVars, copying, indexing, query, kept, entries, reads>>

(* One get_version for each file. On the SQL stores a version is there with *)
(* its pointer; Mongo, where it may be seen before that, is not claimed.    *)
Enumerate(s, f) ==
    /\ sc[s] = "enumerate" /\ f \in todo[s]
    /\ todo' = [todo EXCEPT ![s] = @ \ {f}]
    /\ entries' = [entries EXCEPT ![s] = IF Live(f) THEN @ \cup {EntryOf(f)} ELSE @]
    /\ UNCHANGED <<accessVars, storeVars, copying, indexing, sc, query, kept, results, reads>>

Finish(s, how, found) ==
    /\ sc' = [sc EXCEPT ![s] = how]
    /\ results' = [results EXCEPT ![s] = found]
    /\ UNCHANGED <<accessVars, storeVars, copying, indexing, query, todo, kept, entries, reads>>

Stragglers(s) == {e \in entries[s] : e.artifact = NoText}

ByMetadata(s) ==
    /\ sc[s] = "enumerate" /\ todo[s] = {} /\ query[s].kind = "find"
    /\ Finish(s, "done", {e.path : e \in entries[s]})

(* ReindexRequiredError, or SearchTypeUnsupportedError.                     *)
Refuse(s) ==
    /\ sc[s] = "enumerate" /\ todo[s] = {}
    /\ \/ query[s].kind \in {"regex", "fulltext"} /\ native /\ Stragglers(s) # {}
       \/ query[s].kind = "fulltext" /\ ~native
    /\ Finish(s, "refused", {})

(* Mutant: every current version with a matching content is an occurrence.  *)
ByWholeIndex(s) ==
    /\ sc[s] = "enumerate" /\ todo[s] = {}
    /\ query[s].kind \in {"regex", "fulltext"} /\ native /\ Stragglers(s) = {}
    /\ Finish(s, "done", {f \in Files : Live(f) /\ cur[f].hash \in text \cap MatchingHashes})

(* The index answers for the enumerated contents, from the stored text.     *)
Hits(s) == {e \in entries[s] : e.artifact = "ready" /\ e.hash \in text \cap MatchingHashes}

ByIndex(s) ==
    /\ sc[s] = "enumerate" /\ todo[s] = {}
    /\ query[s].kind \in {"regex", "fulltext"} /\ native /\ Stragglers(s) = {}
    /\ Finish(s, "done", {e.path : e \in Hits(s)})

StartReading(s) ==
    /\ sc[s] = "enumerate" /\ todo[s] = {} /\ query[s].kind = "regex" /\ ~native
    /\ sc' = [sc EXCEPT ![s] = "read"]
    /\ todo' = [todo EXCEPT ![s] = {e.path : e \in entries[s]}]
    /\ UNCHANGED <<accessVars, storeVars, copying, indexing, query, kept, entries, results, reads>>

(* ContentReader.read fetches the enumerated content, whatever is current.  *)
ReadContent(s, e) ==
    /\ sc[s] = "read" /\ e \in entries[s] /\ e.path \in todo[s]
    /\ reads[s] < MaxReads
    /\ todo' = [todo EXCEPT ![s] = @ \ {e.path}]
    /\ reads' = [reads EXCEPT ![s] = @ + 1]
    /\ results' = [results EXCEPT ![s] = IF e.hash \in MatchingHashes THEN @ \cup {e.path} ELSE @]
    /\ UNCHANGED <<accessVars, storeVars, copying, indexing, sc, query, kept, entries>>

EndReading(s) ==
    /\ sc[s] = "read" /\ todo[s] = {}
    /\ Finish(s, "done", results[s])

(* Mutant: what was found within the budget is returned.                    *)
EndPartially(s) ==
    /\ sc[s] = "read" /\ todo[s] # {} /\ reads[s] >= MaxReads
    /\ Finish(s, "done", results[s])

(* The budget is used up (ReadBudgetExceededError), or the content was      *)
(* reclaimed since, with the last version that referred to it.              *)
FailReading(s) ==
    /\ sc[s] = "read" /\ todo[s] # {}
    /\ \/ reads[s] >= MaxReads
       \/ \E e \in entries[s] : /\ e.path \in todo[s]
                                 /\ \A f \in Files : Live(f) => cur[f].hash # e.hash
    /\ Finish(s, "refused", {})

----------------------------------------------------------------------------
SearchStep(s) ==
    \/ \E q \in Queries : ListDir(s, q)
    \/ \E f \in Files : Prune(s, f) \/ Enumerate(s, f)
    \/ EndPrune(s) \/ ByMetadata(s) \/ Refuse(s) \/ ByIndex(s)
    \/ StartReading(s) \/ EndReading(s) \/ FailReading(s)
    \/ \E e \in entries[s] : ReadContent(s, e)

StoreStep ==
    \/ \E c \in Commits : Write(c.path, c.hash)
    \/ \E f \in Files : \/ Delete(f) \/ ReadSource(f) \/ ReadForIndex(f)
                        \/ \E moving \in BOOLEAN : CarryOver(f, moving)
    \/ \E h \in Hashes : Sweep(h)
    \/ StartReindex \/ StoreIndex

(* The histories follow every step until the search ends.                   *)
Watch ==
    /\ untouched' = IF indexing.begun THEN {f \in untouched : cur'[f].number = cur[f].number}
                    ELSE indexing'.todo
    /\ steady' = [s \in Searchers |->
           IF sc[s] = "idle" THEN (IF sc'[s] = "idle" THEN {} ELSE Eligible(s)')
           ELSE IF Ended(s) THEN steady[s]
           ELSE {f \in steady[s] \cap Eligible(s)' : cur'[f].number = cur[f].number}]
    /\ seen' = [s \in Searchers |->
           IF sc'[s] = "idle" \/ Ended(s) THEN seen[s]
           ELSE [readable |-> seen[s].readable \cup Readable(s)',
                 live     |-> seen[s].live \cup {f \in InScope(s)' : Live(f)'},
                 matching |-> seen[s].matching
                     \cup {f \in InScope(s)' : Live(f)' /\ cur'[f].hash \in MatchingHashes},
                 dangling |-> seen[s].dangling \cup {f \in InScope(s)' : Dangling(f)'}]]

(* Bound: the model stops with the last search.                             *)
Next ==
    /\ \E s \in Searchers : ~Ended(s)
    /\ \/ StoreStep
       \/ \E s \in Searchers : SearchStep(s)
       \/ AccessNext /\ UNCHANGED <<storeVars, copying, indexing, searchVars>>
    /\ Watch

Spec == Init /\ [][Next]_vars

----------------------------------------------------------------------------
(* A search lists, checks permissions, reads versions and asks the index in *)
(* separate operations (vfs.py:810-905). Whatever commits in between, a     *)
(* path it reports was readable by the caller, was a live file and, for the *)
(* text kinds, had matching content, each at some moment of the search.     *)
ResultsWereVisible ==
    \A s \in Searchers :
        /\ results[s] \subseteq seen[s].readable \cap seen[s].live
        /\ query[s].kind \in {"regex", "fulltext"} => results[s] \subseteq seen[s].matching

(* A search that ends without an error reports every file that was there,   *)
(* readable and matching all the time: stale artifacts and an exhausted     *)
(* read budget make it fail instead of leaving something out                *)
(* (vfs.py:1093-1106, reader.py:59-62). The one exception is a file whose   *)
(* artifact was carried over from a version whose text was swept meanwhile. *)
CompleteOrRefused ==
    \A s \in Searchers : sc[s] = "done" => steady[s] \subseteq results[s] \cup seen[s].dangling

(* After a reindex every file of its listing that nobody wrote since has an *)
(* artifact that tells the truth, whatever state it was in before, so a     *)
(* search over those files is neither refused nor wrong (vfs.py:1175-1224). *)
ReindexRepairs ==
    native /\ indexing.begun /\ indexing.todo = {} /\ indexing.entry = NoEntry =>
        \A f \in untouched : cur[f].artifact # NoText /\ ~Dangling(f)
=============================================================================
