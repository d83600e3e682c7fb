# A verification project for ai-vfs

ai-vfs is a versioned virtual file system for agents: a Python library whose
`VFS` object (`src/vfs/vfs.py`) keeps immutable file versions in a metadata
store (SQLite, PostgreSQL or MongoDB) and their contents, by hash, in a blob
store (local directory, S3, optionally behind a disk cache). This directory
holds TLA+ models of the parts in which several coroutines meet on those
stores, TLC configurations that check them on small instances, and TLAPS
proofs of their safety properties and refinements for every instance.

Paths below are relative to the repository; `vfs.py` stands for
`src/vfs/vfs.py`, and so on.

## 1. The system

| Part | State | Operations | Talks to |
|---|---|---|---|
| VFS operations (`vfs.py`) | none of its own: locals of each coroutine | write, read, delete, copy, move, versions, rollback, stat, list, search, reindex, execute, run_gc, grant, bootstrap_admin, create_namespace, create_principal | metadata store, blob store, audit |
| SQL metadata store (`stores/sql_metadata.py`, `sqlite_metadata.py`, `postgres_metadata.py`, `schema.py`) | tables `files`, `versions`, `permissions`, `names`, `namespaces`, `principals`, `audit_events`, `search_text_artifacts` (+ FTS tables); one connection and one `asyncio.Lock` | one method per query; `transaction()` holds the lock for a block | database |
| Mongo metadata store (`stores/mongo_metadata.py`) | the same as collections | the same methods; `transaction()` does nothing | MongoDB |
| Blob stores (`stores/local_blob.py`, `s3_blob.py`, `cached_blob.py`) | hash -> bytes | put, get, delete, exists, list_hashes | file system, S3 |
| Garbage collector (`gc.py`) | none | version GC (recent-count or age tiers), blob sweep | both stores |
| Access control and names (`vfs.py`, stores) | permissions, names | check_permission (longest prefix), grant, bootstrap_admin, set_name | metadata store |
| Search (`vfs.py`, `search/`, native text search of the SQL stores) | text artifacts, search manifests of the versions | glob, find, regex, fulltext, reindex | both stores |
| Session and execution (`session.py`, `execution/`) | cwd, operation counter | file operations of sandboxed code with budgets and a timeout | VFS |
| Observability (`observability/`) | audit log | one event per state change | metadata store |
| Migrations, demo, notebooks | - | schema creation, example applications | - |

Everything runs on asyncio. A VFS method awaits the stores several times and
holds nothing between two awaits, so two calls interleave at every await; one
store operation is atomic on SQL (the lock and one transaction, which `SqlStore`
is about) but not on Mongo. The hard behaviours are therefore:

* a version number or a source version that is read in one operation and used
  in a later one (`write`, `copy`, `move`, `rollback`, `reindex`, the collector);
* retries after a `VersionCollisionError`, up to `_MAX_WRITE_RETRIES`;
* compare-and-swap writes whose number comes from a read of its own;
* two stores without a common transaction (blob and metadata), and the sweep
  that deletes from both;
* a crash or a cancellation between two steps; an audit event that is written
  after the commit;
* one connection shared by all coroutines, on which every statement is an await
  that may fail or be cancelled; two text indexes beside the tables.

What makes each part correct:

* **VFS operations**: the two tables agree; a version that was returned is in
  the history with its content, and belongs to one caller; CAS succeeds only on
  top of the expected version; errors mean what they say; a history only grows.
* **Stores**: a version row and its pointer appear together (SQL), or the row
  first and nothing but a crash between (Mongo); a unit of work happens in one
  step or not at all, and the text indexes agree with the texts (SQL); a blob
  that was put is returned in full.
* **Collector**: version 1, the current and the recent versions stay; content
  in use stays; what is not in use goes; by tiers, the first version of every
  window and everything the newest tier keeps whole stays.
* **Audit**: a change without an event is a crash between commit and event.
* **Access control**: longest prefix decides; one bootstrap per namespace.
* **Search**: a hit was visible to the caller; what could not be searched makes
  the search fail.
* **Execution**: budget and caps hold on both surfaces together; the result
  names what stopped the code; nothing goes on after it but what a timeout
  overtook.

`PROJECT.json` lists the components and, at their lines, the hazards.

## 2. The modules

| Module | Models | Kind |
|---|---|---|
| `Vfs` | VFS methods as coroutines over the SQL store and a blob store | core state machine |
| `FileHistory` | what the VFS promises: append-only histories | abstract specification |
| `VfsHistory` | `Vfs` read as histories: the refinement mapping | refinement |
| `MCVfs` | instances of `Vfs` and `VfsHistory` | TLC |
| `VfsGc` | `Vfs` composed with the garbage collector | composition |
| `MCVfsGc` | instances of `VfsGc` | TLC |
| `VfsProofs` | theorems about `Vfs` and `VfsHistory` | TLAPS |
| `GcProofs` | theorems about `VfsGc` | TLAPS |
| `MongoVfs` | the same coroutines over the Mongo store | variant of the core |
| `MongoGc` | `MongoVfs` with the collector of `VfsGc` and the Mongo listing | composition |
| `MCMongoGc` | instance of `MongoGc` | TLC |
| `MongoProofs` | theorems about `MongoGc` | TLAPS |
| `RegexPrefilter` | the literal a regex search asks the trigram index for, and a reference | algorithm |
| `AtomicStore` | what the SQL store promises: units of work in one step | abstract specification |
| `SqlStore` | lock, connection, transactions and text indexes, statement by statement | state machine, refinement |
| `MCSqlStore` | instance of `SqlStore` | TLC |
| `SqlProofs` | theorems about `SqlStore` | TLAPS |
| `BlobStores` | local, S3 and cached blob store below `Vfs`'s interface | state machine |
| `MCBlobStores` | instances of `BlobStores` | TLC |
| `BlobProofs` | theorems about `BlobStores` | TLAPS |
| `TierRetention` | tier evaluator and tier collection of a file | algorithm and state machine |
| `MCTierRetention` | instance of `TierRetention` | TLC |
| `TierProofs` | theorems about `TierRetention` | TLAPS |
| `Access` | permission rows, checks, grant and bootstrap, name claims | state machine |
| `MCAccess` | instance of `Access` | TLC |
| `AccessProofs` | theorems about `Access` and `Search` | TLAPS |
| `Search` | list, search and reindex over a store that changes | composition with `Access` |
| `MCSearch` | instance of `Search` | TLC |
| `Execution` | one execution of sandboxed code | state machine |
| `PathNames` | path resolution, canonical paths, directories made of files | algorithms |
| `ExecutionProofs` | theorems about `Execution` | TLAPS |
| `MCExecution` | instance of `Execution`; `PathNames` over bounded paths | TLC |

### `Vfs`

A request is one call of a VFS method. Its variables are the locals of the
coroutine: `pc` (the await it is at), `src` (the `VersionMeta` it has read),
`seen` (the `current_version_number`s it has read), `last` and `skip` (move's
`_last_dst_attempt` and `dst_committed`), `tries` and `won`; `first` is a
history variable. The stores are `files`, `versions`, `blobs`, `text` and
`audit`. One store operation, or one `transaction()` block, is one action:

| Action | Code |
|---|---|
| `PutBlob` | `write`: `blob.put`, and the preparation of the search artifact |
| `GetSource`, `SourceMissing` | `get_version` of `copy`, `move`, `rollback`, `read`, `reindex` and the `NotFoundError` after it |
| `GetFrom`, `GetFile`, `NothingToDelete` | `get_file` of move's source, of the path to be written (once per attempt), of `delete` |
| `Commit`, `CasConflict`, `Collide` | `put_version` alone or with `index_text` in a transaction: success, `ConflictError`, refused insert |
| `MoveCommit`, `MoveFinish` | move's transaction, with and without the destination |
| `Audit` | `audit_write`, `audit_copy`, ... |
| `GetBlob`, `Index` | `blob.get`; reindex's transaction |
| `Crash` | the coroutine is gone, between any two steps |

`Collide` covers both reactions: `write`, `copy` and `move` without CAS try
again and raise `VersionCollisionError` at the last attempt; `delete` and
`rollback` raise at once; with CAS the driver's `IntegrityError` gets through
(`sql_metadata.py:353` is outside the `try`), here the outcome `"integrity"`.
The version a `write` deposits on a deleted file, `rollback` to a tombstone
(a live version with an empty hash) and a move of a path onto itself (which
collides on every attempt) behave as in the code.

Abstractions: a content is its hash; ULIDs, times, sizes, `created_by` and
`search_meta` are left out; one namespace; `reindex` is the body of its loop
for one file; permission checks are assumed to have passed; `stat`, `list`
and `versions` are reads of one table and have no steps; one database
connection, as in the code, so a store operation is serial.

### `VfsGc`

The collector is one more process: `ListReclaimable` and `DeleteVersions`
(`_version_gc`: two store operations), `PassOver`, `SweepText`, `SweepBlob`
(`_blob_gc`: the transaction and the `blob.delete` after it), `GcEnd`, and
`GcCrash` between any two. A blob put while the directory is being listed may
or may not be visited. One collector runs at a time.

### `FileHistory` and `VfsHistory`

`FileHistory` has the histories, one sequence of entries for each path, what
each request asks, and the position it was given. Its steps append what was
asked: a write's content, if with compare-and-swap then at the expected length;
a live entry of the source for a copy; the named entry's content for a rollback;
a tombstone on a history that is not empty; for a move, an entry at one end and
a tombstone at the other, in one step. Each request does so at most once, on
its own path. `VfsHistory` maps entry n of a path to the row with
`version_number` n, the length to `current_version_number`, and the position to
`won`. Two things the code does are part of the abstract specification because
they are what it does: a copy or move may carry an entry that is no longer the
current one, and `Retire` is the move of the run `move_lost`.

### `MongoVfs` and `MongoGc`

`MongoVfs` extends `Vfs`: the requests and all their steps but the commit are
the same (`SharedStep`). `Commit` falls apart into what `mongo_metadata.py`
does: insert the version document (`InsertVersion`), move the pointer
(`PointVersion`) or, if a compare-and-swap matches nothing (`LoseSwap`), delete
the document again (`Withdraw`); `transaction()` is a no-op, so a move inserts
and points twice (`InsertTombstone`, `HideSource`) and `InsertRefused` may strike
after the destination was written. `stage` says how far a request is, `mine`
which documents it has in the collection. There is no native text search on
Mongo, so `TextHashes` is empty. A crash keeps what was written.

`MongoGc` puts the collector of `VfsGc` beside it. `list_reclaimable_versions`
is a query for each file here (`ListFile`), and it counts documents, also one
that is inserted and not pointed at yet. Deletion and sweep are those of
`VfsGc`.

### `SqlStore`, `AtomicStore` and `RegexPrefilter`

A task has one unit of work: a `write` or `cas` of a version (with its text in
one `transaction()` if the index is up), a `prune` of superseded versions, a
`sweep` of a text, a `reindex` or a `search`. `Program` is the unit as operations
and each of them as statements. `BeginTransaction` is `transaction()`,
`EnterOperation` is `_operation()`: both take `lock`, the second not if the
task-local `_in_txn` is set. `Execute` runs one statement on `work`, the tables as
the connection's transaction sees them; `Commit` makes them `disk`. `Raise` is a
refused insert or a swap that matched nothing, `Break` any other error,
`Rollback` what `except Exception` does about them. A refused write ends as
`"collision"`, a compare-and-swap as `"conflict"` when the file is not at the
expected version and as `"integrity"` when the file is, but the number of its row
is taken: the driver's own error, which `put_version` lets through
(`sql_metadata.py:353`). `CancelWaiting` and
`CancelWorking` are cancellations: `CancelledError` is no `Exception`, so the
code does not roll back, and the module relies on what SQLAlchemy's
`AsyncConnection` does (external, not in this repository): it drops the
connection with the open transaction, and the next statement raises
`PendingRollbackError` (`PendingRollback`), after which a rollback repairs it.
`Die` and `Connect`, `FillWords`, `ExposeIndex`, `SetupFails` are the death of
the process and `initialize()`: the virtual tables, the backfill of the word
index, its commit and the exposure of the index. The FTS5 tables have no unique
index, so they are modelled by how many rows a text has in each.

`AtomicStore` is the promise: a unit changes the tables in one step or fails
without a trace, by a refusal whose kind the tables at that moment determine
(`Refuse`), and a search returns each visible content that matches exactly
once. The refinement maps the committed tables to it; a search's answer is
computed by `SqlStore` from rows, indexes and the prefilter.

`RegexPrefilter` is `_fts5_literal_from_pattern` as a fold over the characters of
a pattern, with a reference that builds patterns together with the strings they
match.

The database file outlives the process; an in-memory database, which a dropped
connection loses, PostgreSQL's own text search and `close()` are not modelled.

### `BlobStores`

One content hash and concurrent calls on it. Which store and whether it is
wrapped is chosen initially, as `_resolve_blob_store` and `_maybe_wrap_cache`
do. A local put is `PutCheck` (`p.exists()`), `OpenFile` (create or truncate),
`WriteChunk` and `CloseFile`; files are inodes named by the call that created
them, so a put goes on writing to an unlinked file, and to its own position in
a truncated one. An S3 put is `PutCheck` (`head_object`) and `UploadObject`. The
cached store adds the lookup in `Begin`, `FillCache` and `DropCache`; `Evict`
is the LRU policy. A file is read in one step (`ReadFile`).

### `TierRetention`

`Reclaimable(S, t)` is `evaluate_tier_retention`; ages and tiers are integers,
`keepEvery = 0` stands for `None`, which makes every version a window of its
own. Around it one file with `Write` and `DeleteFile` (a version carries the
clock its writer read, at most `Lag` before the commit and, because it read the
pointer before, not before the previous version) and the collector with the
steps of `_tier_version_gc`: `StartRun` reads the clock, `EnumerateFiles`,
`ListVersions` with the evaluation, `DeleteVersions`, `CrashRun` anywhere. The
clock is taken not to run backwards; `keep_first_version` and
`keep_current_version` are at their defaults, which `run` never changes. The
files of a run are independent except that all deletions come last, which a
single file sees as time between `ListVersions` and `DeleteVersions`.

### `Access`

`perms` is the table of rows, `log` the changes that made it, in order (a
history variable), `audited` the changes that have their event. A call of
`grant` or `bootstrap_admin` is `Admit` (the check: `check_permission` on the
prefix it changes, or `has_any_admin`), `SetPermission` (the upsert) and
`RecordChange` (the event), one operation each; a refused call changes nothing
and has no step. `PrefixMatches` is the string comparison of the stores on
paths that are sequences of slashes and name fragments, so that `/w` is a
beginning of `/ws` without being its parent. `create_namespace` and
`create_principal` are `ClaimName` (or `RefuseName`) and `PutEntity`; on a
transactional store the two are one step, on Mongo `CrashCreator` may come
between. One namespace; ids are fresh.

### `Search`

Extends `Access`: the rows of the caller change while it searches. A search is
`ListDir` (one query), `Prune` (one permission check for each file),
`Enumerate` (one `get_version` for each file that is left), and then, by kind
and store, `ByMetadata`, `Refuse` (stale artifacts, or no index), `ByIndex`, or
`StartReading`, `ReadContent` (one blob each, at most `MaxReads`), `EndReading`,
`FailReading`. `list` ends with `EndPrune`. The store changes in steps of its
own: `Write` and `Delete`; `ReadSource` and `CarryOver`, the two halves of a
copy, move or rollback, which take the artifact of the version they read along;
`Sweep`; `StartReindex`, `ReadForIndex` and `StoreIndex`. An artifact is
`"ready"`, `"unsupported"` or missing (`NoText`, which a retired configuration
counts as). `native` is whether the store has a text index; without one it is
SQLite without FTS5. A write commits in one step, so Mongo, whose `get_version`
may see a document that is inserted and not pointed at yet, is not claimed. The
index answers exactly here; where its prefilter does not is the matter of
`RegexPrefilter` (`CountsLeak`, section 3). What a query matches is a set of contents; ranking and snippets are
left out. `steady` and `seen` are histories that follow a search for the
properties.

### `Execution`

One call of `VFS.execute`: `CheckExecute`, `ResolveProvider`, `EnterCwd`, then
the code. It makes calls (`Begin`) on two surfaces, the injected verbs of
`FsOperations` and the mounted `SessionFsPort`; a call is charged (`Account`,
atomic with the cap on writes because no await lies between), and goes on with
`Stat`, `AskSize` and `Fetch` (an await each), `Put`, `Remove` or `AskExists`.
`Put` and `Remove` may fail with a conflict: others took the version number (all
five attempts of a write, the only one of a deletion); `Vfs` has those others,
here it may happen at any time. Injected calls overlap; a
mount call blocks the code. The mount's append is a read, charged, and a write,
charged again. `Capture` is the sink of `MontyVfsOS`, the first VFS error.
`CodeReturns`, `CodeFails` and `Timeout` end the execution; Monty's mount call
is a coroutine of the loop and survives (`RunsOn`). That a cancelled `run_async`
takes the injected calls in flight with it is behaviour of Monty, which is
external, and assumed: `LateEffectMeansTimeout` and its theorem rest on it.
`Corresponds` compares the kinds of two errors, as the code does by type name; an
error of the code's own that repeats the captured message word for word would
pass too (`monty_provider.py:159-161`) and is left out, so
`ReportedErrorStoppedCode` says little more than that the kinds agree. Of the
`error_type`s, `search_unavailable` and `internal_error` belong to verbs and
failures that are not modelled. A content is a set of
pieces, its length their number; a VFS operation is one step here. The code may
catch or raise any error it has seen. `cat` stands for `head` and `tail` too,
which show a part of the same read. The searching and listing verbs only
cost an operation and are left out of the state machine, as are the memory limit
and the rendering of the output.

### `PathNames`

`resolve_path` and `_require_canonical` over `posixpath` (external), and how
directories are made of a store that only has files: `Ls` is `_op_ls`,
`MountList` and `MountStat` the mount's `list` and `stat`. A path is the sequence
of its characters.

## 3. What TLC checks

| Run | Question | Result |
|---|---|---|
| `vfs` | three requests out of fourteen calls on two paths, two attempts each; refinement of `FileHistory` | holds |
| `vfs_gc` | two requests, two collections, two recent versions kept; every request ends | holds |
| `mongo` | three requests out of five calls over the Mongo store, with crashes and a collection | holds |
| `sql` | three units of work on one connection, errors, cancellations, a death; refinement of `AtomicStore`; every task is served | holds |
| `blobs` | four calls on one hash, either store, with and without the cache | holds |
| `tiers` | four versions, two tier collections, nine instants | holds |
| `access` | two clients and eight changes they may ask for, two creators | holds |
| `search` | one search of each kind while files, rows and texts change | holds |
| `exec` | one execution, two calls in flight, another client | holds |
| `move_lost` | `MovedVersionKept` | violated |
| `gc_text` | `ReferencedTextKept` | violated |
| `local_blob` | `StoredBlobReadable` on the local store | violated |

Deadlock is not checked: every request runs once and the system may stop.

**What the properties say.** `vfs`: the two tables agree (`PointerIsLatest`), a
CAS succeeds only on top of the version it expects, an acknowledged version
stays and belongs to one caller, a collision error means that others advanced
the file, what a version refers to can be fetched and searched (only a rollback
to a tombstone makes a live version without content, `TombstoneRestored`), a
change without event is a crash, and all of it is a behaviour of `FileHistory`
(`ImplementsHistory`). `vfs_gc`: `RetentionKept` (version 1, the current and
the recent ones), content in use stays, numbers grow, a quiet run is complete,
every request ends. `mongo`: `PointerBacked` (the pointer never dangles, and only
what a collection may take is missing below it), `OrphanMeansCrash` (a document
beyond it has an owner that has not answered), a move writes its destination
once. `sql`: `ImplementsAtomicStore`, `IndexesAgree` (each stored text is once in
the trigram table and, while the index is exposed, once in the word table),
`CancellationCostsOneFailure`, `EveryOperationEnds`. `blobs`: a torn file has a writer or a dead one, an
object store returns the full blob or none, what was deleted in peace is gone.
`tiers`: the first version and the newest one with content stay
(`FirstAndLastContentKept`), and so does every settled version the newest tier
keeps whole (`SettledFreshKept`); a deletion leaves the oldest version of every
window of its run (`WindowsKeepFirst`). `access`: `AuthorityTraced`, `MostSpecificDecides`,
`EntityNamed`. `search`: `ResultsWereVisible` (a hit was readable, live and
matching, each at some moment of the search), `CompleteOrRefused` (what was
there all along is found or the search fails), `ReindexRepairs`. `exec`: never
more versions than operations, on both surfaces and after the end; `cat` never
returns more than the cap and the mount only after a race; the reported error
is one the code ended with; only the call a timeout overtook acts after the
end; an append drops nothing but what was written between its halves.

**Bounds.** `vfs`: the interesting races need a loser that retries and a
winner, a third request to make the last attempt fail, and calls on either end
of a move or copy; three requests, `MaxWriteRetries = 2` and two paths give
all of them (the code's limit 5 only makes the same loop longer; the theorems
of section 4 hold for every limit). `vfs_gc`: path `a` starts with four versions of which the second alone
holds its content, so the first collection takes it while requests may read
it, roll back to it or write its content again; a second collection follows
what the first left behind. `MaxGcRuns` bounds the runs. `mongo`: two attempts
for three requests, one of whose calls expects a version that is not there yet;
path `a` starts with three versions and two are kept, so the collection has
something to take; three requests run without a collection and two beside one
(the constraint `TwoBesideGc`: a third would be a later step of the limit below).
`sql`: three tasks that bring the same write twice or distinct units, a search
among them or not (`MCLoads`: the tasks are alike, so each load is taken once up
to their names, and one search is enough because it changes nothing), one of
them a compare-and-swap that knows an older version than it expects (`Early`), so
that all three refusals occur; the
database is one from before the word index, with a superseded version, a text
without words and a text nothing refers to; one death (`MaxDeaths`) at any
moment, `initialize()` included. A lock with one holder and two in its queue
meets every pair of neighbours in it.
`blobs`: two puts, a get and a delete is the smallest mix in which a put may
truncate what another has written, and all other mixes of four calls are
included; two chunks tell a torn file from an empty and a whole one. `tiers`: a
tier that keeps all for 2 ticks, one that keeps one version every 3 ticks up to
7, so that every version crosses each boundary while the second run is still to
come, and four versions, enough for two in a window besides the first and the
current one. `access`: `MaxRows = 4` changes are a bootstrap, a delegation, a
grant by the delegate and one that replaces a row of either while it is
admitted; the instance has no transactions, the case with states between a name
and its entity (the theorem covers both). `search`: the searched subtree holds one file, whose row is
granted during the search (a search of the root, which meets two files, has the
grant before or after it: `RowsSettled`); beside it lies one whose artifact is of a retired
configuration, so a search of the root meets a straggler until a reindex; the
file is overwritten with binary content, and every other change of a content is a
carry-over from the other file; two versions of each file; `MaxReads = 1` so that a brute-force search of two
files runs out. The model stops with the search. `exec`: three operations are
an append and a call beside it; a content of three pieces is too long to read
and to write, one of two only to read; of five sets of
permissions one allows all, two restrict the file (writing only, reading only)
and two stop the execution before the code runs; four versions of the file (`MaxNumber`) let the other
client write between any two steps of an append; the two calls in flight are
interchangeable (`SYMMETRY`), as are the requests, calls and clients of the other
runs that use it.

**A limit that is not an artefact.** In `vfs_gc` as many versions are kept as
there are requests. With fewer (`MaxRecent = 1`, three requests)
`VersionNumbersGrow` fails: a writer that read the pointer before two others
committed finds its number freed by the collector and moves the pointer back.
With the default of 50 this takes 51 writes during one write. On Mongo the
limit is reached one version earlier: the collector counts an inserted document
that nobody points at as recent, so with `MaxRecent = 1` it deletes the current
version beside a writer in the middle of `put_version`, and if that writer then
withdraws its document the file has none (`PointerBacked` fails in `mongo` with
`MaxRecent = 1`; the run has 2). And
`RetentionKept` needs `MaxRecent > 0`: `list_reclaimable_versions` never
looks at `keep_current_version`, so with `retention_max_recent = 0` the current
row of a file with two versions goes although its docstring spares it.

**Another one.** `WindowsKeepFirst` is about one run. Windows are anchored at
the moment of the run, so they slide, and the survivors of two windows can meet
in one window of a later run and be thinned again. With saves every 54 minutes,
an hourly tier, a late first collection and one every 6 minutes from then on,
evaluating the code's rule by hand leaves the survivors 9 hours apart.

**Fairness.** `EveryRequestEnds` needs weak fairness of every request's next
step (`GcFairSpec`), `EveryOperationEnds` of every task's next step and of
`initialize()` (`FairSpec` of `SqlStore`). The event loop resumes a coroutine
whose await is over, and the store's lock is a FIFO `asyncio.Lock`. Crashes,
errors, cancellations and the collector are never fair. Retries are bounded and
each task has one unit of work, so no stronger fairness is needed.

**The algorithms.** `MCSqlStore` compares the prefilter with its reference on
every pattern of up to three items (characters, escapes, classes, groups, `+`,
`?`, `*`) and every pattern with two alternatives: a literal is in every string
the pattern matches (`LiteralIsMandatory`, `NoLiteralOfAlternatives`).
`MCExecution` does so for paths: what `resolve_path` returns is canonical and
does not change when it is resolved again (`ResolvedIsCanonical`), two canonical
paths of the same segments name one place (`OneNamePerPlace`), and `ls` has one
entry for each file beneath a directory and none without a file, and agrees
with the mount's `list` and `stat` (`ListingsAgree`). These are assumptions TLC
evaluates; where they end, the code does something its callers do not expect:

* the counts of a repetition are taken for text: `\d{1,3}` is searched for as
  `1,3`, so the trigram index hides every match (`CountsLeak`); by the same rule
  `{0,...}` keeps the optional character before it, `\x41` and `\p{Greek}` leave
  their letters, and a class that holds `\]` or `[:digit:]` ends too early;
* `posixpath.normpath` keeps exactly two leading slashes, so `//d` passes
  `_require_canonical` and is another file than `/d`, though the docstring
  (`vfs.py:120-131`) rejects repeated slashes anywhere; of `//` alone
  `resolve_path` makes `///`;
* the row a deleted file leaves hides the directory of its name from the mount's
  `stat` (`DeletedRowHidesDirectory`).

**The violations.** `move_lost`: two requests, a move to `b` and a write to
`b`, both compute version 1; the write wins; the move's second attempt sees
`current_version_number >= _last_dst_attempt` and takes that for its own
commit. That test is for stores without transactions. `gc_text`: the
collector's transaction serialises it with writes, which index again, but not
with a rollback, copy or move that carries a hash it read earlier.
`local_blob`: a put that finds the empty file another put has just created
returns at once, and a get after it reads less than the blob; a put that died
leaves such a file for good.

**Behaviours of the models that no run is about.** The models contain them and
no property forbids them:

* a write to a source between move's `get_version` and its `get_file` is
  tombstoned without being moved (`GetSource`, the write, `GetFrom`,
  `MoveCommit` in `Vfs`), though `file-operations/spec.md:148` speaks of the
  source's current content;
* on Mongo, between the winner's insert and its pointer update every retry of
  another writer computes the same number again, so all attempts can run out
  although nobody else is writing (`InsertVersion`, the other's attempts,
  `PointVersion` in `MongoVfs`; `file-operations/spec.md:203`);
* a version committed after the tier collector has read the clock has a
  negative age and belongs to no band; all such versions but the last are
  reclaimed at once (`racing` in `TierRetention` names them, `SettledFreshKept`
  is about the others);
* two `bootstrap_admin` calls can both find no admin and both grant, and the
  call opens again when the last admin row is replaced (`Admit` of two clients
  in `Access`); `AuthorityTraced` holds because a bootstrap needs no authority;
* the sink keeps the first error of an execution, so a mount append on a missing
  file, which takes the error for an empty file, hides the identity of an error
  that comes later: the result is `provider_error` (`MontyResults`), though
  `execution/spec.md:357` lets it retain its identity;
* `transaction()` says that concurrent store operations inside its block would
  deadlock (`sql_metadata.py:682-684`), but a child task copies the context with
  `_in_txn` set: it does not wait, and may go on after the block has ended;
* on S3 a sweep that deletes the object between a put's `head_object` and its
  return leaves a put that succeeded and an object that is gone (`PutCheck` of one
  call, `DeleteInner` of another in `BlobStores`); `ObjectReadable` speaks of puts
  no deletion overlapped, so it covers the races of puts only;
* `exists` and `stat` answer from the `files` row, which a deleted file keeps, so
  `open(path, "a")` on a deleted file creates nothing (`AskExists`);
* a file that is written again and again during a search may be missing from
  its result: the index no longer holds the content that was enumerated
  (`CompleteOrRefused` speaks of files that nobody wrote).

## 4. What is proved

Every property of every passing run but the two liveness properties is stated by
a theorem that holds for every value of the constants: any requests, calls,
paths, tasks, retry limits, initial tables, without the bounds of the runs. The
assumptions are the named ones of the modules, which TLC evaluates in the runs,
and, where a theorem needs more, a hypothesis it states; those are discussed
below. Each module of theorems has one inductive invariant per argument; the
properties themselves are seldom inductive, because a coroutine acts on what it
has read before an await.

**`VfsProofs`** (run `vfs`): `TypeCorrectness`, `PointersAgree`, `CasSucceedsOnTop`,
`UpdatesAreKept`, `CollisionsAreContention`, `ContentsResolve`, `ChangesAudited`
and the refinement `HistoryImplemented`. Between `get_file` and `put_version` a
request relies on what it has read. `IInv` adds, per request, that what it
has read is not ahead of the tables (`SeenIsPast`), which kind of request can
be where (`KindAt`), that each failed attempt was paid for (`CountsAttempts`)
and that a version it was given is in the table (`HasItsVersion`), and between
requests that no two were given the same one (`OwnVersions`). The argument in
one sentence: the pointer only grows and the numbers below it are all taken
(`PointerIsLatest`), so a number that was computed from an older pointer and
is still free is the one right after the present pointer (`NextFree`), and
inserting it keeps the tables in agreement (`PutKeepsAgreement`). For the same
reason a commit appends to the history, which is the step of the refinement; a
refused insert, a read and an audit event are stutters. `RollbackAssumption`
says of the calls that a rollback names a version of the file itself, as the
signature has it.

**`GcProofs`** (run `vfs_gc`). With the collector that argument breaks: a
collected number is free again, so a request whose number is old enough could be
let in below the pointer. `GcInv` is what needs no more than the code
(`StandingContentSurvives`, `QuietRunCompletes`). The other three,
`RetentionHolds`, `WrittenTextSurvives` and `NumbersGrow`, are theorems about the
behaviours in which every request is prompt (`Prompt`: at its commit no more
than `MaxRecent` versions have passed what it read), with `RetentionInv`: the
tables agree up to what may be collected (`AgreeBut`), what a collection has
listed stays old enough whatever is committed until it is deleted
(`DoomedAreOld`). That hypothesis cannot be dropped (section 3 has the
behaviour that shows it), but it is not needed for few requests: each of them puts a path forward at
most once (`Counted`), so at most `MaxRecent + 1` requests are always prompt
(`FewRequestsArePrompt`), and `RetentionOfFew` has the three properties of all
their behaviours; the instance TLC explores is of this kind. With the default of
50 the hypothesis excludes a request that is overtaken by 51 versions of its file
between its `get_file` and its commit, and nothing else. `RetentionHolds` needs
`MaxRecent # 0`, for the reason in section 3.

**`MongoProofs`** (run `mongo`): `PointersAreBacked`, `OrphansMeanCrashes`,
`MovesInsertOnce`. A path may have one document beyond its pointer
(`AgreeOnto`), and whoever has inserted it has the path to itself, because the unique
index refuses everybody else until the pointer has moved or the document is
withdrawn (`OneWriter`, `HasPending`); nobody leaves a document there but by dying
(`OrphansOwned`); what a move has at its destination is what its next attempt
looks for (`MoveMine`, `StageInv`). Once a collection has begun the number
argument has the same limit as in `GcProofs`, one version earlier (`InTime`).
Two theorems do without that hypothesis: `WithoutCollection`, for any number of
requests, and `PromisesOfFew`, beside a collector, for at most `MaxRecent` requests
none of which moves a file onto itself. Its invariant `FewInv` counts the
requests that have put a path forward (`Advanced`); a move onto itself does so
twice, since its second attempt takes the first one's destination for its own.

**`TierProofs`** (run `tiers`), for every sequence of tiers and without the bounds
on time, versions and runs: `TypeCorrect`, `EndsSurvive`, `SettledSurvive` and the
action property `WindowsSurvive`. A run decides from an old table, so `IInv` says
of the pending decision (`doomed`) why it is still right: it spares the ends of
the history (`Ends`), it holds no version that is fresh (`Settled`), and every
version in it has a stand-in that is not in it (`DoomedReplaced`). That the
ends of what is stored are the ends of the history rests on versions being
numbered in the order of their times (`Ordered`); that a window has an oldest
version is itself proved along the history (`HasOldest`), because an induction
over the set is out of the provers' reach. The lemmas about the evaluator alone
(`EndsNotReclaimable`, `FreshNotReclaimable`, `ReclaimedReplaced`) hold for any
set of versions and any time.

**`AccessProofs`** (runs `access` and `search`), for any principals, paths, clients
and creators, with and without transactions and without the bound on rows:
`AccessTypes`, `AuthorityIsTraced`, `EntitiesOwnNames`, `LongestIsMostSpecific`.
`AuthorityTraced` is not inductive, because a client that has
been admitted writes later: `IInv` adds that what it was admitted for was
given by a change of the log (`Justified`). That stays true while the table
changes under it, since the log only grows; and the table is what the log says
(`UpsertIsLast`), so a check of the table finds an authority of the log
(`AuthorityWasGiven`). `LongestIsMostSpecific` is about the check itself: the
prefixes that match a path end at its slashes (`MatchesAtSlash`), so they are
nested, and the longest is the one all others are beginnings of
(`MatchesAreNested`). About `Search` the same module proves `SearchRefinesAccess`,
so that all of this holds beside searches, and `ResultsAreVisible`,
`SearchesAreComplete` and `ReindexingRepairs`. `SearchInv` says of a search what
it has in hand was readable, live and matching when it was read (`Visible`), and
that it still has, or has reported, each file that was there all along
(`Complete`); of a reindex that a file nobody wrote since is still to be read, or
is the one in hand, or has its artifact and text (`Reindexing`); of the store
that an artifact tells the truth about its content (`ArtifactsTrue`).

**`BlobProofs`** (run `blobs`), for any calls and any number of chunks:
`TornFilesHaveWriters`, `ObjectsAreReadable`, `DeletedBlobsAreGone`. The call that
truncated a file last is its writer, and until it closes the file, the file
holds at least what it has written (`Writer`, `LocalFiles`); an object is whole or not
there and stays while a put stands (`Objects`, `Stored`); after a deletion that
nothing overlapped store and cache stay empty (`Gone`).

**`ExecutionProofs`** (run `exec`), for any code, budget, caps and calls in
flight: `BudgetHolds`, `LongReadsAreRaces`, `ReportsWhatStoppedIt`,
`LateEffectsAreTimeouts` and the action property `AppendsKeepWhatTheyRead`. A call
past its charge has an operation of its own (`Budget`); what survives the end is
the one mount call of Monty that a timeout overtook (`Survivor`); a read knows the
version whose size it checked (`ReadChecked`), an append the one it has read
(`AppendHolds`).

**`SqlProofs`** (run `sql`), for any tasks, units, tables and number of deaths.
`CancellationsArePaidOnce`: a task may meet the dropped connection long after the
cancellation; `IInv` adds that at most one task is at work on the connection or
inside a `transaction()` (`OneAtWork`: the lock, and `_in_txn` set only by its
holder), and that a dropped connection which nobody is rolling back has not been
paid for (`DropIsOwed`); the task that meets it is alone (`Alone`), so it pays a
debt that is still open. `NothingLeftBehind`: when the lock is free, the
connection shows the committed tables, but for the words a start-up has filled in
and not committed. `IndexesStayTrue`: the statements of `index_text` and of a sweep
take the text and its index rows apart for a while; `TextInv` says for the one
task at work how far it is with them, and that otherwise, on the connection and on disk,
they agree. `UnitsAreAtomic`, the refinement of `AtomicStore`: `UnitInv` compares
what the connection shows with what is committed and the part of its unit the
task at work has done (`Faithful`); a commit is the step of the unit, the
statements before it and a rollback are stutters, and a refusal was due by the
committed tables, down to which of the three errors it is (`RefusalIsDue`). Its hypothesis `LiteralsAreMandatory` says that every text a
query matches contains the literal its prefilter asks for; the code guarantees
it for most patterns and not for all (`CountsLeak`, section 3), and for a
pattern without it the search does miss matches. So the refinement is about
cancellation and atomicity; of the prefilter it says nothing beyond the
hypothesis. TLC evaluates it for the
queries of the instance (`QueriesArePrefiltered`).

**Only model-checked.** `EveryRequestEnds` and `EveryOperationEnds`: liveness under
fairness is out of this prover's reach. The algorithms `RegexPrefilter` and
`PathNames`: they fold over the characters of a pattern or a path, and induction
over data is out of reach too. The three violations are counterexamples.

## 5. Plan

The modelling plan is done, and so are the invariants, action properties and
refinements of the runs. What is left to prove is about the abstract
specifications, so that what they promise carries over to the code:

1. `FileHistory`: a history only grows, and an entry never changes, as an
   action property of `FileHistory`, hence through `HistoryImplemented` of `Vfs`.
2. `AtomicStore`: a search's answer is the committed contents that match,
   as an invariant of the abstract store, hence of `SqlStore`.
3. The steps of `PathNames` and `RegexPrefilter` on one character, as lemmas, from
   which an induction by hand gives the results TLC checks up to a length.

Not modelled and not planned: the tier collection over Mongo (the same calls with
the enumeration of `TierRetention`), `sweep_retired_text_params` (an operator's
call), PostgreSQL's connection and text search, tracing, migrations, the demo
and the notebooks; the matching of regular expressions and FTS queries
themselves (third-party engines).
