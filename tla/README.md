# A TLA+ development for the vector database

This directory holds TLA+ models of the vector database's core and of the services
around it that keep state, the TLC configurations that check them on small instances,
and theorems about them that TLAPS proves. Paths below are relative to the repository
(`utils/wal.py` is `src/utils/wal.py` in `PROJECT.json`).

## 1. Inventory

The program is a FastAPI service over PostgreSQL (`api/`, `services/`, `database/`,
`models/`). Vectors are rows of a table; approximate indexes (HNSW, IVF, Vamana, PQ, ...)
are in-memory copies that a *service object* builds, loads and saves. Around this core
stand many independent services. The parts that keep state and meet concurrency or
failure:

| Part | State | Operations | What is hard | Correct if |
|---|---|---|---|---|
| memory-mapped store, `utils/mmap_store.py` | matrix file, `meta.json`, id→row map, free rows, count | add, add_batch, delete, get, flush, close, reopen | crash between data and metadata; growth; get without the lock | rows are never shared; what was acknowledged survives |
| write-ahead log, `utils/wal.py` | buffer per instance; shared file, checkpoint file, lock | log_*, flush, close, read_all, replay, checkpoint, truncate, rotation | flusher thread against callers, other instances' checkpoints, torn writes | fsynced entries are replayed, once, in order |
| vector service and index files, `services/vector_service.py`, `database/*.py`, `services/startup_recovery.py` | rows, loaded indexes, index files, log | create, batch, update, delete, build, save, load, boot | a service per request, crash between commit, log, snapshot and checkpoint | index file + log recover the table |
| HNSW, Vamana and IVF indexes, `utils/*_index.py` | graph and entry point, adjacency file, inverted lists; tombstones | insert, delete, compact, train, search, save, load | deletes that cut a graph, ids inserted again by a replay, training anew | live nodes stay searchable, edges and postings never dangle |
| CRDT sync, `services/crdt_sync.py`, `utils/vector_clock.py` | last-writer-wins set and counter in memory, clocks in a file | insert, delete, delta, merge, resolve, restart | deltas late, twice, out of order; clocks that outlive the data | convergence; no conflict missed |
| batch pool, `services/adaptive_batch_pool.py` | queue, futures, coordinator and dispatch tasks | start, put, submit, stop | cancellation, drain, backpressure | every accepted item is answered, once |
| bulk ingestion, `services/ingestion_service.py` | buffer, periodic task | enqueue, flush, stop | two queues, flushes that meet, swallowed errors | accepted items reach the database |
| query scheduler, `services/query_scheduler.py` | tenants' credits, pool | register, schedule, refill, shutdown | a lock that is not reentrant | every query is answered |
| standing queries, `services/streaming_search.py` | subscriptions and their queues | register, evaluate, stream, unregister | evaluation over a copy while subscriptions come and go | a match is delivered once |
| CDC connector, `services/cdc_connector.py` | event buffer | enqueue_event, consumer loop, flush, stop | two threads flush one buffer without a lock | no event is lost, repeated or reordered per id |
| crawl jobs, `api/routers/web_search.py`, `search_engine/` | frontier, rows, sparse index file | crawl, fetch, ingest, save | crashes, overlapping jobs, limits | every page in reach once, in breadth-first order |
| shard coordinator, `services/distributed_coordinator.py` | futures of one query, a shared pool | search, fusion, shutdown | slow, failing and hanging shards, order of arrival | the global top k of the shards that answered |
| multilevel cache, `services/multilevel_cache.py` | LRU memory, files, object store | get, put, delete, clear, restart | calls between whose steps other calls run | no old value comes back |
| snapshots, `services/pitr_service.py` | snapshot directories, scheduler threads | snapshot, restore, schedule | copying files that change, crashes half way | a restore brings back what there was |
| realtime connector, `services/realtime_connector.py` | seen items and their file | start, stop, poll, ingest | two polling threads, crash while saving | an item is ingested once |
| audit log, `utils/audit_log.py` | list of events, file | log, flush | writes that fail half way, concurrent flushes | the file tells every event in order |

They interact by calls within a process, by threads that share an object (flusher,
consumer, polling and compaction threads), by asyncio tasks (pool, ingestion), and
through files that several service objects of one process use at once (log, index
files). The services of the lower half share no state with one another. Every component
of the repository, modelled or not and why, is in `PROJECT.json` under `components`;
what is hard to test is listed line by line under `hazards`.

## 2. Modules

| Module | Models | Shape |
|---|---|---|
| `MmapVectorStore` | `utils/mmap_store.py` | one action per call or critical step |
| `WriteAheadLog` | `utils/wal.py`, any number of instances | threads and processes interleave; crash |
| `DurableLog`, `WalImplementsLog` | what a log promises, and the mapping to it | abstract specification, refinement |
| `Recovery` | vector service, index files, startup recovery; EXTENDS `WriteAheadLog` | requests in steps, composed with the log |
| `HnswSearch`, `HnswIndex` | `utils/hnsw_index.py`: searches; inserts, deletes, compaction, save and load | pure operators; one action per call |
| `VamanaIndex`, `IvfIndex` | `utils/vamana_index.py`, `utils/ivf_index.py` | one action per call |
| `CrdtSync` | `services/crdt_sync.py`, `utils/vector_clock.py` | one action per method and region; a set of deltas |
| `AdaptiveBatchPool` | `services/adaptive_batch_pool.py` | one action per stretch between two awaits |
| `BulkIngestion`, `QueryScheduler`, `StreamingSearch` | the services of that name | one action per step another thread can see |
| `CdcConnector`, `WebCrawl`, `ShardQuery` | CDC connector, crawl jobs, shard coordinator | as above |
| `MultilevelCache`, `PitrSnapshots`, `RealtimeConnector`, `AuditLog` | the services of that name | as above, with crashes |
| `MC*` | instances for TLC | |
| `MmapVectorStore_proofs`, `WriteAheadLog_proofs`, `Recovery_proofs`, `CrdtSync_proofs` | theorems about the module of that name; the log's refinement is in `WriteAheadLog_proofs` | |
| `Requests_proofs` | theorems about `AdaptiveBatchPool`, `BulkIngestion`, `QueryScheduler` | |
| `Indexes_proofs` | theorems about `HnswSearch`, `HnswIndex`, `VamanaIndex`, `IvfIndex`, `ShardQuery` | |
| `Services_proofs` | theorems about `StreamingSearch`, `CdcConnector`, `WebCrawl` | |
| `Stores_proofs` | theorems about `MultilevelCache`, `PitrSnapshots`, `RealtimeConnector`, `AuditLog` | |

A few definitions sit just before the one they resemble and appear in no next-state
relation (`DeleteForgetsRow`, `AcquireMarksDone`, `LinkOneWay`, ...). Each is a plausible
bug in the definition that follows it, listed in `PROJECT.json` under `mutants` with the
property that notices it.

`MCIndexes`, `MCServices`, `MCStores` and `MCRequests` each join components that share no
state: a behaviour follows one of them, which `focus` names from the start, and the others
stay in their initial states. Nothing is lost, since no step of one depends on another,
and the state spaces add up where an interleaving would multiply them. The fairness of a
component asks nothing of a behaviour that follows another one: its steps are not enabled
in its initial state.

### MmapVectorStore

A call runs as `AddCall`/`BatchCall`, a placement of the current item (`Overwrite`,
`TakeFresh`, `AddReuse`, `BatchReuse`, growth in two steps `GrowStart`, `GrowEnd`), and
`SaveMeta`, which writes a temporary file and replaces `meta.json`. `Restart` stands for
a crash at any step and the reopening that reads `meta.json`. `get()` takes no lock:
`GetLookup` and `GetFetch` are separate steps. The history variable `content` is what
the caller was told; `pend` what the call in progress may or may not have done.

`leaked` records that `add_batch` dropped a reclaimed row, the bug `mmap_batch_lost`
shows, after which row allocation is no longer sound; the invariants say "until then".
A `get()` between a delete and the reuse of the row returns another id's vector: that
follows from the two steps and is not claimed away. What is claimed is that an id that
stays stored keeps its row.

### WriteAheadLog

`buffer[i]`, `drained[<<i, thread>>]` and `file` are where an entry can be. A thread
drains under the buffer lock and appends under the file lock, and holds nothing in
between. A caller does one call at a time (`call[i]`); the flusher of every instance runs
beside it. `checkpoint()` is three steps under the file lock (open and so empty the
checkpoint file, write the time, truncate the log), and a crash may fall between any two.
A crash may leave a prefix of a batch, and with `TornWrites` half a line. `MaxSize`
counts lines, not bytes. `file` is what the disk holds: a line counts as written when
fsync returns.

Known deviations, visible in the antecedents: a rotation renames the log and replay
never reads the renamed file; half a line at the end swallows the first line of the next
append. `SyncedIsReplayed` holds until either has happened. With
`max_rotated_keep` 0 a rotation deletes the file it has just made of the log. An `OSError`
while a batch is written ends the flusher thread and loses the batch
(`utils/wal.py:78-93`); it is not modelled.

`DurableLog` is the promise: a queue per writer, of which a prefix becomes durable in one
step; a checkpoint raises a floor, and the log is emptied only when all in it is below. In
`WalImplementsLog` the flusher's batch and the buffer are the queue, the file is the log and
the checkpoint's mark the floor.

### Recovery

One collection. A service serves one request at a time: it commits the row, applies the
vector to its loaded indexes, logs through its own `WriteAheadLog` (`Own(s)`) and
answers; saving and loading create another instance (`Fresh(s)`), as the code does. An
index and an index file are functions from ids to values: the graph and clusters are
abstracted, since replay works per id. `Apply` is what one entry does to an index,
`Recovered` is `replay()` over a snapshot. `ProcessCrash` includes the boot that follows:
startup recovery looks for logs one directory above where they are
(`services/startup_recovery.py:30`; `test/test_startup_recovery.py:22` builds the layout it
expects), finds nothing, and every service starts without an index.

Index, log and table do not always agree in this code, and two history variables name the
ids for which it gives them up, at the line that does so:

* `untracked`: the row changed and the log lacks it or has it out of order, or an index
  was made without it. Set by a batch create while no index is loaded and by an update of
  the vector alone (neither logs), by a crash that interrupts a request or loses the half
  second of entries that wait in memory, by the explicit flush of a batch that overtakes
  what the flusher holds, and by a request that raises after its commit (`RequestFails`:
  `services/vector_service.py:129`, caught at `:153`; and `:201`, caught at `:227`), which
  leaves the row without an entry and in some of the loaded indexes only. An index lacks
  the rows a build of a collection leaves out (`BuildLimit`, 10000 in the code:
  `models/vector_model.py:179`) and the entries that wait in memory when it is loaded,
  since `load_hnsw_index` replays the file only (`LoadReplay`).
* `diverged`: the index was let hold another value than the row. Set by creating an id
  that exists (the row stays, the new vector is indexed) and by a metadata update (the
  row changes, a loaded index does not).

`DiskRecoversDb` and `LoadedIndexMatchesDb` say that nothing else goes wrong; for diverged
ids the second still asks that index and table agree on which ids there are. A save or a
load may fail at any of its steps (`SaveOrLoadFails`), which leaves half an index file or a
file without its checkpoint; that a call of the log raises half way is not modelled. A
delete cannot raise once it is logged, since both indexes only mark or drop an id. With a
second index kind the checkpoint that one kind's save makes also truncates what the other's file still
needs; `rec_single` has one kind, `rec_save_race` shows what a second service does. Nor do
rotation (replay does not read rotated files) and torn lines (the next entry goes with one)
leave the table recoverable. `DiskRecovers` assumes all of this away by name, and each of
its assumptions is needed: TLC finds `DiskRecoversDb` violated when one is dropped (for
the torn line with two ids, as the one whose line is torn is no longer tracked).

### AdaptiveBatchPool

Actions are what an asyncio task does between two awaits: a coordinator's loop head
(`Loop`), a successful and a timed-out `get` (`Get`, `Deadline`, `GetTimeout`), a dispatch
task's first run (`ReachSemaphore`), its acquisition (`Acquire`) and the return of the
handler (`Return`, with results, an exception or a wrong number of results; a handler that raises
`CancelledError` itself, which passes by `except Exception`, is left out). `stop()` is
`StopNow`, or `StopDrain` and later `StopEnd`, since it awaits `join()` for ten seconds.
Coordinators and semaphores are numbered by the `start()` that made them: a drained
stop's coordinator can outlive it and meet the next one.

`abandoned` are requests in the hands of a coordinator that `stop()` cancelled; their
futures are never resolved and `join()` never returns again. `overlapped` records a
`start()` during a waiting `stop()`, which then cancels the new coordinator and leaves
the pool running with none. `RequestsAnswered` excuses these two. The queue limit counts
queued requests only: the coordinator moves them into dispatch tasks without waiting for
a worker, so there is no bound on pending requests to state. Garbage collection of tasks
nobody references and the statistics are left out.

### HnswSearch, HnswIndex

`graph` maps a node to its layers and a layer to its neighbours. A layer's search is a
recursive function over rounds; one round (`Visit`, `VisitFiltered`) takes the nearest
candidate off the frontier, as the heaps do. A neighbour that is no longer a node raises
(`broken`), and an insert that raises keeps what it had done. Distances are a constant
operator under which no two vectors are equally far from a third: with ties the heaps
would choose by id. The random layer of an insert is any layer up to `TopLevel`.
`SaveAndLoad` writes and reads one of the three formats; the pickled one leaves the
tombstones out, so deleted vectors come back as live ones.

`reinserted` are ids inserted while they were nodes, as replay does. They start without
edges while their old neighbours still point to them: `EdgesMutual` cannot hold for them,
a later compaction leaves dangling edges, and re-inserting the entry point puts the rest
of the graph out of reach. `removed` records a compaction, after which the graph may have
fallen apart, since a removed node's neighbours are not joined.
`FilteredSearchExact` is stated until one of the two, for searches whose breadth has room
for every id, which the doubling of a filtered search then does not narrow.

### VamanaIndex, IvfIndex

`VamanaIndex` is `VamanaVectorIndex`; its sibling `MmapVamanaIndex` inherits a beam search
that is a stub and cannot insert twice. A node is a position in the list of ids, so an id
inserted again gets a second node. `SearchBeam` and `RobustPrune` are modelled over a
metric given as a constant, with alpha a fraction; the start of a search counts as at
distance 0, and a full beam loses its nearest entry, both as the code has them.
`MaxDegree` and `BeamWidth` are the code's `R` and `L`, `Infinity` is its distance to a node
without a vector; the metric need only give a point the distance 0 to itself. In the run the
beam has room for every node; the theorem is about any.
`Reopen` is a new process: the vectors were in memory only and the constructor empties the
adjacency file. `again` are the ids inserted again, of which an older node may be found.

`IvfIndex` follows postings between cells; the assignment of vectors to cells after each
training is a constant, since k-means is arithmetic. Training anew leaves the old postings
where they are, and a delete removes an id's postings in every cell.

### CrdtSync

Every method holds the service's lock and is one step. A delta is a region's state; the
repository has no transport, so any region may merge any delta, late, twice or never. Its
sets and clocks are copies, its counter is the region's own table
(`services/crdt_sync.py:43`), which later inserts of that region change in the delta
(`Grown`), until the delta is sent as text (`SerializeDelta`) or the region gets a new
counter by a merge or a restart (`CutDeltas`).
Stamps come from clocks nobody synchronises and are arbitrary. `merge_remote_state` brings
data without clocks, a restart keeps the clock file and loses the sets, and may find the
file truncated (`clockLost`). A write of that file that fails (`utils/vector_clock.py:92`),
so that a restart finds an older one, is not modelled.

The history variables speak of operations: `seen[r]` are those whose data reached `r`,
`known[r]` those its clock counts. The properties compare the code's registers with these
sets: contents are a function of `seen` (`SetIsLastWriterWins`, `Converged`), clocks of
`known` (`ClocksOrderKnowledge`), and before a restart a region has what its clocks claim
and its counter lies between the inserts it has and those that were made
(`ClaimsAreHeld`): because of the shared table it may count inserts it has not seen.
Equal stamps are decided by the order of arrival, the tie `Converged`
excuses.

### BulkIngestion, QueryScheduler, StreamingSearch

`BulkIngestion`: requests find or make the router's queue on threads, so two first ones may
make two (`FindQueue`, `MakeQueue`, `ReturnQueue`); everything else runs on the event loop
and never gives it up within a flush. The periodic task is started by the environment: no
code of the repository calls `start_periodic_flush`, although
`api/routers/ingestion.py:41-42` speaks of a periodic flush. `IngestQueueDrains` is
therefore stated while the task is alive.

`QueryScheduler`: `Schedule` of an unregistered tenant calls `register_tenant` inside the
lock and blocks for ever (`callPc = "self"`); after that every other caller blocks too.
`QueriesAnswered` is stated for every query but the one that blocks itself; a caller that
never gets the lock has not begun a query.

`StreamingSearch`: an evaluation copies the subscriptions and visits them one after
another, while others register, leave and are streamed. A webhook's timeout that is not a
`URLError` ends the evaluation half way; `MatchesReachSubscribers` speaks of evaluations
that returned. Evaluating threads belong to the environment, for only the tests call
`evaluate_and_notify`.

### CdcConnector, WebCrawl, ShardQuery

`CdcConnector`: `cdcPc[t]` is the statement at which a thread stands between two accesses
to the shared buffer. Two threads that meet between reading and replacing the list lose or
repeat events (`raced`); an event that fails, or is applied after a newer one of its row,
makes the row `spoiled`. The brokers, and the callbacks that embed and ingest, are external
and may raise.

`WebCrawl`: a job runs from its start to the save of its BM25 index; the site, the
outcome of each fetch and the class of each page are inputs. A job may raise at any step
(`JobRaises`), as it does when `urljoin` rejects a link (`crawler/parser.py:24`): it fails
and saves nothing (`api/routers/web_search.py:139`). `CrashCrawls` is the death of the
process. Rows that a failed job or a job beside it cost their sparse entry are `atRisk`;
`Wordless` pages, whose text has no token (`utils/bm25_index.py:60`; tokens are of Latin
letters and digits), have none in the first place.

`ShardQuery`: searches share the pool's threads; a shard may answer, raise or hang
(`hung`). The docstring (`:11-12`) says that a shard that times out is skipped, but
`as_completed` is given no timeout (`:107`); `SearchesEnd` excuses searches while a shard
hangs.

### MultilevelCache, PitrSnapshots, RealtimeConnector, AuditLog

`MultilevelCache`: the levels have locks of their own, so a call is a path of steps in
`cacheCall[c]`, and the eviction it causes works on another key. `doubtful` are keys that
met a failing write, a removal that failed and left a file nobody tracks (`RemoveFile`), a
put that raced a delete or a promotion, or a clear, which leaves the object store and
untracked files; and those whose file did not read back while the object store held an
older value, which is then served and written over the file. A file does not read back when
it cannot be read, or when its value is `Opaque`: `None`, and in a cache with `dim` JSON
whose length is not a multiple of four. That a value decodes into another one is left out.

`PitrSnapshots`: files are sets of writes. A save empties the index file and then writes it
(`OpenIndexFile`, `SaveIndexFile`); in between, and after a crash there, it is `Half` and
does not load. A snapshot copies one file per step while the service saves and checkpoints;
`mixed` are the snapshots that copied half an index, and those that a save, another
snapshot of the same second or a restore overtook. A save overtakes those from which it takes a
write (`Overtaken`): also one that saves an index with less in it than before, which a
restore makes possible. What a snapshot promises is what could be recovered when it began,
once a save then under way has written its index (`Settled`). A restore copies back what the snapshot has, and a
newer checkpoint mark it does not have stays.

`RealtimeConnector`: two threads of one connector exist after a stop that gave up waiting.
`forgotten` are items for which the code gives its promise up: met by two threads, lost
with the file, or beyond the number of items saved. A callback that raises is taken to have
stored nothing; one that raised after storing would be called again.

`AuditLog`: `WriteRaises` leaves lines, or half of one, and keeps the list
(`rewritten`, `torn`); `dropped` are events a crash took from memory or that follow half a
line. The order is that of the list, in which two threads may enter events against the
order of their timestamps.

## 3. Runs

| Run | Question | Bounds | Distinct states |
|---|---|---|---|
| `mmap_rows` | row allocation, durability, stable rows | 3 ids, 1 value, file of 1 row that doubles, 1 reader | 3.2 million |
| `wal_shared` | is an entry ever held twice, are fsynced entries replayed | 2 instances, 3 stamps, rotation and torn writes on | 209 thousand |
| `wal_implements` | does the log implement `DurableLog`, does every entry reach the disk or die with the process | 2 loggers, 1 checkpointer, 3 stamps | 17 thousand |
| `rec_single` | does the disk recover the table, does the loaded index agree | 1 service, every request, 1 id, 2 values, 3 stamps | 1.6 million |
| `indexes` | HNSW: entry point, edges, optimality and exactness of searches; Vamana: what a search finds; IVF: postings against vectors | 3 vectors, 2 layers, 1 neighbour per insert; 3 nodes, 3 points, 1 reopening; 2 ids in 2 cells, 2 trainings, 4 postings | 269 thousand |
| `crdt_regions` | convergence, clocks, conflicts | 2 writing regions that restart, 1 relay, 1 id, 2 stamps, 2 operations, 3 deltas | 816 thousand |
| `requests` | is every request, vector, query and match dealt with, once | pool: 2 requests, 3 starts, 1 worker, queue of 2, batches of 1 or 2; ingestion: 2 clients, 3 vectors, batches of 2; scheduler: 2 tenants, 2 callers, 2 workers, 3 queries; streaming: 2 subscriptions, 2 evaluators, 2 vectors | 162 thousand |
| `services` | CDC: one place, order, drain; crawl: coverage, order, end; shards: top k, end | 3 events of 1 row, 1 consumer, batches of 2; 2 jobs on 4 sites of 5 pages, 1 crash; 2 searches, 3 shards of which 1 may hang, 2 threads | 302 thousand |
| `stores` | cache: newest value, tracked files; snapshots: restores; connector: once; audit: order | 2 clients, 2 keys, 1 entry per level, 3 puts of which the last is opaque, 1 restart; 2 writes, 2 snapshots, 1 restore, 1 crash; 3 items, 2 threads, 1 crash; 2 threads, 3 events, 2 faults | 2.2 million |

Why they are enough. `MaxClock` bounds stamps, so how many entries and checkpoints there
are; two instances suffice for every pair of threads on the shared file. An id's entries
are independent of another id's except through checkpoints, so one id shows every order
of a create, a change, a delete and a save in one service. That a build leaves a row out
takes two ids: `rec_save_race` has them, with a limit of one row, and the theorems hold for
every limit. Three ids with a file of one
row force two growths, a reuse while another id is stored, and a batch that mixes both.
With `M = 1` three nodes form chains in every order, with or without a layer above. Two
operations and three deltas let a region merge a delta that is older than what it has,
and a relay pass on what it was told. Three starts of the pool let an old coordinator run
beside a new one and be followed by a third. One entry per cache level makes every put
evict; two of each kind of thread is every pair that can meet.

Violation runs show where the code disagrees with its documents, comments or tests; each
is a finding in `PROJECT.json`:

* `mmap_batch_lost`: after a delete, `add_batch` acknowledges a vector it does not map.
* `rec_save_race`: a checkpoint truncates what another service logged and the saved index
  lacks.
* `pool_drain`: `stop(drain=True)` clears the flag its coordinator loops on, and then waits
  for a queue that nobody empties.

Fairness, all of it weak, is assumed in four runs. `wal_implements`: the flusher loop, a
started call and `FileLock` polling go on. `requests`: the event loop runs every pool task
that is ready, a handler returns in the end, waiters of a semaphore are served in turn; a
sleeping flush task wakes; the scheduler's callers and workers are scheduled and queries
end. `services`: threads are scheduled, callbacks and fetches return or time out (the
crawler passes a timeout to every fetch), and a shard that does not hang answers. Nobody is
obliged to log, checkpoint, close, start, stop, request, enqueue or crash. `pool_drain` is
stated under the pool's fairness.

Deadlock is checked where a model has an action that is always possible (a crash, a call),
so that none of the bounds stops it by accident. `requests`, `services` and `stores` switch
it off: jobs and searches end, and the bounds on events, puts and queries stop the rest.
That work gets done there is what the liveness properties say.

The type invariants of the store, the log, the regions and the pool are theorems and are
not repeated by the runs. `HnswIndex!TypeOK` is both: what it says of the entry point, the
layers and the order of the keys is more than types.

## 4. Proofs

`Inv` in the table is the inductive invariant, by its name in the proof module.

| Theorem | States | Argument |
|---|---|---|
| `TypeCorrect` | `MmapVectorStore!TypeOK` | with `CountInv`: count is the number of mapped ids |
| `RowsNeverShared` | `RowsNotShared` | `TightInv`: rows in use and free rows are disjoint and together `0 .. k-1`, hence row `count` is unused when no row is free |
| `AcknowledgedSurvives` | `AcknowledgedDurable` | `ClaimInv`: an id the caller knows of has the same row in memory and on disk |
| `RowsStay` | `StoredIdsKeepTheirRow`, an action property | `NobodyMoves`: a step that places an id meets a free or a fresh row, or the id's own |
| `WalTypeCorrect` | `WalTypeOK` | |
| `SyncedSurvives` | `SyncedIsReplayed` | `SyncInv`: stamps are in the past, a checkpointing instance holds the lock, `cutoff` never exceeds the last mark, and every synced stamp newer than the mark is in the file. Assumes that a rotation keeps the file it makes (`RotatedKept`) |
| `NeverTwice` | `OneCopy` | `CopyInv`: an entry waits to be buffered, or is in one buffer, one thread's batch, the file or a rotated file; stamps are never given twice |
| `WalImplements` | `ImplementsLog`, the refinement to `DurableLog` | `MapInv`: what waits is newer than what is written (`QueueOlder`), a log about to be truncated is behind the mark (`FileBehind`), who does not log holds no entry (`WhoHolds`). Assumes `OnlyFlushersWrite`: a caller's flush may overtake its flusher |
| `ServicesImplementLog` | every `Recovery` behaviour is a `WriteAheadLog` behaviour | `OpReady`: a request that will log has an operation |
| `ServicesKeepSynced`, `ServicesLogOnce` | `SyncedIsReplayed` and `OneCopy` in the composition | the above |
| `DiskRecovers`, `LoadedIndexAgrees` | `DiskRecoversDb`, `LoadedIndexMatchesDb`, with one service and one kind of index, no rotation and no torn lines, as `rec_single` | `Agreeing`: the entries of a tracked id reach the file in the order of their stamps (`InOrder`); the newest insert or delete the log has is what the table has (`LogVouches`), and where a checkpoint has made those obsolete the file of the index has it (`FileHasRest`, `JustSaved`); what a loaded index holds agrees (`IndexAgrees`). `RecoveredIs` says what a replay leaves for an id: the outcome of the last entry replayed that inserts or deletes it, or what the file had |
| `PoolInvariant` | `PoolInv` | the types; `PermitsAdd`: free permits and tasks in the handler add up; `Sizes`: a collected batch is below its goal; `Lifecycle`: coordinators later than the last start do not exist; `Futures`: a pending request is unfinished; and `ItemsInOnePlace` |
| `PoolTypeCorrect`, `RequestsInOnePlace`, `JoinSound` | `AdaptiveBatchPool!TypeOK`, `ItemsInOnePlace`, `JoinMeansAnswered` | parts of `PoolInv` |
| `QueriesHaveOnePlace` | `QueryInOnePlace`, `CreditsInBounds` of the scheduler | `SchedInv`: with the types; a tenant that a caller pays for is registered |
| `VectorsHaveOnePlace` | `VectorInOnePlace`, `HandlersHaveQueue` of the ingestion queue | `IngestInv`: queues made and requests about to make one are no more than the clients, since nobody makes one once the router has one; each queue is in the order of arrival, so a batch and what it leaves have nothing in common (`LineCut`) |
| `CrdtInvariant` | `CrdtInv` | the types; `Counted`: operations and restarts stay within their bound and no counter or clock exceeds the number of operations; `SetIsLastWriterWins`; and `DeltasLww`: what a delta carries is the newest of what its region had seen |
| `CrdtTypeCorrect`, `MergeIsLastWriterWins` | `CrdtTypeOK`, `SetIsLastWriterWins` | parts of `CrdtInv` |
| `RegionsConverge` | `Converged` | two entries that are both newest for the same operations have one stamp, and one number unless two inserts tie |
| `ClocksAreKnowledge`, `ConcurrentWritesFound` | `ClocksOrderKnowledge`, `ConcurrentWritesReported` | `KnowledgeInv`: what a region, a delta or the clock file knows of another region is a prefix of that region's operations, and the slot of the clock counts it |
| `ClaimsHeld` | `ClaimsAreHeld` | `HeldInv`: until a restart, a region has seen all it knows of and counts at least the inserts it has seen, and so had the region of every delta, whose counter may grow but not beyond what was made |
| `HnswTypeCorrect`, `EdgesAreMutual` | `HnswIndex!TypeOK`, `EdgesMutual` | `HnswInv`: the types, and `SoundGraph`: edges within a layer lead to nodes of that layer and back. A loop of the code is a run, a function from round numbers to states, and what holds at each round holds at its end |
| `SearchesEndAtOptimum` | `SearchEndsAtOptimum` | `EndsAtOptimum`, for any graph: a round takes the nearest candidate and visits all its neighbours, and a search ends with every near enough candidate taken |
| `FilteredSearchIsExact` | `FilteredSearchExact` | `Whole`: layer 0 connects all nodes, which an insert keeps (`NewNodeJoins`: a new node gets a neighbour, and shedding the farthest cuts only edges that the new node replaces); with room for every id no candidate is ever turned away |
| `VamanaFindsLive` | `VamanaSearchFindsLive` | `VamanaInv`: rows lead to nodes, the nodes and positions saved are those in memory, and an id that was not inserted again is at its position. What an insert or a prune does to the rows beyond that does not matter: the run of a search stays within what n steps from its start reach (`Seen`), and while no candidate falls out of the beam it has expanded all it saw except what is still open (`Thorough`), so that it ends having seen all that can be reached (`SearchFindsAll`) |
| `IvfListsAgree` | `IvfListsMatchVectors` | `IvfInv`: in memory and in the saved file, the postings, codes and list of ids of each id are `Coherent` |
| `SearchesAreExact` | `TopKExact` | `ShardInv`: a shard has one place in a search (`OnePlace`) and what it answered is the first part of what it holds (`Truthful`); then by rank: what a shard cut off has K nearer ids in that shard alone (`Crowd`), so the fusion of the parts is that of the whole (`FuseIsExact`) |
| `MatchesReach` | `MatchesReachSubscribers` | `StreamInv`: a vector has one evaluation (`OneEach`), which has still to visit, or has served, every subscription the vector is due to (`DueInv`), and not yet served those it has still to visit (`HeldInv`) |
| `CdcNothingLost`, `CdcMirrors` | `CdcEventsInOnePlace`, `CdcMirrorsSource` | `CdcInv`: until two threads meet, an event is in one place and those taken are older than those that wait (`Places`), what is applied is older than what else there is for its row (`InTurn`), and the last event of an unspoiled row is unfinished or in the store (`Owed`) |
| `CrawlsBreadthFirst`, `CrawlsCover` | `CrawlIsBreadthFirst`, `CrawlCovers` | `CrawlInv`, for each job `JobInv`: pending pages are of two depths at most, none above a settled one (`FrontOrdered`), and a found page is one deeper than an expanded page that links to it (`Reached`) |
| `RowsKeepSparseEntry` | `RowsHaveSparseEntry` | `SparseKept`: a row whose text has a token lacks its entry only while a job that has it runs, or is at risk |
| `CacheServes`, `CacheTracks` | `CacheServesNewest`, `CacheFilesTracked` | `CacheInv`: for a key that is not `doubtful`, every level and every call under way carries the newest value, and what lies under a file that does not read back too (`KeyServed`) |
| `PitrRestores` | `PitrRestoreBringsBack` | `PitrInv`: what a snapshot that is not `mixed` has copied, with what it will copy if it goes on now, recovers all that could be recovered at its begin (`Unspoiled`, `Prospect`) |
| `ConnectorIngestsOnce` | `IngestedOnce` | `ConnInv`: one thread at most has an unseen item in hand (`InHand`), an ingested one is seen or about to be marked, and is in the file unless counted as unsaved (`SavedIsThere`) |
| `AuditKeepsEvents` | `AuditEventsKept` | `AuditInv`: one thread is past the lock, list and file are each in order, and all the file has is older than the list, unless a write was repeated |

All hold for every number of ids, services, instances, requests, workers, regions, threads,
pages and shards and every bound; the hypotheses of a theorem stand in its statement and in
the table. The assumptions are the named `ASSUME`s of the modules, which TLC evaluates on
every run: bounds are natural numbers, values are not the marks for "none", the names of
shards are distinct and a shard lists its ids nearest first, ids are finite and distances
natural numbers without ties. In each proof an action has a lemma of its own, and the
properties alone would not be inductive: `RowsNotShared` does not say that row `count` is
unused, `JoinMeansAnswered` does not say which requests a returning handler answers,
`SetIsLastWriterWins` does not say that a delta still to be merged tells the truth,
`EdgesMutual` says nothing of an entry point, and `TopKExact` nothing of searches that run.

Some definitions have the form they have so that they can be reasoned about, with the same
meaning: `IvfIndex` counts postings where the code has lists, whose order no operation
looks at; `WebCrawl` takes the links of a page, and `CdcConnector` the events of a batch,
as sets; `ShardQuery` and `HnswIndex!SelectNeighbors` say which elements rank below K
where the code sorts and cuts; `HnswIndex!order` is the order of a dictionary's keys as a
relation; the heap and the loops of `VamanaIndex` are sets and recursive functions over the
positions of a sequence, and its sorting says which element gets which place. Folds and recursive operators became recursive functions.

Only model-checked: liveness and what rests on ENABLED, which are beyond the prover. That is
all the runs ask of `BulkIngestion` and `QueryScheduler`; the theorems add what it rests on,
that a vector or query which is not yet dealt with is still somewhere, and nowhere twice.

## 5. What the models show besides

Excuses in the properties, and the histories behind them, name behaviour that follows from
the code and that its authors may not want. Where no run shows it, it is said here.

* Store: a `get()` that meets a delete and an add returns another id's vector; one that
  meets `_grow` finds no mapping and raises (`utils/mmap_store.py:118`).
* Log: half a line at the end swallows the next append (`utils/wal.py:89`); a rotated file
  is out of replay's reach (`:100`); two services write in the order of their flushes
  (`:82`); flusher threads of a request's service are never stopped (`:34`).
* Service: a write is acknowledged before its entry is durable
  (`services/vector_service.py:135`) and its row committed before the index insert
  (`:129`), where a failure leaves it without one; the batch needs ids the model makes
  optional (`:201`); an index of a collection has ten thousand rows at most when built; a
  load misses what waits in memory.
* HNSW: compaction does not join a removed node's neighbours (`utils/hnsw_index.py:635`);
  re-inserting the entry point empties it (`:475`); a pickled file forgets tombstones.
* Vamana: vectors are not saved, the constructor empties the adjacency file, compaction
  only drops tombstones, search takes no lock. IVF: training again keeps old postings.
* CRDT: `merge_remote_state` leaves clocks behind (`services/crdt_sync.py:297`), equal
  clocks count as a conflict (`utils/vector_clock.py:63`), saving truncates first (`:90`), a
  delta that stays in its process counts inserts it does not have.
* Pool: a `start()` during a waiting `stop()` loses its coordinator
  (`services/adaptive_batch_pool.py:131`); dispatch tasks are not bounded (`:144`).
* CDC: offsets are never saved, a failing embedding drops the deletes of its batch, a
  consumer that outlives `stop()` is revived by the next `start()`.
* Ingestion: nobody starts the periodic task, an exception ends it. Scheduler:
  an unregistered tenant locks everyone out (`services/query_scheduler.py:74`).
* Cache: `clear` leaves the object store, a restart and a failed removal forget files, a
  file that does not read back brings an older object back. Snapshots: one taken during a
  save may have half an index, two of one second share a directory, a restore is not atomic, stop and start leave two scheduler
  threads. Connector: items beyond the limit of a run starve while the listing stays the
  same. Audit: a failed write is written again whole. `AuditService`, which is not
  modelled, redacts from a copy read outside its lock and loses what is logged meanwhile.

## 6. Not modelled, and what is left

`PROJECT.json` says for each component why it is left out. Most of the source is of four
kinds for which a model has nothing to say: numeric code over floating-point vectors (the
other indexes, quantization, embedding, ranking, evaluation), request translation (REST,
GraphQL and gRPC routes, SDKs, command line), adapters to third-party systems, and single
transactions of the database. That bounds the share of the lines a map can cover. Of the
parts that sound concurrent, several are not: `services/raft_coordinator.py` talks to stubs
that always agree, so a node leads for good after its first election and no message can be
lost; region router, materialized views, tiered storage, query cache and quotas are single
dictionary operations under a lock whose threads nobody starts; auto-reindex resets a
counter; the Celery tasks import modules that do not exist.

Left out of modelled components: IVF search, the growth of Vamana's adjacency file, product
quantization and BM25 beside the vector service, reciprocal-rank fusion, the other endpoints
of the crawl router, snapshot verification and restores into another collection.

Left to prove: recovery for several services under the condition that their saves do not
overlap with each other's writes.
