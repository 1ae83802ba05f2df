# Verification of the MMA synchronisation backend

TLA+ models, TLC checks and TLAPS proofs for the part of the repository that
moves fight data from ESPN into the database and out to the API: the sync engine
and its reliability layer (`src/backend/src/sync`), the ESPN client, the fighter
census, the ranking and backfill jobs (`src/backend/src/providers/espn`), the
schedulers that start them, the caches and user lists on top, and the scheduler,
connectors, raw store and identity graph of the data platform
(`src/data_platform`).

- [Inventory](#inventory): the system's parts, their state, their hard behaviours
- [The models](#the-models): which module models which code, and how
- [Runs](#runs): what TLC checks, with which bounds and fairness
- [Proofs](#proofs): what TLAPS proves, from which assumptions
- [Findings](#findings): where the code does not do what it says
- [Not modelled](#not-modelled), [Plan](#plan)

Commands, inside this directory:

    tlc -workers 2 -config MCSyncEngine.cfg MCSyncEngine     (any cfg below)
    tlapm SyncEngine_proofs.tla     (and the other modules *_proofs.tla)

## Inventory

Paths are relative to `src/backend/src` unless they say otherwise.

### How the parts interact

    cron / operator / API          SyncManager (timers, locks, live mode)
             \                         /
              v                       v
             SyncEngine.execute(plan) ----------- CancellationToken
                 |     |        \
     one job     |     |         after_sync --> cache invalidation --> API cache <-- readers
                 v     v                                                  |
       SyncPipeline   StateStore                                          |
        |       |        |                                                |
        v       v        v                                                v
    Provider   Upserts --+--> one SQLAlchemy session per run --------> PostgreSQL
        |                                                                 ^
        v                                                                 |
    ESPN client (cache, in-flight register,                     user lists, preferences
     semaphore, breaker, pagination) --> HTTP

Everything runs on one asyncio event loop per process; several processes (the
API, the scheduler, the command line) may share one database and one Redis.
What happens between two awaits is atomic; everything else may interleave. The
data platform (`src/data_platform`) is a second, self-contained stack: a
scheduler with workers, connectors watched by a health service, a store of raw
payloads, and an identity graph; it shares nothing with the backend but the
subject.

### Components

| Component | State it keeps | Operations | What is hard | What makes it correct |
|---|---|---|---|---|
| **Sync engine and pipeline** `sync/engine.py`, `pipeline.py` | position in the plan, job results, overall status, token; the items handled of the current fetch | execute, run a job, record run / job, cancel | one session shared by jobs, records and checkpoints; a database error poisons it and nobody rolls back; writing a record may fail with only a warning; process death between the commits | order and abort rules of the plan; a verdict that follows from the results; records that reflect what persisted; every run ends; re-running completes the data |
| **State, strategy, store** `sync/state.py`, `strategy.py`, `state_store.py` | `SyncState` per job (status, page, offset, ...), `sync_checkpoints` rows | mark started / completed / failed, update progress, decide, load, save | the offset is relative to the fetch, advances before the commit, and reaches the job whatever the decision was | a resumed fetch never skips a row that did not reach the database; COMPLETED means the listing was consumed |
| **Upserts** `sync/upserts/*` | the session's pending rows, identity rows, the resolver's cache, rankings | resolve ids, insert in bulk, on a refused row roll back and go row by row; replace rankings | check-then-insert against another process, duplicates and missing references in one's own batch; a rollback discards rows of earlier batches and leaves the resolver's cache; a replace split over batches | no bout without its class and competitors; repeated jobs store everything; no reader finds half a replacement |
| **ESPN jobs and provider** `providers/espn/provider.py`, `jobs/*` | none | list a window, expand parents into items, collect references | the offset's unit differs between the pipeline and a job; errors swallowed per parent; caps | what the offset skips is what was handled; what is left out now is stored later |
| **ESPN client** `providers/espn/client.py` | response cache, in-flight register, semaphore, breaker, token bucket | get_json, request, paginate | shared fetches, shielded cancellation, done-callbacks that run later than new registrations, breaker against late answers; servers that repeat pages | no leaked permit, nobody awaits a dead fetch, breaker opens and recovers; a walk ends, with the whole list |
| **Sync reliability** `sync/failure.py`, `reliability.py`, `retry.py` | breaker per provider | classify, run through breaker and retries | half-open probes, errors that do not count, late results | a failed probe opens it again |
| **Cache invalidation** `sync/cache_invalidation.py` | API cache segments | invalidate after a run | only some runs and jobs invalidate | a completed run leaves no stale segment |
| **API cache** `middleware/cache.py`, `api/cache.py`, `api/etag.py` | cached responses with TTL | get, load and set, invalidate, 304 | a load that straddles the invalidation | staleness ends |
| **Discovery** `providers/espn/discovery.py`, `jobs/fighter.py`, `sync/checkpoints.py` | registry of fighter ids, walk checkpoint, window, marks | walk pages, register, consume a window | death between page and checkpoint, consumption under failing fetches and rollbacks | every listed id is consumed in the end, none given up unseen |
| **Sync manager** `scheduler/*` | timers, last results, locks in Redis, live-mode flags | tick, acquire, release, retry, shut down | TTL shorter than a job, failing Redis, kills, cancelled releases | a lock is never taken from a run; jobs keep running |
| **Plan scheduler** `sync/scheduler.py`, `lock.py` | in-memory lock, running map, history | execute, skip, refuse | refused and failing calls | status and history tell what happens |
| **Dependency graph** `sync/dependency.py` | adjacency, in-degrees | add an edge, sort, find cycles | duplicates, cycles | the sort and the search are right |
| **User lists API** `api/v1/users.py`, `watchlist.py`, `notifications.py` | favourites, preferences | add, remove, patch | overlapping requests between read and write | nobody's change is undone |
| **Read API** `api/v1/*`, `db/repositories/*` | none | list, search, group | - | what is stored is shown |
| **Dead letters, history, payloads, clean-up** | single rows | single statements | - | - |
| **Observability and alerts** | counters | record | - | nothing depends on them |
| **Merge and conflicts** `sync/merge_engine.py`, `conflicts.py` | none (pure) | choose a field value | authority ties | order-independent choice |
| **Authentication, rate limiting** | token tables, buckets | issue, refresh, revoke | - | - |
| **Secondary providers** `providers/tsdb`, `octagon` | none | requests | - | - |
| **Data platform: job scheduler** `src/data_platform/scheduler` | heap, locks with TTL, workers, dead letters | register, trigger, cancel, replay, pause, work, retry | a lock outlived by its job, jobs queued without it, a heap reordered under the workers | a lock follows its job; the most urgent job is next |
| **Data platform: connectors** `src/data_platform/connectors` | circuit, token bucket, registry, poll loops, counts | fetch, register, start, stop, poll | late answers, a sleep counted twice, overlapping loops | a bounded rate; earned alerts |
| **Data platform: raw lake** `src/data_platform/datalake` | records in memory, files, archive | store, get, archive | death in the middle of a file | a stored record can be read |
| **Data platform: identity** `src/data_platform/identity`, `resolution` | two maps, merge history | link, merge, unmerge, reverse | reversals out of order | the maps stay inverse |
| **Data platform: lineage, quality, validation, trust** | lists | append, score | - | - |
| **Mobile offline queue** `src/mobile/app/offline/*` | persisted queue | enqueue, process, retry, drop oldest | a full queue | - |
| **Intelligence, prediction** `src/intelligence` | none | batch numerics | - | - |

The full list with status and hazards, each at its line, is in `PROJECT.json`.

## The models

### SyncRun: what a run promises

The abstract specification of one call of `SyncEngine.execute`: jobs end in plan
order, each once, nothing follows a failed critical job, and the verdict is a
function of how the jobs ended (or CANCELLED, when an exception made the engine
give up). Its variables are `active`, `results` and `verdict`. A crash (`Die`)
returns nothing.

### SyncEngine: engine, pipeline, store and session

| Model | Code |
|---|---|
| `pc` | where `execute` stands between two awaits: `idle`, `next` (top of the loop), `fetch`, `batch`, `record`, `save`, `end` (writing the run row), `after` (hooks) |
| `mem`, `stored` | the `SyncState` in memory and the `sync_checkpoints` rows |
| `start`, `pos` | items the provider skipped for the offset; items of the fetched list handed to `_upsert` |
| `pending`, `db` | rows flushed and rows committed; an item is its number in the provider's listing |
| `rejected` | items an upsert counted as an error because the row itself was refused |
| `dropped` | history: items a job had counted when the rollback of a conflict took their rows, and that nothing has committed since |
| `session` | `"ok"`, or `"poisoned"`: a database error without a rollback, after which SQLAlchemy refuses every statement |
| `runRow`, `jobRow`, `reported` | rows of `sync_runs` and `sync_jobs`; items the job's counters call written |
| `stale` | API cache segments that may miss a committed row |

One action is one stretch of code between two awaits that matter: `StartRun`,
`StartJob`, `FetchSucceeds`, `UpsertBatch`, `FinishJob`, `RecordJob`, `SaveState`,
`RecordRunEnd`, `ReturnResult` are the undisturbed path, and each has the
failures the code handles next to it (`StartRunUnrecorded`, `AbandonRun`,
`BreakerRejects`, `FetchFails`, `UpsertFails`, `UpsertSwallowsError`,
`CancelBetweenBatches`, `RecordJobFails`, `SaveStateFails`, `RecordRunEndFails`),
plus `UpsertConflicts` (a row the database refuses), `RequestCancel` and `Crash`.

Four facts of the code shape the model:

1. *Jobs only flush.* Their rows become durable when `_record_job` commits, which
   runs before the checkpoint is saved; a record that fails loses the rows too.
2. *Nobody rolls back a failed session.* After a database error every later
   statement of the run fails; a record that cannot be written is a warning, a
   checkpoint that cannot be loaded or saved ends the run as CANCELLED.
3. *The offset counts what this fetch handled.* After a resume the saved offset
   restarts from the fetch window, so it is smaller than the one resumed from,
   and the decision only replaces it when positive.
4. *A refused row rolls everything back.* The flush of a batch meets an
   `IntegrityError` when another process inserted one of its rows
   (`SharedDatabase`), or, in a single process, when the listing repeats an
   external id or a row's reference is missing (`Conflicting`).
   `session.rollback()` then drops all that is pending, the rows of earlier batches
   included, and the batch goes in row by row, where each row refused again drops
   the ones before it. The job goes on as if nothing were lost. `AfterConflict` is
   what remains of the batch, and `dropped` remembers what does not.

Abstractions: a listing is answered whole or the fetch fails (the swallowed
errors of `fetch_competitions` and the early stop of pagination are hazards on
the list, not in the model); all attempts of a retry policy are one success or
one failure; the breaker of the reliability layer may refuse at any moment; only
the offset of a decision reaches a job, so the sync types with no effect on it
are one value; the API cache's backend is up and event handlers do not raise; a
task cancelled by asyncio is `Crash`. A run started while the row of the run
before still says RUNNING is possible, as in the code. Two runs of one process
at once are not; a second process appears through the rows it commits.

### ESPNClient: the HTTP client

| Model | Code |
|---|---|
| `waits` | the shared future a caller of `get_json` awaits through `asyncio.shield` |
| `phase`, `key`, `attempt` | a fetch task: queued at the semaphore, flying (permit in hand, retries included), fetched or failed with its done-callback still due |
| `queue`, `permits` | the FIFO semaphore |
| `pending` | `_pending`, the register of futures by canonical URL |
| `cached`, `expired` | the response cache, oldest entry first, and its overdue entries |
| `breaker`, `failures`, `cooled` | the circuit breaker; `cooled` says whether `recovery_timeout` has passed |
| `probes` | history: requests the half-open breaker let through |

The end of a fetch (`Succeed`, `GiveUp`, `Refuse`, `RejectOpen`) and its
done-callback (`OnFetchDone`) are two actions, since the event loop may run other
tasks in between: a caller that finds the register holding a finished future
starts a second fetch. A call answered from the cache changes nothing and is not
an action. The token bucket only delays an attempt; `paginate` is module
`Pages`; `health_check` bypasses the register; the cache is enabled, as shipped.

### Pages: pagination

`ESPNClient.paginate` against a server of one of four kinds (pages with their
numbers; pages without; one page over and over, under its own number or under
the number asked for), whose list may change between two requests and whose
items may have no id. `page` is `params["page"]`, `yielded` and `seenIds` are
the two counters of the loop, `walk` says how it ended, `got` is what the
consumer has received over all resumed walks. `EmptyPage` and `YieldPage` are one
turn of the loop; `FailPage` is `get_json` raising; `Resume` is discovery's next
walk, which starts behind the pages it processed and knows none of their ids.

### SyncManager: timers and locks

| Model | Code |
|---|---|
| `up` | the life of a process's manager: up, stopping, down |
| `pc`, `attempt` | where the timer of a job stands (`_run_job_loop`), and `RetryState.attempt` |
| `key` | who the token in the job's Redis key belongs to: nobody (`Free`), a run of a process, or a run that is gone (`Orphan`) |
| `failing` | the monitor's failure count of a job that others depend on |
| `lost` | history: the run went on without its key |

Time appears only where the code compares it: a key may expire under its run
(`ExpireHeld`) once the attempts so far could have lasted `LockTtl`. A Redis
failure at the SET lets the job run and may leave the token there or not; a
cancellation inside the SET or inside the release leaves the key to its TTL.
`Shutdown` cancels every timer at the await it stands at.

### LiveMode: the live-mode loop

The detector's two fields, the loop's local `was_live`, the registry flag of
`events_live`, and whether that job has a timer, under events that come and go,
failing checks, and restarts inside the process. The loop sleeps, asks, or holds
an answer it has not acted on.

### Discovery: the fighter census

| Model | Code |
|---|---|
| `registry`, `consumed`, `stored`, `classes`, `checkpoint` | committed rows of the registry, of its flag, of `fighters`, of `weight_classes`, and of the walk's checkpoint |
| `pc`, `src`, `first`, `page` | where a process is in the fighter job, and its walk |
| `todo`, `got`, `dead`, `silent`, `signals`, `open` | the window being fetched: ids left, profiles, dead ends, failures no counter shows, counters that moved, breaker |
| `batch`, `fresh` | the batch in hand, and the weight classes whose ids its resolver cached from rows that were not committed |
| `rows`, `made`, `marks` | the transaction: fighters and weight classes inserted, ids marked |
| `mislaid` | history: the ids the code loses in the three ways it is known to |

Each process has a session of its own; an insert or a mark of a row another
transaction holds waits, and two that wait for each other are a deadlock that
Postgres ends by aborting one (`BreakDeadlock`). A crash or an exception
ends the job with a rollback (`EndAbruptly`), a cancellation keeps the batches
that ran (`CancelJob`), a walk that fails gives up its source (`WalkFails`); a lost
race rolls back and goes row by row, as in `upserts/base.py`. In that retry a row
goes in (`RetryRow`), or it meets its twin, or it names a weight class (`ClassOf`)
whose row the rollback dropped while its id stayed in the resolver's cache
(`Dangling`): then the foreign key fails. Both failures roll back what the retry
inserted before the row (`RetryFails`). The injection of ranked fighters
(`InjectRanked`) is here, because it writes the same tables.

A walk ends at the end of its listing (`EndWalk`) or in a failure. `paginate` may
also stop early, at its cap or at a server that repeats itself, and
`discovery.py:183` writes COMPLETED then too; this is outside the model
(`CheckpointCovers` would not hold of it), and `Pages` says when it happens. A
single process meets no conflict of its own here: the window and the batch are
sets of ids, and `parsers/fighter.py` fills every column that may not be null.

### Upserts: two processes writing the same rows

Competitions with their weight class and competitors, written through
`BaseUpsert.upsert_batch` by jobs of two processes, one transaction each. The
model keeps what the resolver cached (`known`, `knownWc`) apart from what is
committed and what this transaction flushed, because the rollback of a lost race
resets the last two and not the first. An insert waits for a transaction with
the same key (`Overlap`), and of two that wait for each other one is aborted.

### Rankings: the replacement of a table

| Model | Code |
|---|---|
| `rankings` | the committed rows, each with the job that inserted it |
| `jobAt`, `left` | the batch a job is in and the categories of it still to replace |
| `seen`, `deleted`, `inserted` | what a running DELETE found, and what the transaction removed and added |

A job deletes and inserts the categories of each batch, all in one READ COMMITTED
transaction that the save of its state commits. A DELETE finds what is committed
when it starts (`StartDelete`) and waits for a transaction that deletes one of
those rows (`Replace`). An entry whose fighter the database does not know makes no
row, but the DELETE of its category has run (`RowsOf`). `Shown` is what the API
groups for a reader.

### RecordsBackfill, HistoricalEvents: two repeated jobs

`RecordsBackfill`: the target query, the fetch of every selected fighter with one
of three outcomes, batches, and the status table with its retry budget, against
a fighter job of another process that writes records at any time; a run cancelled
between two batches commits those that ran (`Cancel`), one that dies commits none.
`HistoricalEvents`: the references of each league in order, which may name other
leagues than the one asked, one hook per event under the league its reference
names, the cap, the fetch of each hook, and the upsert that needs the promotion. In
both a failed request leaves something out without an error, and only the next
run can make up for it.

### SyncBreaker, PlanScheduler, DependencyGraph: the rest of the sync package

`SyncBreaker` is the provider breaker of `sync/failure.py` as the pipeline drives
it: a check before the fetch, a success after it, a failure for any counted
exception of the job, with several jobs in flight. `PlanScheduler` is
`SyncScheduler._execute_job`: the lock of plan and provider, the refusal of an
unknown plan, the running map, the bounded history, failures and cancellation.
`DependencyGraph` adds edges one by one and then runs Kahn's algorithm or the
depth-first search step by step, in every order a Python set may give. What a
step frees joins the queue in the order of the node's dependents (`InOrder`).

### APICache: readers against invalidation

A reader's get, load and set with its ETag, the commit of a sync, the scan and
the deletes of `delete_prefix`, the TTL, and a Redis that fails at any call
(module of `api/cache.py`, `middleware/cache.py`, `api/etag.py`). A payload is
the database version it was loaded from, so staleness is a comparison.

### UserLists: favourites and preferences

Overlapping requests of one user: each reads in one step and writes in another.
The preferences are written as SQLAlchemy writes them, the fields that differ
from what the request read; the favourite is added through two routers, of which
one looks first. Unique constraints end the second insert in an error.

### JobScheduler, Heapq: the scheduler of the data platform

`JobScheduler` models registration, interval timers, the heap of queued jobs, the
workers with their retries, the locks with a TTL, dead letters and the operator's
calls. `Heapq` is Python's heap as two operators on the list behind it, because
`cancel` filters that list without restoring its order. Its loops walk one path
of the tree; here the path is a set of positions (`Path(i)`: `i` and its
ancestors; the way down: the positions all of whose ancestors are `Preferred`), so
that the same definitions can be checked and proved about. `timeout_seconds`,
`concurrency_limit`, `depends_on` and the cron trigger are declared in the code
and read by nothing, so they are not in the model.

### Connector, HealthPoll, DataLake, IdentityGraph: the rest of the data platform

`Connector` is `BaseConnector.fetch`: circuit check, token bucket and start of the
request run without an await and are one step, the answer is another. Tokens are
counted in the ticks that refill them, so that fractions are whole numbers; the
bucket's `time.sleep` blocks the event loop, so time passes inside the step.
`HealthPoll` is the registry, the manager and the health service; a second
`start` adds a second loop, and `stop` reaches the last one only. Its callback
`on_alert` is assumed not to raise. `DataLake` is a raw store with memory, files
and archive, and a process that may die in the middle of a file; record ids are
unique, as its callers make them. `IdentityGraph` is the two maps of the identity
package with links, merges and both kinds of reversal; callers link a source id
once, as the code that builds it does.

### Services: components that share nothing, in one specification

Fifteen of these modules share no state with each other, so `Services` holds an
instance of each (`INSTANCE ... WITH`) and a variable `part` that chooses, in the
initial state, which of them moves. The others rest in their initial state.
Invariants are stated for the part that moves; liveness properties carry
`part = ...` and the fairness of their component. `Services` leaves every constant
open, so that theorems about it hold for all values; `ServicesAssumption` says
what kind of value each has, component by component. `MCServices` extends it and
defines the small values that the cfgs assign.

## Runs

| Run (cfg) | Question | Bounds |
|---|---|---|
| `engine_safety` (MCSyncEngine) | Do checkpoints stay behind the data, is a completed run complete and its cache fresh, and is every run an abstract run, under faults and conflicts anywhere? | a critical resumable job with 5 items in pages of 3 and batches of 2 (last page and last batch not full; one refusable item, one listed twice), a non-critical job with 2 items, any 3 faults, a concurrent process, modes auto / RESUME / FORCE (3.1 million states) |
| `engine_live` (MCSyncEngineLive) | Does re-running the plan settle every item once faults stop, and does every run end? | 3 and 1 items, one listed twice, 2 faults, a concurrent process inserting rows |
| `engine_nested` (MCSyncEngineNested) | Does resuming leave no gap for a job whose parents embed several items? (No: finding.) | 2 events with 2 bouts, 1 fault |
| `client` (MCESPNClient) | Do permits and the register stay consistent, does an open breaker wait for its cool-down, is every caller answered, does the breaker close? | 2 callers, 2 URLs, 3 fetches, 2 permits, 1 retry, 1 cache entry, a breaker that opens at 1 failure, 2 faults |
| `client_refetch` (MCESPNClientRefetch) | Is a URL in flight never fetched again? (No: finding.) | as `client`, threshold 2, 4 faults, callers and fetches symmetric |
| `manager` (MCSyncManager) | Is a lock never taken from a running job, do jobs that fit the TTL run once, do jobs keep running, does a shutdown end? | 2 processes, a job that fits the TTL and one that does not and depends on it, 1 retry, 1 Redis failure or kill, 1 shutdown |
| `job_scheduler` (MCJobScheduler) | Does a lock follow its job, does none leak, is the most urgent job next? | an interval job and one whose connector is unknown, 2 workers, 3 queued entries, 1 dead letter and 2 operator calls (1.5 million states) |
| `discovery` (MCDiscovery) | Is no checkpoint ahead of the registry, no id given up unseen, and does the census end? | 2 processes, a source of 2 pages, an id met late, a ranked id, an unknown id, two profiles of one weight class that is stored before or not, batches of 2, 1 fault |
| `discovery_stored` (MCDiscoveryStored) | Are only stored ids consumed? (No: finding.) | as `discovery`, no weight classes, no faults |
| `services` (MCServices) | Do the fifteen components of MCServices keep their promises? | each with the smallest instance below (129 thousand states in all) |
| `records_race` (MCServicesRecords) | Does no absence row survive beside a record? (No: finding.) | the backfill of `services` |
| `rankings_split` (MCServicesRankings) | Has a job that ends stored each category whole? (No: finding.) | the rankings of `services` |

What `services` checks, and on what:

| Property | Component and instance |
|---|---|
| `FailureReopens` | SyncBreaker: 2 jobs, threshold 2, 1 probe |
| `StatusIsTrue` | PlanScheduler: 3 calls, 3 definitions of which two share a lock and one is not runnable, a history of 2 |
| `FlagFollowsDetector` | LiveMode: 2 events, 1 restart |
| `AnswersAreRight` | DependencyGraph: every graph of 3 entities with at most 4 edges, duplicates included |
| `MapsAgree` | IdentityGraph: 3 entities, 2 source ids, 2 merges |
| `BoutsAreComplete`, `EventuallyStored` | Upserts: 2 processes, 2 batches each, 4 bouts, 2 classes, overlapping |
| `EventuallyStored` | HistoricalEvents: 3 leagues, 5 events, shared references, one under a league that was not asked, a cap of 4, 2 failures |
| `BackfillSettles` | RecordsBackfill: 3 fighters, a window of 2, batches of 1, a budget of 2, 2 faults |
| `StaleEnds` | APICache: 2 readers, 1 key, 2 commits, 1 Redis failure |
| `StoresLoseNothing` | Rankings: 3 jobs, 3 categories (one without promotion), an unknown fighter, batches of 2, 1 fault; UserLists: 2 requests, 2 fields, 2 values; DataLake: 3 records, 2 crashes |
| `SourcesAreWatched` | Connector: 2 fetches, 2 ticks per token, a burst of 2, a circuit of 2 failures, 7 ticks; HealthPoll: 1 connector, 2 loops, an alert after 2 misses, a history of 3 |
| `WalksEndWhole` | Pages: 5 items in pages of 2, a cap of 4 pages, 2 changes, 1 failure, every kind of server |

Why the bounds are enough. *Engine:* three faults are one to leave a partial
checkpoint, one to disturb the resumed run and one to disturb the run after it,
which is where offsets relative to different fetches meet; five items in pages
of three and batches of two give a middle and a partial last batch and offsets
on both sides of a page border and inside a page. *Client:* three fetches are
what a URL needs for a finished, a current and a repeated fetch to coexist; with
a threshold of one, two faults open the breaker and fail the probe or a late
request after it. *Manager:* one process to lose the lock and one to take it;
orphans come from the kill, the shutdown or the failing release. *Discovery:*
two pages to die between, two processes to race over a fighter, and one id of
each kind an answer can be. *Rankings:* two jobs that overlap and a third whose
rows they find, a category cut by a batch border. *Pages:* a partial last page,
and the cap above the number of pages. *Job scheduler:* three entries make the
smallest heap whose order a removal can break.

Every bound (`MaxFaults`, `MaxOps`, `MaxChanges`, ...) limits injected faults,
operator calls or the size of a list, never the length of a behaviour, but for
`MaxClock` of `Connector`, which ends time, `MaxVersion` of `APICache`, which
ends the commits ("once the syncs stop"), and `MaxEdges` and `MaxMerges`, which
end the edges of a graph and the merges of an identity. `Fetches` bounds how many
fetch tasks exist at once.

Deadlock is checked in all runs but four. `job_scheduler` may stop when the
operator's calls are used up and no interval job is registered; in `services`,
`records_race` and `rankings_split` some components finish (a sorted graph, a
walk that ended, jobs that committed).

### Properties worth knowing

- `CheckpointBehindData`, `NoGapWhenCompleted`: no sequence of faults, conflicts,
  resumes, cancellations and crashes makes a later run skip an item that is not
  accounted for. `Accounted` means committed, counted as an error (`Settled`), or
  dropped by a conflict's rollback after it was counted: the third is a defect of
  the code, which the properties name instead of excluding it by an assumption,
  and they say that there is no other. The properties are stated for the
  `Faithful` jobs, those whose offset has the unit the fetch uses; for the others
  `engine_nested` shows that they fail. A database error taken for a bad row does
  not settle anything: those items stay unaccounted for, and the poisoned session
  is what keeps the checkpoint from claiming them.
- `EventuallySynced`: the dropped items come back with a later run. A conflict with
  a row of one's own batch counts as a fault, so that it stops like every other:
  an item the provider lists twice in one batch for ever keeps dropping the same
  rows, and for it the property would not hold.
- `CompletedRunIsComplete` relates the run's row, the jobs' rows, the checkpoints
  and the data, although writing each of the rows may fail quietly.
- `CompletedRunLeavesNoStaleCache`: a failed or killed run commits rows and
  invalidates nothing; the next completed run covers it.
- `ImplementsRun`: refinement of `SyncRun` through the mapping `active <- pc #
  "idle"`, `verdict <- overall` when idle.
- `PendingIsDue`, `OpenUntilCooled`: late callbacks and late answers of the
  client do no harm, whichever order they come in.
- `LockProtectsRun`: no release, retry, kill, restart or leftover of another
  process takes the lock of a running job; only the TTL and Redis can.
- `ConsumedAreSettled` names the three ways in which discovery may lose an id (a
  silent failure taken for a dead end, a rollback after the insert, a weight class
  that was rolled back), and says there is no fourth.
- `StoresLoseNothing`: a category of the rankings changes only when a job ends that
  replaced it, and then holds of this job each row of the last of its batches with
  that category, and no other: no reader finds a DELETE without its INSERTs or half
  of a batch, whatever overlaps, fails or is cancelled. A category can still be
  left empty, by a batch whose fighters are all unknown (`CategoriesStayFilled`, in
  the findings). A preference changes only by a request that names
  it; a payload once stored can be read through crashes and archiving.
- `AlertsAreEarned`: the counts, which survive stops, restarts and
  re-registration, never run ahead of the history they are drawn from.

### Fairness

- `SyncEngine!FairSpec`: weak fairness of `Begins` (cron and operators start runs
  again) and of `Proceeds` (the event loop keeps running the engine). What
  disturbs a run (`Disturbs`: faults, cancellation, crashes, races) is never
  obliged to happen.
- `ESPNClient!FairSpec`: the event loop runs every task and each attempt ends
  (`Progress(f)`, the httpx timeouts), time passes (`Expire`, `CoolDown`) and jobs
  keep calling (`Call`); failures are never obliged. A success is among the
  outcomes `Progress` forces: with `MaxFaults` exhausted an attempt can only
  succeed, which is what "once failures stop" means.
- `SyncManager!FairSpec`: timers fire, attempts end (`wait_for` bounds them),
  Redis answers and keys expire. Nothing starts, stops or kills a process.
- `Discovery!FairSpec`: a process that runs goes on, and its timer starts the next
  job. This is strong fairness, because a step may wait for a row again and again
  and Postgres grants locks in the order they were asked for. Deadlocks end
  (`BreakDeadlock`).
- `Upserts`: weak fairness of a process's steps and strong fairness of each
  batch's writes, for the same reason.
- `APICache`: a request is served and an entry's TTL ends. Commits stop at
  `MaxVersion`.
- `RecordsBackfill`, `HistoricalEvents`: the job is run again and again and its
  requests end; failures stop at their bound.

## Proofs

`SyncEngine_proofs` proves for every plan, listing, batch and page size, set of
modes and number of faults:

| Theorem | States |
|---|---|
| `TypeCorrect` | `Spec => []TypeOK` |
| `CheckpointsStayBehindData` | `Spec => []CheckpointBehindData` |
| `CompletedLeavesNoGap` | `Spec => []NoGapWhenCompleted` |
| `JobRowsReflectPersisted` | `Spec => []JobRowReflectsPersisted`: recorded rows are committed, or dropped by a conflict |
| `ConflictFreeRecordsPersist` | `Spec => []RecordsArePersisted`, when `~SharedDatabase` and no row is `Conflicting` |

The assumption is `EngineAssumption` (the constants are what their comments say;
TLC evaluates it on every engine run). The first four hold with a concurrent
process and conflicting rows; what these do to the data is in the properties, by
`dropped`. The last one bounds the finding about
`RecordsArePersisted`: conflicts are its only cause. No run checks
`JobRowReflectsPersisted`, which the theorem states: no failing commit, crash or
cancellation separates a job's record from the rows it counts.

`CheckpointBehindData` is not inductive: it speaks of the saved checkpoint only,
while the run that saves it works on a copy in memory, on a window that depends
on the offset it loaded and on rows not yet committed. The inductive invariant
`DurableInv` follows the rows through the run:

- `StoredCovered`: the items a saved checkpoint skips, and all items of a
  COMPLETED one, are accounted for;
- `FetchFresh`, `WindowCovered`: while a job fetches and upserts on a usable
  session, everything up to its position is accounted for or pending;
- `JobCovered`: when the job has ended, what its checkpoint in memory will claim
  is accounted for or pending while the session is usable (a poisoned session can save
  neither rows nor checkpoint);
- `NothingPending`: outside a job nothing is pending;
- `JobRowReflectsPersisted`, and `TypeOK` with `JobEnded` (a job has a result
  when it is recorded).

The arithmetic is kept in lemmas about `FetchStart` and the batch windows: a
fetch never starts after its offset when the checkpoint counts what the fetch
skips, and a smaller offset never skips more.

The same module proves the refinement, for every plan and with or without a
concurrent sync process, and what a completed run says:

| Theorem | States |
|---|---|
| `EngineImplementsRun` | `Spec => ImplementsRun` |
| `CompletedRunsLeaveNoStaleCache` | `Spec => []CompletedRunLeavesNoStaleCache` |
| `CompletedRunsAreComplete` | `Spec => []CompletedRunIsComplete` |

The invariant `LoopInv` ties the place in the loop to the results: before and
inside a job no result aborts the plan and the job is the next of the plan; after
a job only the last result may abort it; after the loop the status is one of the
abstract verdicts. Each action is then a step of `SyncRun` (the start of a run,
the end of a job, the return, a crash) or a stutter.

That a completed run is complete needs to know when its records became true
(`RecordInv`). `RecordsTrue`: inside the loop, on a usable session, the jobs
reported so far as COMPLETED are recorded as such and their items accounted for. Nothing
is said once a job has failed, because a plan may name a job twice and its record
may be that of an earlier completion. `LoopSession`: a session that is unusable at
the top of the loop was so from the start, because later the checkpoint could not
have been saved and the run would have ended. `CompletedMem`: a job reported as
completed has a completed checkpoint in memory, so that `DurableInv` gives its
items. `EndTrue` carries this over the loop's end, `RowOpen` says that the run's
row is final only after it.

`ESPNClient_proofs` proves, for any number of callers, URLs and fetches and any
permits, retries, threshold and cache size (`ClientAssumption`):

| Theorem | States |
|---|---|
| `ClientTypeCorrect` | `Spec => []TypeOK` |
| `PermitsAreConserved` | `Spec => []PermitsConserved` |
| `PendingStaysDue` | `Spec => []PendingIsDue` |
| `BreakerOpensInTime` | `Spec => []ClosedBelowThreshold` |
| `CacheStaysBounded` | `Spec => []CacheBounded` |
| `BreakerStaysOpen` | `Spec => OpenUntilCooled` |

The invariant `ClientInv` adds what these need of each other: the semaphore's
queue holds only waiting tasks and each once (`QueueInv`; otherwise admitting one
would not change the number of flying tasks by one), a task in existence has a
URL (`KeyKnown`; its callback indexes the register with it), and expired entries
are entries (`CacheInv`). Permits are counted with the cardinality theorems of
`FiniteSetTheorems`; `PendingIsDue` is inductive only together with the key: the
callback of one fetch must not be able to free a fetch registered elsewhere.

`SyncManager_proofs`, for any processes, jobs, dependencies, durations and bounds
(`ManagerConstants`, `KeyMarks`):

| Theorem | States |
|---|---|
| `TypeCorrect` | `Spec => []TypeOK` |
| `LocksProtect` | `Spec => []LockProtectsRun` |
| `ShortJobsExclusive` | `Spec => []ShortJobsRunOnce` |

That two runs of a short job exclude each other follows from `LockProtectsRun`
once neither has lost its key: `ShortRunsKeepKey` says so while Redis works, and
is inductive with the lemma that no attempt of such a run reaches the TTL.

`Discovery_proofs`, for any sources, pages, windows, batches and processes
(`DiscoveryAssumption`):

| Theorem | States |
|---|---|
| `TypeCorrect` | `Spec => []TypeOK` |
| `CheckpointsCover` | `Spec => []CheckpointCovers` |
| `ConsumedSettled` | `Spec => []ConsumedAreSettled` |

`CheckpointCovers` speaks of saved pages; `WalkersCover` adds that a walk in
progress has registered every page from the one it started at, and that this
one is not past a saved page (`WalkInv`). `ConsumedAreSettled` needs `Tidy` of
every process (`SettleInv`): what its marks, rows, dead ends and batch may hold
at each place of the job, so that a commit only publishes ids that are settled or
mislaid; a lemma
says that no step of one process unsettles what another has in hand.

`JobScheduler_proofs`, for any jobs, workers, priorities, retries and bounds
(`JobSchedulerAssumption`):

| Theorem | States |
|---|---|
| `TypeCorrect` | `Spec => []TypeOK` |
| `LockedJobsUnique` | `Spec => []LockedJobsAreUnique` |
| `LocksDoNotLeak` | `Spec => []NoLockLeaks` |
| `MostUrgentIsNext` | `Spec => []MostUrgentNext` |

The types need `StoppedIsOff` (a scheduler that does not run has no worker at a
job, so that `start` finds none). The two properties of the locks are one
invariant of each job, `Tracked(j)`: unless the job got around its lock it has at
most one copy, in the heap or with a worker, and a copy means the lock is held; a
lock that no `cancel` left behind has a copy. Each step is then a fact about the
number of copies. The order is the work: a push and a pop of `heapq` keep the
heap's order (`Ordered`: nobody is sooner than its parent) and rearrange its
entries. What rises stops below the first ancestor that is not later and moves
those it passes down by one position (`RiseStops`, `RiseOrders`); what sinks
follows one path to a leaf and leaves a heap that is wrong at that leaf only
(`DownIsPath`, `SunkOrdered`), from where it rises. `OrderedHead` says that nothing
in such a heap is sooner than its head. These lemmas hold for heaps of any size:
where the code loops, they argue about the least or greatest position of a set,
which takes the place of induction.

`Services_proofs`, `DependencyGraph_proofs` and `Platform_proofs` are about
`Services`. Each first shows that a behaviour of the composition is one of the
component (`BreakerRuns` and the other `...Runs`), and then argues about the
component alone, under the part of `ServicesAssumption` that the theorem names.
TLC evaluates `ServicesAssumption` on every run of `MCServices`.

| Theorem | States | Assumes |
|---|---|---|
| `BreakerTypes`, `TrippedCount` | types of `SyncBreaker`; a breaker that left CLOSED keeps a full count of failures | `LimitsAreNat` |
| `ProbeFailureReopens` | `Spec => FailureReopens` | `LimitsAreNat` |
| `StatusTells` | `Spec => []StatusIsTrue` | `SchedulerFits` |
| `FlagFollows` | `Spec => []FlagFollowsDetector` | `NoEventIsNone` |
| `BoutsStayComplete` | `Spec => []BoutsAreComplete` | `WritersFit` |
| `TableLosesNothing`, `FieldsByName`, `RecordsStay` | the three parts of `StoresLoseNothing` | `ListingsFit`; `NoRowIsNoRow`; nothing |
| `StoresAreSafe` | `Spec => StoresLoseNothing` | `ListingsFit`, `NoRowIsNoRow` |
| `WalksAreWhole` | `Spec => []WalksEndWhole` | `PagesFit` |
| `PlansAreRight` | `Spec => []AnswersAreRight` | `GraphFits` |
| `MapsStayInverse` | `Spec => []MapsAgree` | nothing |
| `RateBounded` | a connector's requests stay within the burst and twice the rate | `RatesAreNat` |
| `WatchIsSound` | `Spec => []SourcesAreWatched` | `RatesAreNat`, `PollsFit` |
| `TypesAreKept` | `Spec => []TypeOK`, of all fifteen components | `ServicesAssumption` |

What the invariants add to the properties:

- *SyncBreaker*: the code trips on the count and not on the state, so
  `ProbeFailureReopens` is the count of `TrippedCount`.
- *PlanScheduler* (`PlansInv`): which calls hold a lock and a running record at each
  place of a call (`LocksTell`); the history holds ended calls, each once, and
  drops none before it is full (`HistoryTells`).
- *LiveMode* (`FlagIsCompared`): between the question and the comparison the flag
  still has the value of the last answer.
- *Upserts* (`WritersInv`): at each place of a job what its session holds has its
  class and will have its competitors (`KidsFollow`, `TodoIsKnown`, `FlushedFit`),
  two sessions share no new bout (`SessionsApart`), and what is committed is
  complete (`CommittedFit`).
- *Rankings* (`TableInv`): a category that a job has touched has, in its
  transaction, the rows of exactly one of its batches (`Touched`), and that is the
  last so far which lists the category (`Stands`); a row that a job holds deleted is
  still committed and held by nobody else (`HeldAreThere`), which is what the row
  locks are for; and what it inserts is new (`OwnAreNew`).
- *UserLists*: a row that some request has read is still there. *DataLake*:
  `stored \subseteq files`.
- *Pages* (`WalkInv`): while the list rests, everything before the next page has
  been got and the recognised ids are from there (`PagesGoUp`); how many pages a
  repeating server can have given (`StuckStops`, `EchoStops`).
- *DependencyGraph*: for the sort, in-degrees count the dependencies that are not
  in the result, and the queue holds exactly the nodes without any
  (`CountsAreRight`, `QueueIsFree`). When it ends early, the nodes left over are a
  set in which each waits for another, and in a finite graph such a set contains a
  cycle (`WaitingIsCyclic`: going back through it more often than there are nodes
  meets a node again). For the search, while it has found no cycle, the nodes it
  has finished have only finished dependents and no waiting set among them
  (`NoCycleYet`), so that a search that finds nothing proves the graph acyclic; and
  what it reports is read off its path (`CyclesAreReal`).
- *IdentityGraph* (`MapsAreMaps`): the two maps have the domains of Python's dicts.
  A merge moves the ids of an entity that may not exist any more.
- *Connector*: the budget `requests * TokenTicks + tokens <= Burst * TokenTicks +
  lastRefill + clock`. A tick of sleep is counted in both of the last terms, which
  is why the bound is twice the rate.
- *HealthPoll* (`MissesAreKept`): a connector's misses lie in the polls of the kept
  history after its last answer, whichever loop made them.
- *RecordsBackfill*, *HistoricalEvents*, for their types: a selected fighter has a
  retry left although another job writes beside the run (`QueueIsWithinBudget`); a
  run asks for events only when it has asked every league.

Every invariant and every action property of the passing runs is thus a theorem
for all values of the constants. Only model-checked: the liveness properties
(`EventuallySynced`, `RunEnds`, `EveryCallerAnswered`, `BreakerRecovers`,
`JobsKeepRunning`, `ShutdownEnds`, `CensusEnds`, `StaleEnds`, `EventuallyStored`,
`BackfillSettles`), because fairness and ENABLED are out of the prover's reach.

## Findings

A run each; `PROJECT.json` quotes the line each one contradicts, and the run's
trace is the shortest path to it.

1. `engine_nested`: the pipeline checkpoints a number of competitions
   (`sync/pipeline.py:249`), the competition job passes it on as a number of
   events (`providers/espn/jobs/competition.py:32`); a resumed run skips bouts and
   marks the job COMPLETED.
2. `client_refetch`: `_on_fetch_done` (`providers/espn/client.py:455`) removes
   whatever future is registered for its URL, also a successor's.
3. `discovery_stored`: the row-by-row retry after a lost race rolls back rows of
   the batch that was inserted before, and the fighter job then marks the whole
   batch as consumed (`jobs/fighter.py:185`): those fighters are never offered
   again. The same happens to a fighter whose weight class was rolled back under
   the id the resolver cached (`upserts/base.py:283`).
4. `records_race`: the backfill writes an absence or failure row without looking
   for a record another job committed meanwhile (`upserts/fighter.py:329`).
5. `rankings_split`: a category cut by the border of two batches keeps the second
   part only, because the second batch's DELETE removes the rows of the first
   (`upserts/ranking.py:69`).

Others are stated as definitions that no run checks; giving one to TLC as an
invariant or property of the component shows the disagreement:

| Definition | What the code does |
|---|---|
| `RecordsArePersisted` (SyncEngine) | any `IntegrityError` rolls the whole session back (`upserts/base.py:137`, `:179`), also one that a single process causes by a duplicate id in a batch or a missing reference (`SharedDatabase = FALSE`, `MaxFaults = 1` suffice): rows of earlier batches are gone, and the job's counters, its checkpoint and its COMPLETED record still claim them |
| `OneProbe` (ESPNClient) | the half-open breaker admits every request (`client.py:66`) |
| `NoDuplicateExecution`, `ShutdownCompletesRuns` (SyncManager) | the TTL of 300 s is shorter than some jobs (`locks.py:63`); a shutdown cancels running jobs (`manager.py:103`) |
| `LiveModePolls` (LiveMode) | `events_live` never gets a timer (`manager.py:80`) |
| `RaceIsRecovered` (Upserts) | the retry uses a weight class the rollback dropped (`upserts/base.py:283`) |
| `CategoriesStayFilled`, `OneRowPerFighter`, `EveryRowIsShown` (Rankings) | an insert that cannot be made is passed over and the DELETE before it stays (`ranking.py:82`); the table has no unique constraint, so overlapping jobs list a fighter twice; a category with two champions shows one (`other.py:217`) |
| `NextReadIsFresh` (APICache) | a reader stores what it loaded before the commit after the invalidation (`api/cache.py:39`) |
| `PairsAreFound` (DependencyGraph) | of several cycles through a node only some are found (`dependency.py:262`) |
| `MergesAreReversible` (IdentityGraph) | `reverse_merge` passes a match without its canonical id (`resolution/__init__.py:224`) |
| `MostUrgentAlwaysNext` (JobScheduler) | `cancel` filters the heap's list without `heapify` (`scheduler/__init__.py:263`) |
| `RateIsKept`, `ProbeFailureOpens` (Connector) | a sleep is refilled twice (`connectors/__init__.py:316`); a late success clears the count on which a failed probe trips (`:295`) |
| `OneLoop` (HealthPoll) | a second `start` adds a loop that no `stop` reaches (`registry.py:187`) |
| `PatchIsStored`, `AddIsIdempotent` (UserLists) | a field whose new value was read already is not written over another's change (`users.py:188`); two additions at once fail (`:246`) |
| `RawIsRetired`, `ArchiveTakesAll` (DataLake) | the archive leaves raw files, and knows nothing of the records stored before a restart (`datalake/__init__.py:140`) |
| `FirstScopeWins`, `EveryHookIsStored` (HistoricalEvents) | a league that fails loses its claim (`historical_event.py:104`); events past the cap are never reached (`:138`) |
| `RepeatsAreNoticed`, `NoItemIsMissed` (Pages) | items of `$ref` lists have no id to recognise (`client.py:577`); an item moves to a page already read when one before it goes |

Read while modelling, without a model: a lock without a Redis client skips the
job where its comment promises to run it (`locks.py:55`); the queue worker calls
jobs without their context (`manager.py:250`), so a sync triggered by hand always
fails; a probe that ends uncounted leaves
the sync breaker in HALF_OPEN until `reset()` (`failure.py:226`);
`scheduler/jobs.py:130` calls `fetch_rankings()` without its argument, so that job
always fails; the ranking upsert sets neither `gender` nor `category_type`, which
the API groups by; the route `/v1/rankings/{division}` shadows the fixed paths
declared after it; `notifications.py` uses a column `UserPreference` does not
have; `ESPN_DISCOVERY_FORCE` is documented and read by nothing.

## Not modelled

The models cover the code with state, order and failure in it. Most lines of the
repository are something else: read endpoints and their queries, payload parsers,
DTOs and schemas, table definitions, numerics. They have no steps to interleave
and no state to keep, and a test says all there is to say about them; a model of
them would be a copy.

- *Provider payload parsing, field mapping, merge rules*: pure transformations.
  The merge engine is reached only from `FighterService.enrich_fighter`, which
  nothing calls, and the plan's merge step is a placeholder; the secondary
  providers would store their results through it, so they store nothing.
- *Dead letters, sync history, payload store, clean-up*: single statements.
- *Metrics, monitors, alerts, observability*: written by the sync, read by people.
- *Authentication and rate limiting*: token checks of one request and tables with
  single statements; no protocol between components.
- *The sync manager's own queue* (`scheduler/queue.py`): the manual triggers
  (`manager.py:300-323`) and the retry endpoint (`api/sync.py:151`) enqueue job
  functions without arguments, and the worker calls them so, without their context
  and without the lock: every queued job fails at once and changes nothing.
- *Cron loop of the plan scheduler*: it only decides when the modelled call starts.
- *The client's token bucket*: it delays an attempt and decides nothing.
- *Event favourites, saved searches, view history*: the code of fighter favourites
  again, or one statement.
- *Athlete event logs* of the historical job (off by default), *statistics,
  broadcasts, venues*: the same upsert with other fields.
- *Data platform: concrete connectors, lineage, quality, validation,
  normalization, trust*: request builders, appends to lists, scores.
- *Mobile offline queue*: the replay that would process it is a stub.
- *Intelligence, prediction*: batch numerics.

## Plan

Done, in the order of their weight: the engine and its run, the client, the
manager, discovery, the upserts and the jobs that write through them, the data
platform's scheduler, and the smaller services; then the theorem behind every
safety property that a passing run checks. What is left:

1. The definitions of [Findings](#findings) that no run checks and that hold under
   a restriction (`OneRowPerFighter` with one job at a time, `MostUrgentAlwaysNext`
   without `cancel`) as theorems with that restriction as hypothesis.
2. A composition of `SyncEngine` with `Upserts`: the row-level steps shown to
   implement `UpsertConflicts` and `UpsertBatch`.
3. The triggers of `SyncScheduler` and the token bucket of `ESPNClient`, once
   a property depends on them.
