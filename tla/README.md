# A formal model of the Data Platform (QueryAPI)

TLA+ modules that model this repository, the configurations with which TLC checks
them on small instances, and theorems about them that TLAPS proves for every value
of the constants. All paths below are relative to the repository's root unless they
end in `.tla` or `.cfg`. `PROJECT.json` maps every definition to the lines it models
and lists runs, mutants, hazards, findings and theorems.

1. [The system](#1-the-system)
2. [The modules and the code](#2-the-modules-and-the-code)
3. [What is checked](#3-what-is-checked)
4. [Where code and documentation disagree](#4-where-code-and-documentation-disagree)
5. [Bounds and fairness](#5-bounds-and-fairness)
6. [What is proved](#6-what-is-proved)
7. [What is not modelled](#7-what-is-not-modelled)
8. [Plan](#8-plan)

## 1. The system

A user registers an *Indexer* (a filter over NEAR blocks, a JavaScript function, a
Postgres schema) with the **registry contract**. The **Coordinator** polls the contract
and, for each Indexer, has the **Runner** provision a database and run an *executor*,
and has the **Block Streamer** run a *block stream*. A block stream puts the heights of
matching blocks on a Redis stream; the executor takes them off, runs the function and
writes to Postgres through Hasura's databases.

    contract --view--> Coordinator --gRPC--> Runner: data layer --> Postgres, Hasura
                        |   |  |---- gRPC --> Runner: executors ---> user tables
                 record |   |                        ^
                in Redis    |-- gRPC --> Block Streamer |
                                          |  |          | Redis stream
                        bitmap index <----|  |----------'
                (core Indexer receiver-blocks)  NEAR Lake (S3, shared client)

### Components, their state, operations and hard behaviours

| Component | State | Operations | Hard behaviours | What makes it correct |
|---|---|---|---|---|
| Registry contract (`registry/contract`) | registrations by account and name with created, updated and deleted heights; account roles | register, remove, add_user, remove_user, migrate, views | several calls in one block; revival of a deleted entry; migrated state; mutual removal of owners | heights in order; a version (the height the Coordinator compares) names one registration; what differs in version from what a manager read is older; one role per account, only owners subscribe to everything |
| Coordinator (`coordinator/src/main.rs`, `lifecycle.rs`, `indexer_state.rs`, `redis.rs`, `server`, `handlers`) | a record per Indexer in Redis (lifecycle state, enabled, synced_at) and the set of their keys; a task per Indexer in memory | migrate, spawn managers, the handlers of the six lifecycle states, synchronise stream and executor, Enable, Disable, List | a loop of unguarded reads, remote calls and writes; requests that write the same record; answers that get lost; restarts; sleeps of ten minutes inside a step | synced_at never ahead of what runs; nothing started twice; suspension and deletion leave nothing running; an enabled Indexer ends up running its latest version |
| Coordinator: data layer handler (`handlers/data_layer.rs`) | none | start a task, poll it, time out | gives up while the task goes on; a restart starts another beside it | what is decided Running on the word of one task is provisioned |
| Block Streamer: block stream (`block_stream.rs`, `redis.rs`) | task, cancellation, reported health; cursor and stream in Redis | bitmap phase, Lake phase, publish with back-pressure, monitor | cancellation at every await; cursor and publication are two commands; a full Redis stream holds the task; two phases with a seam | no matching block skipped; the order of the chain; the limit of the stream; a dead stream is noticed and resumed |
| Block Streamer: service (`server`) | map of streams behind a mutex | start, stop, get, list | overlapping requests; the lock is let go between look and insert; stop awaits without the lock | the map knows every running task; an answered stop has ended its task |
| Block Streamer: receiver blocks (`receiver_blocks`, `graphql`) | position of a stream in the days | find the first day, query a day, decode, merge, yield | bitmaps that grow while read; midnight; retries | decoded = indexed; nothing before the last height skipped |
| Block Streamer: rules (`rules`) | none | match a block against a filter | three programs must agree; matching and building the payload of a match are two pieces of code | history and real time select the same blocks; every match has a payload |
| Block Streamer: shared Lake client (`lake_s3_client.rs`) | LRU cache of shared futures | cached get, plain get, list | futures shared by streams that come, fail and are cancelled | one request per object; no stale error |
| Core Indexer receiver-blocks (`core-indexers/receiver-blocks`) | bitmaps by account and day in Postgres | execute a block: receivers, extend or recode bitmaps | bit arithmetic over byte boundaries; blocks executed again after a restart | bitmap = set of executed heights |
| Runner: service and stream handler (`runner-service.ts`, `stream-handler.ts`) | map of executors; per executor a worker, a state | start, stop, get, list; handle messages and errors of the worker | asynchronous start; stop that overlaps a start; messages queued behind an error | no worker the map does not know; dead workers are reported |
| Runner: worker (`worker.ts`) | prefetch queue of promises, cursor in the Redis stream | producer, consumer, downloads | two loops interleaved at every await; failed downloads, executions and calls; crashes | a message leaves after its block succeeded; order; repeats only after failures; progress |
| Runner: Indexer, metadata, DML (`indexer.ts`, `indexer-meta`, `dml-handler`) | sys_metadata, sys_logs, user tables; the status last noted | execute; write status, height, logs; upsert, insert, select, update, delete | each statement commits by itself, over a pool, beside status and height writes; killed workers leave queries behind | height never ahead of the tables; a half-executed block can be executed again |
| Runner: in-memory DML, local Indexer | tables in memory | the same operations | an update that fails half-way | behaves as Postgres would |
| Runner: data layer and provisioner (`data-layer-service.ts`, `async-task.ts`, `provisioner`, `hasura-client`) | tasks by id; database, role, source, schema, tables, tracking, permissions, cron jobs | start provisioning, start deprovisioning, status | a dozen statements that fail separately and are repeated; Indexers of one account share half of it | COMPLETE means everything is there; provisioning can be repeated, after anything; a complete deprovisioning leaves nothing |
| Runner: context builder, observability, start-up | none of their own | | | |
| Frontend, block-server, hasura-authentication-service, runner-client, deployment | the editor's; none | | | |

## 2. The modules and the code

| Module | Code | State | Actions |
|---|---|---|---|
| `IndexerLifecycle` | `coordinator/src/{main,lifecycle,indexer_state,redis}.rs`, `handlers/{block_streams,executors}.rs`, `server/indexer_manager_service.rs` | registry entry, record and its membership, stream and executor slots with version and health, versions with blocks in the queue, `main`'s and the manager's program counters and their copies of record and config, requests | every await separates two: `FetchConfig`, `GetState`, one per `handle_*`, the remote calls of synchronisation (`CheckStream`, `Reconfigure`, `ClearBlockStream`, `StartStream`, ...), `SetState`; `Migrate`, `FetchRegistry`, `SpawnOrForget` of main; the Redis commands (`Get`, `Set`, `SAdd`, `Del`) the others are made of; `RpcGet`, `RpcSet`, `RpcAdd`; crash; faults and bad health of the services; the contract |
| `BlockStream` | `block-streamer/src/{block_stream,redis}.rs`, the starting, resuming and judging parts of `coordinator/src/handlers/block_streams.rs` | the task's pc and block in hand, cursor, Redis stream, health, the monitor and whether its verdict is fresh, what was published and taken | one per await of both phases and of `publish_block`, each with its failure; monitor; start, resume, stop, update; the Runner's consumption |
| `BlockStreamerService` | `block-streamer/src/server/block_streamer_service.rs` | the map's entry for one Indexer, running tasks, cancelled tokens, requests | the parts of start and stop between locks and awaits |
| `ExecutorService` | `runner/src/server/services/runner/runner-service.ts`, `stream-handler/stream-handler.ts` | the map's entry, workers, reported states, messages posted, requests | the parts of start and stop between awaits, messages and errors of a worker |
| `ExecutorWorker` | `runner/src/stream-handler/worker.ts`, `redis-client` | Redis stream, its version and that of the worker's code, prefetch queue, producer, consumer, executions per message | producer, consumer and downloads at every await, with failures, lost answers, a crash, a restart; an update that clears the stream, and the stop of the outdated worker after it |
| `Delivery` | what the Redis stream and the executor promise together | messages published, waiting, superseded, begun and succeeded | `Publish`, `Supersede`, `Replace`, `Begin`, `Succeed`, `Remove` |
| `IndexerExecution` | `runner/src/indexer/indexer.ts`, `indexer-meta/indexer-meta.ts`, `dml-handler/dml-handler.ts` | pc of `execute`, currentStatus, queries on their way, sys_metadata, sys_logs, user rows | execute, one upsert, success and failure, the writes landing in any order, failing writes, a kill |
| `RegistryContract` | `registry/contract/src/lib.rs`, `registry/types` | registrations, roles, block height, what was visible at the end of the last block | `Register`, `RemoveIndexerFunction`, `AddUser`, `RemoveUser`, `EndBlock` |
| `Subscriptions` | `RegistryContract` composed with `coordinator/src/registry.rs`, `main.rs` and the starts of `handlers/{block_streams,executors}.rs`, `block_streamer_service.rs` | the contract's; managers, what each fetched last, what stream and executor were started from | `Spawn`, `FetchIndexer`, `StartStream`, `StartExecutor`, `StopStream`, `StopExecutor`, `Finish`, crash; every step of the contract |
| `DataLayer` | `runner/src/server/services/data-layer`, `provisioner/*`, `hasura-client` | the parts that exist, tasks with their plan, step and snapshots | read a snapshot, execute a statement, fail, restart of the Runner |
| `DataLayerHandler` | `DataLayer` composed with `coordinator/src/handlers/data_layer.rs` and the two lifecycle states that wait for it | DataLayer's; per Indexer its lifecycle and the task awaited | `StartTask`, `RequestFails`, `Poll`, `CoordinatorCrash`, `Remove`, `RegisterAgain` |
| `ReceiverBitmaps` | `core-indexers/receiver-blocks/indexer.js`, `block-streamer/src/receiver_blocks/bitmap.rs` | none: pure operators | (run-length and Elias gamma coding, extension in place, decoding, merging) |
| `Backfill` | `block-streamer/src/receiver_blocks/receiver_blocks_processor.rs`, and the order in which the core Indexer executes | chain, who is touched where, what is executed, position of one stream in the days | `Produce`, `ExecuteNext`, `Restart`, `StartStream`, `Probe`, `ReadDay`, `RequestFails`, `Yield` |
| `ReceiverBlocks` | `Backfill` over the bitmaps table: `indexer.js`, `bitmap.rs`, `receiver_blocks_processor.rs` | Backfill's and the rows of the table | `Index` and `QueryDay` in place of `ExecuteNext` and `ReadDay` |
| `MatchingRules` | `block-streamer/src/rules`, `receiver_blocks_processor.rs`, `indexer.js` | none: pure operators | (what real time matches and builds of it, what the index has, what the backfill selects) |
| `History` | `Backfill` beside `MatchingRules` | Backfill's | Backfill's |
| `LakeCache` | `block-streamer/src/lake_s3_client.rs` | cache, futures, callers | `Call`, `Settle`, `Return`, `Cancel` |

`MCReceiverBlocks` puts `ReceiverBlocks`, the coding and `History` into one instance
for TLC, which looks at the pure operators once, before the chain begins.
`MCSubscriptions` gives `Subscriptions` its rules and follows one Indexer;
`MCDataLayerHandler` declares the Indexers of an account interchangeable. Beside the
definitions of every module stand their *slips*: each is a plausible bug in the lines
the definition models, and `PROJECT.json` says which property a run then finds
violated. They are used by no specification.

How modules meet: `IndexerLifecycle` sees the Block Streamer and the Runner as one
slot each; `BlockStreamerService` and `ExecutorService` are what a slot is inside,
`BlockStream` and `ExecutorWorker` what runs in it, `IndexerExecution` what one
execution of the worker is, `DataLayerHandler` what the lifecycle's provisioning call
is. `Subscriptions` EXTENDS `RegistryContract` and `DataLayerHandler` EXTENDS
`DataLayer`: each composes both sides in one state space. `Subscriptions` leaves open
*when* a manager calls, which is the subject of `IndexerLifecycle`, and asks *what* it
sends. `Backfill` refines what `BlockStream` takes for
granted of its index (`Touching`, `Indexed`), and `MatchingRules` what it takes for
granted of a match. `Backfill` says that reading a day gives what was executed of it;
`ReceiverBlocks`, which codes rows bit by bit with `ReceiverBitmaps`, implements it
(`ImplementsBackfill`). `ExecutorWorker` implements `Delivery` (`INSTANCE ... WITH`): the
messages waiting are those of the Redis stream, the begun ones those with an execution.

### Abstractions a reader should know

- A registry version is the height of registration; the Coordinator sees the contract
  at the ends of blocks (it asks with `Finality::Final`, `registry.rs:184`).
- `IndexerLifecycle` models one Indexer: managers of different Indexers share nothing
  but Redis connections. A remote call succeeds, fails before its effect or fails
  after it (a lost answer). The ten-minute wait is time spent at one pc.
- In `BlockStream` a command sent before a cancellation may still take effect.
- `BlockStream` lets an index list the blocks that touch a filter (`Touching`, up to
  `Indexed`) and rules select some blocks (`Matching`); neither contains the other.
  Heights without a block are passed over (`Blocks`).
- The Coordinator restarts a stream it does not call healthy. `BlockStream!IsHealthy` is
  that verdict: stalled, or judged too long ago (a monitor that missed one round
  is 240 s old, the limit is 180 s).
- `ReceiverBitmaps` keeps the codec bit by bit: its properties are about bits. Days
  are short, so counts stay within what a byte or two hold.
- `DataLayer`: a Hasura bulk request is atomic; the partitions of the log table are not
  listed among the tables to track.
- `DataLayerHandler`: time is not modelled, so the limit on polling may strike at any
  poll; like a lost call it is charged to `MaxFaults`, while a restart of the Coordinator,
  which provisions again, is free. The code's "10 minutes"
  (`data_layer.rs:189`) is a number of polls, each over one rate-limited channel that all
  handlers share, so the limit is longer the more Indexers wait. The Coordinator does not
  deprovision in this version (`lifecycle.rs:263-293` is commented out); the removal
  path is modelled as it would be called there, and the gRPC service offers it.
- `ExecutorWorker`: ids of the Redis stream count up for ever, also across the DEL of an
  update (Redis ids are times). An update is one step of its own: which calls it is made
  of is `IndexerLifecycle`'s.
- `Subscriptions`: heights, accounts and contents are model values; the conversion of a
  rule into the gRPC message and back is modelled by its tables.
- `IndexerExecution`: user code is a list of awaited upserts of rows that its block
  determines. With plain inserts a half-executed block would fail for ever, which
  is what the mutant of `Indexes` shows. `currentStatus` is noted before the
  write is confirmed (`indexer.ts:111`), so a lost RUNNING is not written again; and a
  RUNNING may land after a FAILING, so nothing is claimed of the status while failing.
- `LakeCache`: a request makes progress only while some call awaits it, as a
  shared Rust future does.
- `MatchingRules`: no label of an account contains another. Hasura's unanchored
  `_regex` and the rows of root accounts may deliver too much, which is allowed:
  only too little loses blocks. A block is the sequence of its shards, each the
  sequence of its receipts.

## 3. What is checked

Every property has a mutant: a small change of a definition, of the kind a bug in the
code would be, under which TLC finds the property violated in the same run.

| Run | Module | Properties | What it shows |
|---|---|---|---|
| `lifecycle` | `IndexerLifecycle` | `SyncedIsCurrent`, `NeverStartsTwice`, `SupersedeClearsQueue`, `DeletedIsCleanedUp`, `Settles` | The manager under failed and lost calls, crashes, restarts and bad health, through registrations, updates and removals: synced_at never runs ahead of the running stream, nothing is started twice, and after the last fault the latest version runs in both parts. |
| `lifecycle_requests` | `IndexerLifecycle` | `MigratedBeforeManaged`, `SuspendsAfterStopping`, `Settles` | The same with an Enable or Disable request written from a stale read: migration precedes management, Suspended is decided only with both parts stopped, and a disabled Indexer ends up Suspended. |
| `block_stream` | `BlockStream` | `SkipsOnePerCut`, `QueueInOrder`, `QueueBounded`, `CursorNeverDecreases`, `ReachesTip` | A stream started before, at or ahead of the registered height, under stops, errors, late writes and an update: from that height on every interruption skips at most one matching block, order, limit and cursor are kept, and a dead stream is noticed, restarted and reaches the tip. |
| `block_streamer_service` | `BlockStreamerService` | `StreamsInv`, `AlwaysAnswers` | Requests overlap with those of a Coordinator that died: an answered stop has ended its task, only overlapping starts lose one, and every request is answered. |
| `executor_service` | `ExecutorService` | `ExecutorsInv` | Overlapping requests, failing connections and dying workers: an answered stop leaves nothing of its executor, and only early or doubled stops lose a worker. |
| `executor_worker` | `ExecutorWorker` | `WorkerInv`, `ImplementsDelivery`, `KeepsUp` | Failing downloads, executions and calls, lost answers, crashes and an update that clears the stream: what the worker does is a Delivery, in the order of the chain, repeated only after a failure, and all of it if downloads succeed. |
| `subscriptions` | `MCSubscriptions` | `HeightsInOrder`, `VersionNamesConfig`, `OutdatedIsOlder`, `ActiveRunsRegistered`, `ManagedIsRead` | Owners, users and strangers registering, updating and removing, several times in one block, while the Coordinator lists, fetches and starts from what it fetched: heights stay in order, one version names one registration, what differs in version from what a manager has fetched is older, and what runs at the current version is what is registered. |
| `history` | `MCReceiverBlocks` | `BackfillInv`, `RowsInv`, `HistoryHasReceived`, `ReportsMatches`, `EveryDayIsExact`, `ImplementsBackfill` | Two accounts over two days, indexed with restarts while a stream reads them: rows decode to what was executed, so that what the stream reads is what Backfill says, in order and with nothing skipped before its last height; the rules, every filter and the coding of every day. |
| `lake_cache` | `LakeCache` | `CacheInv`, `ReportedIsForgotten` | Failing requests shared by four streams over a cache of one entry, with a cancelled call: an error that was returned is never handed out again, and what is cached is not asked for again. |
| `data_layer` | `MCDataLayerHandler` | `ProvisioningInv`, `CompleteIsProvisioned`, `RunningIsThere`, `DeprovisionedIsGone` | Two Indexers of one account provisioned by the Coordinator, given up, removed, deprovisioned once or again and provisioned anew, with crashes, lost calls and broken statements: what is complete is there, what runs is there whatever else is under way, what is deprovisioned is gone, and undisturbed only a deprovisioning that follows no provisioning is refused. |
| `execution` | `IndexerExecution` | `HeightIsIndexed`, `SuccessIsRecorded`, `HeightNeverDecreases`, `Indexes` | Failing code, failing writes and a killed worker whose queries land later: the height shown is that of a block up to which everything is indexed, and whatever an attempt has left the next ones index the block. |

`StreamsInv`, `ExecutorsInv`, `WorkerInv`, `CacheInv`, `BackfillInv`, `RowsInv` and
`ProvisioningInv` conjoin their module's type invariant with the invariants named in
their definition. Of the modules with proofs, `TypeOK` and `OneRolePerAccount`
are in no run: they are theorems (section 6).

Limits of these statements that matter, each stated as a hypothesis in the property:

- `QueueInOrder` and `SkipsOnePerCut` speak of the time before an update, `QueueInOrder` of
  streams not asked for ahead of the registered height, and `SkipsOnePerCut` counts the
  blocks from the registered height on. A requested start height is forgotten
  by a cut, and an update leaves the old cursor behind (section 4). Both need
  `IndexCovers`: as far as it has got, the index lists every block that matches. The proof
  showed the need of it, and with `Touching = {1, 3}`, `Indexed = 3` TLC refutes both without
  it. The index has receivers only (`HistoryIsComplete`, section 4): the bitmap phase passes
  over a matching block that the index lacks, and never delivers it when a later listed
  one has been noted; is the stream cut before that, the Lake phase delivers it
  behind the later one.
- `StreamsInv` and `ExecutorsInv` contain `OnlyStartsLeak` and `OnlyStopsLeak`, which name
  the only ways in which a service loses a task or a worker: overlapping starts, an
  early stop, a doubled stop. `MaxAbandoned` counts requests whose Coordinator died,
  after which a new one may overlap them.
- `DeletedIsCleanedUp` and `SupersedeClearsQueue` hold while nothing has failed and no
  request is under way (`Undisturbed`).
- `BackfillSkipsNothing`, a part of `BackfillInv`, needs `ReadsInTime`: the index begins
  no later than the stream, and midnight does not pass once the stream has started, so
  that the core Indexer is through every day but the last.
- `KeepsUp` excepts downloads that fail: they are never tried again.
- `ImplementsDelivery` lets code that an update has superseded begin superseded messages:
  the old worker goes on until it is stopped, and so also begins messages of the new
  stream. It promises that the *new* code sees no superseded message.
- `CompleteIsProvisioned` allows tasks of different Indexers beside each other but no
  two of one Indexer. `RunningIsThere` allows these, lost calls, restarts and time-outs,
  at every moment, but says nothing of the permissions of the user's tables
  or of relationships (section 4), nor of what follows a removal.
- `NothingRefused`, a part of `ProvisioningInv`, allows a deprovisioning that follows no
  provisioning of its Indexer to be refused, and no other task. A deprovisioning begins
  after anything, as in the code: a Coordinator that restarts while the record says Deleting
  begins it again behind one that is complete, and an Indexer may be removed before it was
  provisioned. Such a one finds no job to unschedule, or no source to drop the schema from
  (section 4). `DeprovisionedIsGone` speaks of the Indexers that were provisioned.
- `ActiveRunsRegistered` compares rule and code; the schema travels to the Runner with
  the code.
- `SuccessIsRecorded` and `HeightNeverDecreases` hold until a worker is killed; what it
  has sent may then land late. `HeightIsIndexed` holds all the same.

## 4. Where code and documentation disagree

The run `block_stream_skips` checks what `registry/types/src/lib.rs:52` says of
`StartBlock::Continue`, "Resumes indexing from the block immediately following the last
one successfully indexed", as `SkipsNothing` and finds it violated:
`process_near_lake_blocks` writes the cursor (`block_stream.rs:484`) before it publishes
(`:501`), so a stop, a crash or an error in between makes the resume start behind a block
that was never published; a full Redis stream keeps the task there for long. The instance
starts the stream at its registered height, where the Coordinator's fallback
(`handlers/block_streams.rs:261`) would lead it as well, so that the order of the two calls
is the only cause left: in TLC's trace the first block has been noted, the cut comes when
the cursor write of the next, matching one is done or on its way, and the resume begins
behind that block. `SkipsOnePerCut` is what remains true.

Further disagreements were met while modelling. Each is stated in its module as a
property, which TLC refutes on a variant of the run's instance: take the run's cfg, change
the constants as said, and check the property alone.

| Property | Instance | Code | What happens, and what is said |
|---|---|---|---|
| `SuspendedIsQuiet` | two requests | `coordinator/src/indexer_state.rs:170` | A Disable that read `Suspended` before the manager resumed writes the record back over `Running`; stream and executor run on for good. `lifecycle.rs:39`: "Block Stream and Executors are not running." |
| `DisableStops` | one request | `coordinator/src/lifecycle.rs:350` | The manager writes the record it read up to ten minutes earlier over the `enabled = false` of an answered Disable. `indexer_manager.proto:10`: "Disable an Indexer, preventing it from running". |
| `RegisteredRuns` | two versions | `coordinator/src/lifecycle.rs:344` | `Deleted` is not persisted, the record stays `Deleting`, and each manager of a re-registered Indexer exits. `README.md:10`: "attempts to synchronise that configuration across the system". |
| `RepairingHeals` | one fault | `coordinator/src/lifecycle.rs:242` | One provisioning error parks an Indexer in `Repairing`. `README.md:87`: "These should self resolve after a few seconds." |
| `DeletedIsCleanedUp` | without `Undisturbed`, one fault | `coordinator/src/lifecycle.rs:247` | A stop that fails while deleting is only warned about. `lifecycle.rs:53`: "`Deleting` on failure, triggering a retry". |
| `SupersedeClearsQueue` | without `Undisturbed`, two faults | `coordinator/src/handlers/block_streams.rs:335` | A start whose answer was lost, a restart of the Block Streamer and an update: the new version counts as never started and keeps the old queue. `docs/indexers.md:184`: "All queued blocks at the time of update will be cleared." |
| `SkipsOnePerCut` | counting all of `Skipped`, `RegistryVersion = 3`, `StartHeights = {1}`, no update | `coordinator/src/handlers/block_streams.rs:261` | A stream started at a height and cut before its first cursor write resumes at the registry version. `docs/indexers.md:177`: "Start indexing from the height specified". |
| `SkipsOnePerCut` | without its hypothesis on `updates` | `coordinator/src/handlers/block_streams.rs:210` | An update clears the Redis stream but not the cursor; cut before its first write, the new stream resumes at the old position. `docs/indexers.md:184`: "supersede the existing process". |
| `CursorNeverDecreases` | without its hypothesis, one update | `block-streamer/src/block_stream.rs:176` | An update to a lower height makes a working stream go back, which the monitor reports as `Stalled`: "Last processed block should not decrease" (`block_stream.rs:181`). |
| `NoLeak` of `BlockStreamerService` | three requests, one abandoned | `block-streamer/src/server/block_streamer_service.rs:168` | The lock is dropped between look and insert; of two overlapping starts one replaces the other, whose task no list shows and no stop reaches. `block_streamer.proto:13`: "Lists all current BlockStream processes". |
| `NoLeak` of `ExecutorService` | five requests, one abandoned | `runner/src/stream-handler/stream-handler.ts:87`, `runner/src/server/services/runner/runner-service.ts:134` | A stop during the connection, or a second stop behind a new start, loses a worker. `runner.proto:56`: "List of all executors, including stopped or crashed ones". |
| `DeadIsStalled` | two requests, one fault | `runner/src/stream-handler/stream-handler.ts:120` | A state posted before the error is handled after it and hides that the worker is dead. `runner.proto:85`: "Unintentionally stopped". |
| `FailingIsExecuting` | one message, no other fault | `runner/src/stream-handler/worker.ts:146` | The promise of a failed download settles to no block each time it is awaited; nothing is downloaded again. `runner.proto:79`: "Executor is running, but the execution is erroring". |
| `BackfillInv` | without `ReadsInTime`, `StreamsFrom = 1` | `block-streamer/src/receiver_blocks/receiver_blocks_processor.rs:181` | A stream held back over midnight skips what was still to come of the day it had read. `docs/how-works.md:42`: "will execute the indexer function for all matching blocks". |
| `RowsInv` | `IndexedFrom = 3`, `RestartsFrom = {1}` | `core-indexers/receiver-blocks/indexer.js:293` | A core Indexer updated to a lower start block executes blocks before the first of a row: their index in it is negative, and `setBitInBitmap`, which "Sets bit at bitIndex" (`indexer.js:19`), sets none, so that the history never lists them. |
| `HistoryIsComplete` | the rules of `history` | `block-streamer/src/rules/matcher.rs:121` | A receipt *from* an account of the filter matches in real time and is not in the index, which has receivers only. `docs/how-works.md:42`: "for all matching blocks". |
| `Deduplicated` | three streams, one object | `block-streamer/src/lake_s3_client.rs:167` | A late call that finds the old error removes the request that replaced it, and a third is sent. The test `deduplicates_parallel_requests` (`lake_s3_client.rs:241`) expects one. |
| `SaysPermitted` | that of `data_layer` | `runner/src/provisioner/provisioner.ts:432` | Tables tracked by a failed attempt get no permissions in the next, which says "All user tables already have permissions" (`provisioner.ts:438`). |
| `NothingRefused` | `ForeignKeys = TRUE` | `runner/src/provisioner/provisioner.ts:429` | Relationships are created again and refused. `provisioner.ts:427`: "Safely retryable". |

Smaller ones, visible in the definitions rather than refuted: `add_user` gives any role,
Owner too (`registry/contract/src/lib.rs:208-226`), while `lib.rs:56` says that owners "can
only be modified via a contract upgrade"; a deprovisioning of what is not provisioned (any
longer) is refused by `cron.unschedule` or by the missing source, of
which the commented call in `handle_deleting` would take no notice (`lifecycle.rs:289`); the Coordinator treats
`FAILED_PRECONDITION` as "already provisioned" (`data_layer.rs:158`), which the Runner never
answers; an Event rule is logged as unsupported while `start` still returns Ok
(`block_streams.rs:172`), so synced_at is set for a stream that does not exist; after an
update to a height or the latest block the old worker still executes what it has
prefetched ("All queued blocks at the time of update will be cleared",
`docs/indexers.md:184`) and, until it is stopped, the first blocks of the new stream.

## 5. Bounds and fairness

**Bounds.** All counters that a guard bounds are named constants: `MaxVersion`,
`MaxFaults`, `MaxStops`, `MaxErrors`, `MaxUpdates`, `MaxRequests`, `MaxAbandoned`,
`MaxMessages`, `MaxRestarts`, `MaxLag`, `MaxRetries`, `MaxTasks`,
`MaxOverlaps`, `MaxRemovals`, `MaxFailures`, `MaxCancels`, `MaxKills`, `MaxBlock`,
`MaxHeight`. Why the values suffice:

- *Lifecycle.* Two versions show a first start and every kind of update; two faults show
  a lost answer followed by a crash or restart, the longest chain any disagreement of
  section 4 needed. Requests are checked with one version and one fault: what a
  request can do to a record does not depend on earlier versions. The theorems have
  no bound.
- *Block stream.* Heights up to five, the fourth without a block, the first two in the
  index: bitmap phase, seam and Lake phase, and a Redis stream of two that fills. Block 3
  matches beyond what the index has reached. Two stops show the resume of a resumed
  stream; the registered height is 2, with starts asked for on both sides of it, and one
  update may go to any of them.
- *Services.* Three requests are the shortest that leak; five leave room for a start, stop
  and start behind them.
- *Worker.* Three messages over a prefetch queue of two: the queue fills, drains and fills
  again; two faults and a failing download show a failure while recovering from one; one
  update, since a second finds the worker in the same situation. The theorems have no bound.
- *Subscriptions.* Two accounts (the contract's own and a stranger), one function, heights
  2 to 4 over fresh and migrated state: every order of calls within a block and the ends of
  two blocks. The constraint `OnlyFollowed` leaves the entry of the account that
  is not followed empty: entries do not influence each other. Three rules stand for a
  wildcard, a function call by named accounts and an event; the theorems have no bound.
- *Index.* A day of eleven heights has runs on both sides of every Elias gamma
  length up to 7 and bitmaps of more than two bytes; all 2^11 sets are built. Two days
  (`TwoDays`) of three heights suffice for the walk over days, which does not look inside
  them: a day that is read while it grows, and one behind it.
- *Cache.* A cache of one entry evicts at every second call; four streams allow two pairs
  that share.
- *Data layer.* Two Indexers of one account: what is shared and what is not. Three tasks,
  up to two of them deprovisionings (`MaxRemovals`, which limits their number and not what
  they may follow), so one may repeat another; one may be started beside another; the
  Coordinator may restart at any point, and one lost request, lost answer, time limit or
  restart of the Runner may strike at any statement. The
  Indexers are interchangeable (`SYMMETRY`); all properties are safety.
- *Execution.* Three blocks of two statements; two faults and a kill: one to leave something
  behind, one to fail again over it.
- *Rules.* Three labels, accounts of up to three, filters of up to two elements, two names
  for functions, events, standards and versions, up to two log lines.

The runs whose cfg says `CHECK_DEADLOCK FALSE` are instances that may use up their bounds
and stop; the lifecycle loops for ever and is checked for deadlock.

**Fairness** is weak, of the processes and of nothing in their environment:

- `IndexerLifecycle!FairSpec`: the manager and `main`, tokio tasks that are always
  scheduled; calls return or fail. No registration, request, fault or recovery of a
  health is fair, and faults are finitely many by their bound, so that `Settles` says:
  once trouble ends.
- `BlockStream!FairSpec`: task, monitor, the Coordinator's restart of a
  stream that is not `IsHealthy` and resume of a missing one (its loop), and the
  Runner's consumption: a Redis stream nobody reads blocks its stream for good, by design.
- `BlockStreamerService!FairSpec`: the handlers, and that a cancelled task ends, which the
  `select!` on its token at every await gives.
- `ExecutorWorker!FairSpec`: producer, consumer, downloads, which settle one way or the
  other, and the Coordinator's stop of an outdated and start of a missing worker. Messages need not
  be published.
- `IndexerExecution!FairSpec`: each step of `execute` and the writes. In addition strong
  fairness of going on to another block: a worker that succeeds eventually deletes the
  message (`ExecutorWorker!KeepsUp`) although deleting may fail now and then.

## 6. What is proved

TLAPS checks these for every value of the constants, from the named assumptions
of the modules (types of the bounds and sets, `MaxStreamSize` and `Statements`
positive, `Rules` not empty, `Receivers` finite): no instance is involved. What a theorem
assumes beyond them its statement says, and its argument below explains.

| Theorem | Module | Property | What it establishes |
|---|---|---|---|
| `ContractTypeCorrect` | `SubscriptionsProofs` |  | The state of the contract keeps its type. |
| `HeightsCorrect` | `SubscriptionsProofs` | `HeightsInOrder` | Created, updated and deleted heights stay in order. |
| `VersionCorrect` | `SubscriptionsProofs` | `VersionNamesConfig` | A version names one registration across the blocks the Coordinator sees. |
| `RolesCorrect` | `SubscriptionsProofs` |  | No account has two roles. |
| `OutdatedIsOlderHolds` | `SubscriptionsProofs` | `OutdatedIsOlder` | What runs is never newer than what its manager has fetched: a stream or executor that counts as outdated is an older one, for any calls, starts and restarts. |
| `ActiveRunsRegisteredHolds` | `SubscriptionsProofs` | `ActiveRunsRegistered` | A stream or an executor of the current version runs what is registered. |
| `ManagedIsReadHolds` | `SubscriptionsProofs` | `ManagedIsRead` | A running manager always finds its Indexer, removed or not. |
| `ImplementsContract` | `SubscriptionsProofs` |  | The composition implements the contract on its own. |
| `TypeCorrect` | `IndexerLifecycleProofs` |  | Every variable of the Coordinator keeps its type through every handler, request, fault and crash. |
| `InvHolds` | `IndexerLifecycleProofs` |  | The inductive invariant: where the manager stands, and how the copies of synced_at lag behind config, stream and registry. |
| `SyncedCorrect` | `IndexerLifecycleProofs` | `SyncedIsCurrent` | synced_at never runs ahead of the running stream, for any number of versions, faults and requests. |
| `StartsOnce` | `IndexerLifecycleProofs` | `NeverStartsTwice` | The manager never starts a stream or an executor while one exists. |
| `MigrationFirst` | `IndexerLifecycleProofs` | `MigratedBeforeManaged` | No manager runs on a record of the old format. |
| `SuspensionCorrect` | `IndexerLifecycleProofs` | `SuspendsAfterStopping` | Suspended is decided only when stream and executor are gone. |
| `SupersedeCorrect` | `IndexerLifecycleProofs` | `SupersedeClearsQueue` | While nothing has failed and no request is under way, a stream of a new version never starts over blocks queued for an older one. |
| `DeletionCorrect` | `IndexerLifecycleProofs` | `DeletedIsCleanedUp` | While nothing has failed and no request is under way, a manager that has deleted its Indexer leaves neither stream nor executor, for any number of versions. |
| `StreamTypeCorrect` | `BlockStreamProofs` |  | No block outside the chain is published or noted, and every variable keeps its type. |
| `BackPressure` | `BlockStreamProofs` | `QueueBounded` | The Redis stream never outgrows its limit, for every limit and any stops, errors and updates. |
| `CursorMonotone` | `BlockStreamProofs` | `CursorNeverDecreases` | Until an update supersedes the stream the cursor never decreases, late writes of cancelled tasks included. |
| `LosesOnePerCut` | `BlockStreamProofs` | `SkipsOnePerCut` | Every stop or error costs at most one matching block from the registered height on, for any chain, limit and number of cuts. |
| `DeliversInOrder` | `BlockStreamProofs` | `QueueInOrder` | The Runner is handed blocks in the order of the chain, duplicates included, through every cut and the seam of the two phases. |
| `ExecutionInvHolds` | `IndexerExecutionProofs` |  | The inductive invariant of one execution: what is in the tables at each point, and what the heights that are still being written stand for. |
| `ExecutionTypeCorrect` | `IndexerExecutionProofs` |  | Every variable of an execution keeps its type through every fault and kill. |
| `HeightCorrect` | `IndexerExecutionProofs` | `HeightIsIndexed` | The height shown never runs ahead of the tables, for any number of blocks, statements, faults and kills. |
| `SuccessRecorded` | `IndexerExecutionProofs` | `SuccessIsRecorded` | Once a block has succeeded the status noted last is on record, until a worker is killed. |
| `HeightMonotone` | `IndexerExecutionProofs` | `HeightNeverDecreases` | The height shown never goes back until a worker is killed, although its writes are not awaited in order. |
| `InvHolds` | `ExecutorWorkerProofs` |  | The inductive invariant of the worker: how prefetch queue, start id and Redis stream relate, and where each id has to be before it may be deleted. |
| `WorkerInvHolds` | `ExecutorWorkerProofs` | `WorkerInv` | The prefetch queue is ordered and bounded and repeats follow faults, for any number of messages, updates and faults. |
| `ImplementsDeliveryHolds` | `ExecutorWorkerProofs` | `ImplementsDelivery` | Every step of worker, Coordinator and Block Streamer is a step of the abstract Delivery or leaves it alone. |
| `NothingLostHolds` | `ExecutorWorkerProofs` |  | No message leaves the stream before its block succeeded or an update superseded it. |
| `ExecutorsAreKept` | `ExecutorServiceProofs` | `ExecutorsInv` | An answered stop leaves nothing of its executor, and only early or doubled stops lose a worker, for any requests, faults and deaths. |
| `StreamsAreKept` | `BlockStreamerProofs` | `StreamsInv` | The map knows every running task, but for those that overlapping starts lose, and an answered stop has ended its task, for any number of requests. |
| `CacheCorrect` | `BlockStreamerProofs` | `CacheInv` | The cache keeps to its size, no call waits for the future of another object, and nothing is asked for twice while it is cached, for any streams, objects and size. |
| `ErrorsForgotten` | `BlockStreamerProofs` | `ReportedIsForgotten` | An error that a call has returned is in the cache for no later call. |
| `BackfillCorrect` | `BlockStreamerProofs` | `BackfillInv` | What a stream takes from an index touches its accounts and comes in the order of the chain; nothing is skipped before its last height if the last day had begun when it started. For any chain, days, missing heights, lag and restarts of the core Indexer. |
| `IndexIsAdded` | `BlockStreamerProofs` |  | Whatever index is added to a row, in place behind its last run or by coding the whole again, the row codes that index and those it had: for every row and index. |
| `MergesAll` | `BlockStreamerProofs` |  | Merging bitmaps yields the heights of all of them, in whatever order and wherever each starts. |
| `RowsCorrect` | `BlockStreamerProofs` | `RowsInv` | Every row of the index decodes to exactly the heights of its day that were executed and touch its account, however often they were: for any accounts, chain, days and restarts within what was indexed. |
| `RowsImplement` | `BlockStreamerProofs` | `ImplementsBackfill` | The index over its life, coded in place, decoded by another program and merged across accounts, implements Backfill: what a stream is told is what was executed. |
| `RowsServeBackfill` | `BlockStreamerProofs` | `BackfillInv` | So what the runs check of the backfill holds over the rows that are coded, for any constants. |
| `NamedIsInHistory` | `BlockStreamerProofs` |  | Where a receipt of a block matches, to an account that the filter names, the history has the block: for every filter of accounts and wildcards and every block. |
| `HistoryReceives` | `BlockStreamerProofs` | `HistoryHasReceived` | The same for the filters and receipts of the runs, whatever the constants. |
| `EveryPayloadFits` | `BlockStreamerProofs` |  | Every shard with a match is published, with its first match and never without the event that made it match: for every rule and block. |
| `ReportsFit` | `BlockStreamerProofs` | `ReportsMatches` | The same for the rules and blocks of the runs, whatever the constants. |
| `DataLayerTypeCorrect` | `DataLayerProofs` |  | Types, the order in which tasks were started and whom each ran beside, and that a handler awaits a task of its own. |
| `RunningCorrect` | `DataLayerProofs` | `RunningIsThere` | An Indexer that the Coordinator calls Running has all it needs, whatever was given up, lost or repeated, and whatever other tasks are under way. |
| `DeprovisioningCorrect` | `DataLayerProofs` | `DeprovisionedIsGone` | Tasks that run one after another leave nothing of an Indexer whose deprovisioning is complete, nor of the account once that is so of all that were provisioned, whatever failed before or since. |
| `ProvisioningCorrect` | `DataLayerProofs` | `CompleteIsProvisioned` | A complete provisioning is the truth: with no failure from outside and no two tasks of one Indexer at once, everything is there until the Indexer itself is deprovisioned, with foreign keys or without. |
| `NothingIsRefused` | `DataLayerProofs` | `ProvisioningInv` | Without foreign keys, and while tasks run one by one and undisturbed, none fails but a deprovisioning that follows no provisioning: provisioning can be repeated, and done after anything. |

The arguments, module by module:

- **IndexerLifecycleProofs.** `Inv == TypeOK /\ Control /\ Order` is inductive. That
  synced_at is not ahead of the running stream (`SyncedIsCurrent`) is not inductive: the
  record is copied by the manager and by every request, and any copy may be written
  back. `Order` bounds every copy by the registry, by the manager's config and by
  the stream, whichever of them exists; `Control` says at which pc there can be no
  stream or executor, whence `NeverStartsTwice`. `MigrationFirst` follows because old
  records exist only before `main` has left "boot"; `SuspensionCorrect` from the two
  suspending calls that must both have succeeded. `SupersedeCorrect` and `DeletionCorrect`
  come from `Calm`, which holds while nothing has failed and no request is under way: what
  the record calls synced (`Current`, in Redis between two iterations and in the manager's
  copy within one) never runs behind the stream, so that a version that does not continue
  finds the queue its own (`CleanFor`).
- **BlockStreamProofs.** `BoundInv` adds to `QueueBounded` that there is room while the
  task stands between the look at the length and XADD: only the one task adds, and a
  late XADD of a cancelled one lands before the next may start. `ForwardInv`
  says that the cursor is behind whatever may be written next. `LosesOnePerCut` rests on
  `Progress` (up to the block in hand everything that matches is published, in either
  phase and across the seam) and on `Bounded`: what the cursor has passed and nobody has
  published (`Gap`) is at most the one Lake block between its note and its XADD, so a cut
  adds at most one to what lies behind the next start. `DeliversInOrder` rests on
  `Ordered`: nothing that may yet be delivered from the block in hand on, or from the
  cursor on when no task runs, lies before anything the Runner was given. All four
  speak of the stream until an update supersedes it, for an update may well go back
  (section 4).
- **BlockStreamerProofs.** `OneAtATime` (an unanswered request is the last or its
  client is gone) and `Replaces` (an entry that a start is about to replace is that of a
  start beside it) turn the claim that only overlapping starts lose a stream into an
  inductive one. Of the Lake client, `LakeInv` adds `Remembered` to the two invariants:
  an object that is not cached, although asked for, was pushed out by a later request.
  The lemmas state what removing an entry and moving it to the end do to the cache.
  Of the backfill, `BackfillInv` is not inductive: that nothing was skipped before the last
  height yielded says nothing of what the stream has still to read. `BackfillIInv` adds
  where it stands: up to the day it reads, everything from its start on was yielded or is
  in hand (`LeavesNoGap`), all of that lies behind what was yielded (`ReadsInOrder`), and
  every day it has behind it was complete when it read it (`ReadsAll`, from `ReadsInTime`).
  `BackfillInvFollows` takes `BackfillSkipsNothing` from these.
  Of the coding, the decoder is followed through a prefix of the bits rather than the
  whole: `Reaches(p, bit, index, ones)` says that from *any* bits which begin with p it
  gets through p, has found `ones` and stands before a run of `bit` at `index`. So a row
  may be extended behind p without a second look at p. `Tidy` is what extension in place
  needs of a row: its last run is of ones, is coded at `lastStart` and ends with
  `maxIndex`, and nothing but padding is behind it. The encoder makes tidy rows
  (`Encodes`, its loop after n bits), extension in place keeps them so, whether it
  lengthens the last run or begins another, and a tidy row decodes to its indices
  (`TidyFacts`): hence `IndexIsAdded`. `MergesAll` needs of two bitmaps only that the one
  that starts later is shifted by the difference, to the bit.
  `RowsIInv` says of every row that it codes exactly what was executed of its day and
  touches its account, counted from the first such height (`RowsCode`). That indexing a
  block preserves it needs `BackfillIInv`: no gap is left, so a block that is new to a row
  lies behind its first height, provided that no restart goes below the block the core
  Indexer first began with (`RestartsInside`; without it `RowsInv` is refuted, section 4).
  `RowsStep` then maps every step to one of `Backfill`, and `RowsServeBackfill` brings what
  is proved of `Backfill` down to the rows.
  Of the rules, `NamedIsInHistory` says that an account whose pattern is found in a receiver
  is kept by the filter compiled for Hasura, root account or not (`SuffixIsFound`: a
  suffix of the labels is found in the name they make), and `EveryPayloadFits` that an
  event for which matching finds a block is one for which a payload is built
  (`FitsAlone`).
- **ExecutorServiceProofs.** `Lost` is `OnlyStopsLeak` from the moment an executor is
  created, and `Awaited` says that a stop that awaits `terminate()` still has its entry,
  unless another stop of the same executor was quicker.
- **ExecutorWorkerProofs.** `Inv` relates the three places an id may be in: what was read
  is queued, has succeeded or was superseded (`PrefetchedInOrder`); what succeeded but is
  still queued is at the head (`AtHead`); what left the stream succeeded or was superseded
  (`Kept`); new code starts behind every superseded id (`Fresh`); and `Rounds` counts
  executions against the lives of the worker. From it every step is shown to be one step
  of `Delivery` or to leave its variables alone, so `Spec => Delivered!Spec`, and
  `Delivery!NothingLost` holds of the worker.
- **IndexerExecutionProofs.** `HeightIsIndexed` needs to know what is in the tables at
  each point of the execution (`Progressed`) and that heights still on their way, those
  of killed workers included, are of blocks that are indexed (`HeightsFollow`).
  `SuccessRecorded` and `HeightMonotone` need `Recording`: until a worker is killed all
  queries on their way are of this call, the awaited ones are done when it returns, and
  the last status noted is on record, on its way or was refused.
- **SubscriptionsProofs.** Of the contract, `VersionNamesConfig` compares the registry seen
  at the last block's end with the present one; it needs `SeenBefore`: what was seen has
  heights below the current one, so that what is registered now cannot have its version.
  `ActiveRunsRegistered` and `OutdatedIsOlder` are strengthened to `Follows`: whatever a
  manager fetched is of a version not above the contract's, whatever was started of one
  not above that, and equal to what is registered where the versions are. That a new
  block preserves it is `VersionNamesConfig` again; that the rule survives the two
  conversions is `RuleSurvives`. `ImplementsContract` makes the contract's theorems hold
  of the composition.
- **DataLayerProofs.** The first part states what each of the 21 and 8 steps of a plan
  needs, adds and drops, and reduces every step of the composition to one of: a task
  moves on, a task fails, a task or handler starts, and all else is unchanged. `TasksInv`
  (types, the order of tasks, whom each ran beside) holds always. On it stand four
  invariants under four conditions, each the weakest under which its claim is true:
  - nothing is deprovisioned (`GrowInv`, for `RunningCorrect`): parts are only added, so
    that whatever a task saw in a snapshot is still there (`StillThere`), what it has
    behind it is there (`Reached`), and parts imply one another (`Order`), which is why
    leaving out a step because of a snapshot is right;
  - no two tasks run at once (`GoneInv`, for `DeprovisioningCorrect`): an Indexer
    without a provisioning (`Brought`) has nothing, and what a deprovisioning has behind it
    is gone (`Leaving`);
  - nothing fails from outside, and tasks of one Indexer run one at a time (`CalmInv`, for
    `ProvisioningCorrect`): between tasks an Indexer is untouched or whole, so that a
    provisioning either makes everything (`FreshAt`) or nothing (`AgainAt`);
  - both (`SerialInv`, for `NothingIsRefused`): of what is shared all or nothing is there,
    so no statement of a provisioning finds what it would make or lacks what it needs. A
    deprovisioning that follows a provisioning finds its Indexer whole
    (`DeprovisioningAlone`); one that does not finds nothing (`InVain`) and ends, refused, at
    its job at the latest. This theorem assumes
    that the user's schema has no foreign keys; with them the repetition of a
    provisioning fails (section 4). The others hold with them and without.

Induction over data is out of the provers' reach as such; where a proof needs it, an
argument by the least counterexample takes its place (`DataLayerProofs!Least`: which steps
a task leaves out; in `BlockStreamerProofs` the loops of encoder, decoder and merge). A
recursive function is shown to exist in the same way (`Recursion`): its values up to n
agree for all n, and the function is made of them.

Only model-checked: all liveness (`Settles`, `ReachesTip`, `AlwaysAnswers`,
`KeepsUp`, `Indexes`), because it rests on fairness and ENABLED, which the prover does not
support; and `EveryDayIsExact`, which says more than that a row decodes to its indices
(`IndexIsAdded`): that extension in place gives the very bits that coding the whole gives.
It is stated by a fold over a day's indices, and a proof would need an invariant stronger
than `Tidy`, that the bits of a row are unique; no property of a stream depends on it.

## 7. What is not modelled

- **Coordinator: synchroniser** (not modelled). Dead code: main.rs has no mod synchroniser, so the file is not compiled.
- **Coordinator: server set-up and utilities** (not modelled). Binds the gRPC server; exponential_retry repeats the query of the registry until it is answered, a retry the model folds into the query.
- **Block Streamer: receiver blocks** (partly). Decoding, merging, the walk over the days and the patterns are modelled; the paging of the queries is not: the order of the rows between two pages is up to Postgres.
- **Block Streamer: clients, metrics, start-up** (not modelled). Thin clients of S3, counters, a case conversion and start-up: pure I/O.
- **Runner: Indexer, metadata and DML** (partly). execute, status, height and logs, with code that upserts. Of the DML operations only upsert is an action.
- **Runner: context of the user code** (not modelled). Builds the functions the user code calls and names from the schema text: string work, no state of its own.
- **Runner: in-memory DML handler and local Indexer** (not modelled). A database in memory for tests of user code; planned (InMemoryDml).
- **Runner: logging, metrics, tracing, start-up** (not modelled). Observability and start-up; the script is one Disable request, an Operator of IndexerLifecycle.
- **Frontend** (not modelled). The editor: it calls the contract (modelled as its caller) and displays; generated types and layout.
- **Block server** (not modelled). A stateless function that reads a block from S3 for the editor.
- **Hasura authentication service** (not modelled). A stateless answer to one header.
- **Runner client, protos** (not modelled). Generated code; the states the protos name are those of ExecutorService and DataLayer.
- **Deployment** (not modelled). Infrastructure descriptions.

Hazards that no property of a run covers carry a "note" in `PROJECT.json`: those the
code gives in to (section 4). Beyond them, not modelled: pages of an unordered query
(`graphql/client.rs:92`; the queries have no `order_by`), and a start at height 0
(`block_stream.rs:135`).

## 8. Plan

The order followed the importance of a failure: losing blocks or running the wrong code
before the rest.

1. `IndexerLifecycle` and its proofs; `BlockStream` and its proofs (done).
2. `BlockStreamerService`, `ExecutorService`, `ExecutorWorker`: what the
   Coordinator's slots hide (done).
3. `RegistryContract` and its proofs; `ReceiverBitmaps`, `ReceiverBlocks`, `LakeCache`,
   `MatchingRules`: what a block stream reads (done).
4. `DataLayer`; `IndexerExecution` and its proofs (done).
5. `Subscriptions` and its proofs, `DataLayerHandler`, `Delivery` and the proof that
   `ExecutorWorker` implements it (done).
6. `Pipeline`: `BlockStream` and `ExecutorWorker` in one state space, against `Delivery`
   with the matching blocks in place of messages: between two cuts every one is
   executed. Bounds: three blocks, a Redis stream of one, one update, one fault.
7. Abstract specifications of the services (a map whose entries are exactly the running
   tasks) that the serial instances implement, and of `LakeCache` (a read-through cache).
   `InMemoryDml` against what Postgres does; `update`, `insert` and `delete` in
   `IndexerExecution`; the paging of `graphql/client.rs`.
8. Proofs: done for every safety property of a run but `EveryDayIsExact`, and for both
   refinements that are checked, of `Delivery` and of `Backfill`. Left: those of 6 and 7.
