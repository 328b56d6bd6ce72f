# Titan-AAS in TLA+

TLA+ models, TLC runs and TLAPS proofs for Titan-AAS (`src/src/titan`), a server for
the Asset Administration Shell API: REST and GraphQL over PostgreSQL, with Redis as
cache, job queue, lock service and event stream, run as several replicas. Paths
below are relative to `src/src/titan` unless they start with `src/`.

## 1. The system

### 1.1 Parts, their state, and how they interact

| part | state | operations | interacts with |
|---|---|---|---|
| repository API (`api/routers/aas_repository.py`, `submodel_repository.py`, `concept_description_repository.py`) | none of its own: locals of a coroutine across awaits | create, replace, patch, delete of shells, Submodels, concept descriptions, elements, attachments, references; cached and uncached reads | persistence, cache, publisher |
| persistence (`persistence/`) | rows with document bytes and ETag; blob rows | get, exists, create, update, delete inside a session that commits or rolls back (READ COMMITTED, no `FOR UPDATE`) | blob storage |
| cache (`cache/redis.py`) | document + ETag pairs (3600 s), element `$value`s (300 s) | get, set, delete, drop the values of a Submodel | repository API |
| publisher (`events/publisher.py`) | none | created, updated, deleted events | event bus |
| GraphQL mutations, MQTT subscriber (`graphql/schema.py`, `connectors/mqtt_subscriber.py`) | none | write the same rows, no cache, no events | persistence |
| job queue (`jobs/queue.py`) | `titan:job:<id>`, lists pending, processing, DLQ | submit, claim, complete, fail, cancel | worker, jobs API, scheduler |
| job worker (`jobs/worker.py`) | tasks in flight | claim, run handler, complete or fail | queue |
| leader election (`distributed/leader.py`) | Redis lock with lease; `_is_leader` | acquire, renew, release, `@leader_only` | scheduler |
| scheduler (`jobs/scheduler.py`) | schedules with `next_run`, per instance | check, submit due jobs | election, queue |
| event bus (`events/redis_bus.py`, `events/bus.py`) | stream, consumer group, pending entries, dead letters | publish, consume, claim idle, dead-letter | subscribers |
| single writer, batch writer (`events/worker.py`, `batch_writer.py`) | in-process queue | batch and write | persistence |
| federation (`federation/sync.py`, `peer.py`, `conflicts.py`) | change queue, conflicts, peers | record, push, pull, resolve | peers over HTTP |
| edge controller (`federation/edge.py`) | offline queue, connection, tasks | queue, sync, reconnect | hub over HTTP |
| registry, discovery (`api/routers/registry.py`, `discovery.py`) | descriptor rows, asset links | CRUD, database only | persistence |
| operation execution (`core/operation_executor.py`) | invocation rows | invoke, status, result | persistence, cache, event bus |
| packages, import/export (`packages/`, `api/routers/aasx.py`, `serialization.py`) | package rows, files | upload, versions, rollback, import, export | persistence, storage |
| blob storage (`storage/`) | files; rows of `blob_assets` | externalize, retrieve, delete | repository API |
| subscriptions (`graphql/subscription_manager.py`, `api/routers/websocket.py`) | a queue per subscriber | fan out, drop | event bus |
| rate limiter (`api/middleware/rate_limit.py`) | sorted set per client | is_allowed | Redis |
| connectors (`connectors/`) | a client, its state and a lock; polled registers | connect, reconnect, publish, poll, write | broker, devices, event bus |
| plugins (`plugins/`) | loaded plugins, hooks by priority | load, unload, execute hooks | whoever executes hooks |
| access control (`security/`, `tenancy/`) | policies of the engine | add, remove, evaluate | routes |

`PROJECT.json` lists these and the rest (validation, exports, dashboard, metrics), with
what is modelled of each.

### 1.2 What is hard

A replica is one asyncio process; a handler runs alone from one `await` to the next,
and everything another coroutine or another replica does happens at the awaits. No
handler holds a row lock across awaits, nothing compares ETags inside an `UPDATE`, the
cache is written after the commit, and each Redis call of the queue and of the election
is a step of its own. So what can go wrong is in the interleavings: fills that race
writes, a decision on a row that is no longer there, a job read before and written
after a cancel, a lease that ends between `GET` and `EXPIRE`; and in handlers cut short
between two steps (exception, cancelled request, killed process). The parts beside the
documents add queues that are copied and replaced around an `await` (federation, edge
controller, batch writer), loops over lists that others change (scheduler, plugins,
broadcasts), locks that many coroutines queue for (connections), storage that is not
part of the transaction (blobs, packages), and transactions that check in one statement
and write in the next (imports, registry). `PROJECT.json` lists each as a hazard at its
line.

### 1.3 What makes each part correct

- repository API: an update never brings a deleted document back, all an operation
  changes together changes together, nothing uncommitted is cached, served as a
  `$value` or published; sequential clients never see a stale cache; stale entries go
  away.
- job queue: a job is with one worker at most, and in one list at most; without
  faults none is lost, finished jobs stay finished, retries run out.
- election: one leader as long as everybody is on time, nobody removes another's lock,
  there is always a leader again.
- event bus: an event is handled at least once by every handler, or dead-lettered; it
  does not stay pending.
- scheduler: an instance submits a job once per match of its expression, and what is due is
  submitted, while schedules and leadership change. (Not: once per match among all instances;
  see 3.1.)
- in-process bus and batch writer: batches keep the order of the events, a failed one is
  written later.
- federation and edge controller: a change leaves the queue because somebody has it, not
  because two syncs overlap; peers do not go back to older documents.
- registry: lookups by asset and semantic id, up to their limit, find what the descriptors say.
- collections: pages show every row once, imports keep what they are told to keep.
- operations: a handle names its own invocation.
- packages and blobs: histories are complete, rows have their files.
- subscriptions: nobody misses an event because of somebody else; a slow client loses
  old events.
- rate limiter: no window over the limit, and nobody refused for older windows.
- connections: a live client is not replaced, nobody waits for ever.
- plugins: dependencies are there, no hook is skipped. Access control: the engine decides
  by priority, and tenants stay apart.

## 2. Modules

```
 DocumentStore  <--implements--  Repository --EXTENDS--> RequestSteps
                                     ^
                   RepositoryInvariant (IInv)
                     ^             ^
             MCRepository   RepositoryProofs        MCRepositoryScenarios

 JobPool  <--implements--  JobQueue  <--  JobQueueProofs

 EventStream  <--  EventStreamProofs, MCEventStream
 MCDocuments, RepositoryProofs  <--  DocumentsProofs
 MCServices, JobQueueProofs  <--  ServicesProofs
 MCBackground, JobQueueProofs  <--  BackgroundProofs
 MCLinks  <--  LinksProofs

 MCDocuments  = Repository, Operations, Registry, Collections, Blobs, Packages
 MCServices   = JobQueue, FederationSync, RateLimit, Subscriptions, AccessControl, Plugins, EdgeSync
 MCBackground = LeaderElection, JobQueue, Scheduler
 MCLinks      = Connection, BatchWriter, ModbusSync, EdgeSync
```

`A <-- B` reads: B extends A. The proofs about parts that are composed extend the composition,
so that they can say what the parts do in it. **Absence** declares what None is, for the modules that a
module of proofs extends together; **NumberSets** has facts about sets of numbers (least
and greatest members, sizes of sets within bounds) that several proofs need.

**RequestSteps** is what all handlers share. `db` are the rows of the three document
tables, `cache` the document/ETag pairs, `values` the element `$value` entries, `event`
the event last published, `history` the documents ever committed (a history variable).
`req` holds the coroutines: the documents a request has read (`snap`) and the awaits it
still has to make (`todo`). One action is one await with the local computation up to the
next: `ValueGet`, `Lookup`, `ReadRow`, `Fill`, `ValueSet`, `SetCache`, `EvictCache`,
`DropValues`, `Publish`. A cache miss in `Lookup` adds the database read and the fill
that the code then makes.

**Repository** has one operator per handler, named after it, which says with which
awaits the handler starts (`GetSubmodelById`, `PutSubmodelElementForShell`, ...), and
one commit action per family of handlers (`CommitPut`, `CommitModify`, ...), which says
when the handler goes through with it, what it writes and which cache and event steps
follow. `Refuse` is every error response of the decision, `Abort` an exception, a
cancellation or a kill at any await, `Expire` and `ExpireValue` are the TTLs.

**DocumentStore** is what the handlers promise together: creation of a document where
there is none, replacement and removal of one that is there, a Submodel and its
reference removed in one step, and a cache that serves documents once committed or
nothing.

**JobQueue** has one action per Redis command of `submit`, `claim_jobs`, `complete_job`,
`fail_job` and `cancel_job`; `worker[w].pc` is the command that comes next and `copy` the
record the coroutine has read and is going to write back. Faults: a lost answer of the
`LREM` of `complete_job` (the `except` of `_process_job` is around it),
`complete_job` raising, a worker or a client dying at any command, expiry of the job key.
**JobPool** is the promise: jobs go from new to waiting to one holder, who drops them or
returns them to waiting.

**LeaderElection** separates the execution of a command in Redis from the arrival of its
answer (`ExecuteSet`/`Elected`, `ExecuteExpire`/`Renewed`), counts time in ticks (`ttl` of
the lock, `timer` of each instance) and remembers whether somebody took longer than
`Latency` for a turn of the loop (`late`). `Enter` .. `Exit` is `async with` and
`@leader_only`.

**EventStream** is the bus over one Redis stream and one consumer group, with an instance's
loop as `consumer[c]`: `Scan` (`XPENDING`), `Claim` (`XCLAIM`), `Fetch`, `Bury`, `Buried` (the
three commands of `_move_to_dead_letter`), `Read` (`XREADGROUP`), a step for each handler that
returns or raises, `Acknowledge` (`XACK`). `todo` keeps what Redis reported, with the delivery
counts of that time, while others go on; `Age` makes any pending entry idle at any time, so
a slow consumer is taken for a dead one. `Publish` trims as an approximate `maxlen` may.
Faults: a stop or kill at any command, errors of every Redis command, executed or not
(`ReadRaises`, `ClaimRaises`, `CaughtOnTheWay`, by the `except` that catches them).
`Start` and `Subscribe` are separate because `api/app.py` starts the bus first.

**Scheduler** keeps for every instance its schedules, `nextRun` and where its loop is; time
goes in minutes, an expression is its sets of minutes, hours, days, months and weekdays,
and `NextRun` searches as `CronExpression.next_run` does, up to the end of a month where
`replace(day=day + 1)` raises. `_check_schedules` awaits every submission, so add, remove,
enable, disable, a lost leadership or a crash come in between, and the loop over the
dictionary raises when it has changed size.

**BatchWriter** is the in-process bus with the batch writer behind it: `bus` is the loop that
hands events over, `timer` the flush loop, `stopper` whoever calls `stop`; `flushing` is the
batch each of them has taken out of `buffer`, and a failed flush puts it back in front.

**Operations** follows an invocation: read the document (row or cache), check the arguments,
publish the event, insert the row, commit, answer; the client's `handle`s are what it asks
status and result with. **Collections** has transactions that check and write several
documents (`batch`, with the code's four ways to treat what exists) and a client that reads
pages through the three kinds of lists. **Registry** has rows with document and columns and
the statements of every handler on them, flushed but not committed until the end. A shell's
document has its asset twice, as `globalAssetId` on top (`index`) and in `assetInformation`
(`info`): the column of the lookups is that of the first, the asset links answer the second if it
is there, and validation copies it to the top only where the top has no key (`Normalized`). A
lookup answers any `LookupLimit` of the rows that have the value when there are more. Of the list of
nested descriptors in a shell's document there is how many have each identifier, since a replacement
may give two of them the same one. **Packages**
has `package` rows (file, version, previous), `files`, and a handler per route; a walk along
the versions is one step. **Blobs** has the document's references, `assets` and `files`; a
write stores new files, reads the row, deletes files and commits.

**FederationSync** has the change `queue`, peers that fail, come and go and write documents
themselves, runs of `sync_once` (`sync`: the peer at hand, the changes copied for it, what it
took) that may overlap, and conflicts with every strategy. **EdgeSync** has the offline queue
and the controller's coroutines as members of `EdgeTask`, each with the copy of the queue it goes
through; changes are numbered as they come, so that a list of changes is a set of numbers, as in
`FederationSync`. **Subscriptions** has WebSockets served by a broadcast that awaits one after another,
and GraphQL queues of bounded length. **RateLimit** has the sorted set of one key; a request
takes `stamp` and runs its transaction up to `MaxDelay` later. **Plugins** has tasks that load
and unload under the registry's lock and callers that execute hooks without it. `Visit` is one
entry or exit of the recursive `visit` of `_sort_by_dependencies`, with the calls under way in
`path`; `Listed` is the order in which each class names its dependencies.
**AccessControl** is the decision on a request as a function of policies, roles and tenant,
over all policies added and removed in any order.

**Connection** is the connection manager that MQTT, OPC UA and Modbus each have a copy of:
`lock` is the queue of the `asyncio.Lock`, `at[t]` where a publisher, the reader, the reconnect
loop or `disconnect` stands, `client` whether the client they share is alive. **ModbusSync** is
the poll of a register with its debounce and the writes of element events.

The MC modules of composed parts choose a `part` at the start; the others keep their initial
state. One TLC run then checks parts that share no state, and no state of one is multiplied by
those of another. What the parts do share is in the modules themselves: the scheduler has the
election's verdict and the queue's answers, operations the cached document and the event bus.

### 2.1 Abstractions

- A document is the set of marks of the edits in it and, for a shell, the Submodels it
  references; what an edit writes is its mark. Equal documents have equal ETags, as the
  ETag hashes the canonical bytes; two requests never send equal bodies, so a document
  that is changed and changed back is not an equal one here.
- `repo.update`, the flush and `commit` are one step: the changes of an open transaction
  are not visible, and the row lock taken by the flush orders writers.
- One `$value` key per Submodel: a `$value` stands for the document it was extracted
  from, and dropping the values is one step.
- `event` is the last event only; nothing is said about the order of two events.
- In `DocumentStore` a create that overwrites would not be told from a replacement; that
  the row is absent is the guard of `Create`, and a stale decision to insert fails.
- A refused `SET NX` is one step with its answer, since the answer changes nothing. A
  restarted instance keeps its name in the model; the code draws a new one, which only
  makes its own old lock a stranger's.
- An event of the stream is its position. `handled` is a history of handlers that returned;
  what a handler does with an event is not modelled. The owner of a pending entry is left
  out, since neither `XPENDING` nor `XCLAIM` nor `XACK` is used with it.
- An event that cannot be decoded is one whose first handler raises. A restarted instance
  keeps its name.
- Left out of `Repository`: bulk mutations, imports and lists (in `Collections`), operation
  invocation (in `Operations`), and what becomes of files (in `Blobs`).
- In `Collections` a row's `created_at` is the start of its transaction, as PostgreSQL's
  `now()`, and no two transactions start at one time. Of a document only the transaction
  that wrote it last is kept.
- A handler of `Registry`, `Packages`, `Blobs` and `Operations` is one transaction; what it
  flushed is invisible to others and holds the row until it ends. Statements that only read
  are joined with the step that uses them, unless somebody can write in between.
- In `FederationSync` a document's version and its ETag are the number of the change that
  wrote it; a peer's documents change by its own writes and by our pushes.
- In `Scheduler` hours, days and months are short (2 minutes, 2 hours, 1 or 2 days in the
  runs), which changes no condition of the code; the end of a month comes within the horizon.
- In `RateLimit` equal stamps are one member of the sorted set, as in Redis.
- One handler per plugin and hook type; every load is of a new object, as `load_all` does.

## 3. Runs

| run | bounds | shows |
|---|---|---|
| `shell` | 1 shell, 1 Submodel, 2 concurrent requests, 2 mutations, over full tables, HTTP writers only | `IInv`, `ImplementsStore` |
| `scenarios` | one key of each kind with 1 request at a time, or 1 Submodel with 2; 2 mutations; GraphQL and MQTT writers; fairness | `NothingUncommittedLeaks`, `StalenessEnds` |
| `documents` | 1 shell, 2 Submodels, 1 concept description, 1 request, 2 mutations; 2 requests at a time: 3 over 2 rows of either registry table with lookups of 1 row, 3 packages, 2 invocations, 3 transactions and pages of 2, 2 blobs | types, `SequentialFresh`, `LookupsMatch`, `PackagesHold`, `HandlesHold`, `PagesCompleteUntied`, `AttachmentsWhole`, `ImportsKeep` |
| `services` | 2 jobs, 2 workers, 1 client, all faults; 2 peers, 2 changes, 1 sync at a time with writes of the peers, or 3 changes in a queue of 2 and 2 syncs that overlap; offline queue of 2, 3 changes; 2 sockets, a queue of 2; limit of 2; 3 plugins; 3 policies | types, `InOneListOnce`, `ImplementsPool`, `ChangesKept`, `KeptUntilTaken`, `SubscribersServed`, `LimiterExact`, `PluginsHold`, `AccessHolds` |
| `background` | 2 instances, lease 6, interval 2, latency 1, body 3, 2 faults; 3 jobs, 2 workers, 2 retries; 1 scheduler with 2 jobs, 2 edits and a failure, or 2 schedulers with 2 changes of who leads or runs, 5 minutes over a month end; fairness | types, `OneLeaderUnlessLate`, `OnlyOwnersUnlock`, `LeaderAgain`, `NothingLost`, `FinishedStays`, `EveryJobEnds`, `OncePerMatchAndInstance`, `DueIsSubmitted` |
| `links` | 2 publishers, 1 reader, 2 attempts, 1 loss; 4 events in batches of 2, 2 outages; 2 changes, 2 edge tasks; 1 register, 4 values; fairness | types, `LiveClientKept`, `EveryCallAnswered`, `BatchesInOrder`, `EveryEventFlushed`, `EveryChangeTried`, `RegistersFollowed` |
| `event_stream` | 2 instances, 2 events, batches of 2, 2 deliveries, stream of 1, 1 fault, which only one of them has; fairness | `AtLeastOnce`, `DeliveriesBounded`, `EveryEventSettled` |
| `conditional_write` | 1 Submodel, 2 requests | `ConditionalWriteOnlyIfUnchanged` is violated |
| `one_leader` | 2 instances, no faults | `OneLeader` is violated |
| `event_processed` | 2 instances, 2 events, 1 handler after the start, no faults | `EveryEventProcessed` is violated |
| `pages_complete` | pages of 1, 2 transactions | `PagesComplete` is violated |
| `every_peer_takes` | 2 peers, 2 changes | `EveryPeerTakes` is violated |

**Why the bounds are enough.** `MaxMutations` counts mutating requests, so two of them
and any number of reads: every hazard of the API is a race of two writers, or of a
reader and a writer, on one row or on a shell and a Submodel it references; a third
request is like one of them for the row. Rows may be there from the start
(`Init` allows every combination); `shell` starts with all of them and leaves the GraphQL
and MQTT writers and the handlers cut after a commit to `scenarios`, which runs the whole
`Next`: two clients over the Submodels when the other tables are empty from the start, one
client over every key otherwise. In the
queue two workers and a client are the parties of every race (claim against cancel,
completion against cancel, failure against cancel), and two retries give a job that
fails, is retried, and is buried. In the election a third instance adds a second
contender for a free lock, nothing else; the times are in the proportions of the
defaults (30 s, 10 s). In the stream two instances are the slow one and the one that claims;
two events fill a batch, and make the stream trim one; two deliveries let an entry be claimed
again before it is buried; the instances are interchangeable, so it is enough that a given one
(`Unsteady` of `MCEventStream`) has the fault, and there the late handler subscribes. In `documents`
two requests are the parties of every race over one
row, two documents the smallest import that can fail half-way, pages of two among rows that
share a timestamp the smallest that can lose one, and three packages the shortest history with
a middle; a third request to the registry reads or repairs what two have left, one of the two
tables at a time since they share nothing, and two rows exceed a lookup limited to one. In
`services` two peers tell the first from the next, both queues of two overflow with three changes
(the federation's while two syncs go through copies of it; there the peers are only pushed to,
since what a pull answers has no part in the queue), two sockets tell the one that breaks from the
others, three plugins give chains
and cycles of dependencies, three policies a tie and a loser. In `links` two publishers and the
reader make three waiters for a lock, four events fill two batches. In `background` a second
scheduler is the one that takes over; it has the same expressions, since every instance registers
the same jobs when it starts. For the safety properties
that are proved, section 5 lifts the bounds.

**Symmetry** (requests, identifiers, jobs and tasks) is used in `shell`, `documents` and
`services`, where no liveness is checked. **Deadlock** is not checked where the bounds on
requests, events, changes and time let the system rest, or where nobody runs (all runs but
`shell`, `scenarios` and the violation runs on them say so in their configuration).

**Fairness.** `FairSpec` of Repository: the event loop resumes every coroutine whose
await has completed, and Redis expires every key with a TTL; no fairness for clients
and for faults. Bursts of writes end by the bound on mutations, which is what
`StalenessEnds` speaks about ("once the writes have stopped"). `CalmSpec` of JobQueue:
workers poll in a loop and handlers end; a submit that has begun goes on. `FairSpec` of
LeaderElection: Redis answers, the loop goes on, time passes; nobody is obliged to start.
`FairSpec` of EventStream: a loop that runs takes its next step, a handler returns or raises,
and an entry that nobody touches becomes idle; nobody has to publish, start or subscribe.
`Scheduler`: the loop of an instance goes on; time need not pass. `Connection`: a coroutine that is
served or has slept goes on, a connection attempt
ends one way or the other; `MaxLosses` bounds how often one breaks. `BatchWriter`:
the bus loop and the timer go on, a flush ends, outages are bounded. `EdgeSync`: coroutines go
on, and attempts to connect that are repeated for ever succeed at some time (strong fairness of
`ConnectSucceeds`, the only assumption about the other side: a hub that is never there takes
nothing). `ModbusSync`: reads do not fail for ever. The registers' property is about values
that stay, so nobody has to stop changing them.

### 3.1 Disagreements between documentation and code

- `conditional_write`: `src/README.md:440-446` promises that a PUT with `If-Match` only
  happens if the resource has not changed. The handlers compare the tag with a row read
  one query earlier; two PUTs with one tag can both answer 204.
- `one_leader`: `distributed/leader.py:66-67` and `src/docs/adr/0004-redis-leader-election.md:20`
  exclude two leaders; an instance that is late to renew still has `_is_leader`.
  `OneLeaderUnlessLate` is what does hold.
- `event_processed`: `src/docs/adr/0003-redis-streams-events.md:17` says that every event must
  be processed. The application starts the bus (`api/app.py:113`) before it subscribes the
  handlers (126 to 181); what the loop reads in between is acknowledged unheard.
  `AtLeastOnce` is what does hold, for the handlers that are subscribed first.

- `pages_complete`: `api/routers/submodel_repository.py:256` promises consistent results across
  pages and `api/pagination.py:8` describes cursors of `created_at` and id; the queries continue
  after `created_at` alone (`persistence/repositories.py:263`, 303), and an import gives all its
  rows one `created_at`. `PagesCompleteUntied` is what does hold.
- `every_peer_takes`: `federation/sync.py:41` says that all peers sync with each other; the
  changes the first peer takes leave the queue (`federation/sync.py:376`) before the next one is
  visited. `ChangesKept` is what does hold.

Remarks without a run of their own, met while modelling:

- `cache/__init__.py:5` says that the cache is invalidated on
writes; GraphQL and MQTT writes do not do so. `StalenessEnds` shows that the TTL heals it.
- Routing. Starlette takes the first route that matches, so `GET
  .../submodel-elements/{id_short_path:path}` (`submodel_repository.py:911`) also takes
  `.../$value`, `$metadata`, `$reference`, `$path`, `/attachment` and the status and result of
  operations, and `POST` to the path (1651) takes `/invoke`; the same in `aas_repository.py`,
  and the registry's bulk `DELETE` is taken by `/{identifier}`. `src/docs/api-guide.md:179`
  documents `POST .../invoke`. The shadowed handlers are modelled as they are written.
- Operations. `user.subject` is no attribute of `User`, so an authenticated invocation fails;
  nobody calls `update_state`, so no invocation ends although the client is told to poll
  (`submodel_repository.py:2393`); the Redis bus cannot deserialize the invocation event, which
  becomes a dead letter.
- Packages. The tag route always fails (`PackageManager(session)` lacks an argument); a package
  with two successors makes `list_versions` fail; `get_package_version` and `compare` look only
  backward; the export of XML and the batch export call methods `AasRepository` does not have.
- Imports. One failed flush fails the whole import though errors are collected item by item;
  "merge" and "newer" leave an existing document as it is; an import writes no cache and no event.
- Scheduler. Every instance keeps a `next_run` of its own and advances it only while it leads
  (`jobs/scheduler.py:284-300`), so the leader after a failover finds the matches that the one
  before has submitted still due and submits each once more. `jobs/scheduler.py:146` speaks of
  one scheduler in a distributed environment, `src/docs/adr/0004-redis-leader-election.md:13` of
  avoiding duplicate requests and `src/docs/ha-guidance.md:110` of the impact of duplication.
  `OncePerMatchAndInstance` is what does hold; the run's two schedulers do submit the same match
  twice.
- Registry. A shell's descriptor may name two assets, in a single POST that nobody disturbs: its
  asset links then name that of `assetInformation` (`api/routers/discovery.py:317`), and lookups
  find it by the other one only (`persistence/registry.py:106`, 131). `LookupsMatch` demands that
  the links lead back for the documents that do not.
- Registry. An UPDATE carries only the columns that differ from what the SELECT before it has
  read. When another request changes the row in between, the row may end with a column of one
  document and the rest of another, until the next update that has seen it. The history field
  `crossed` marks these rows, and `LookupsMatch` is about all the others.
- Blobs. Two updates of one Submodel that overlap, or a rollback after files are deleted, leave
  references to files that are gone; a deleted Submodel leaves its `blob_assets`.
- Connections. MQTT's manager is never told of a connection that breaks while nobody uses it
  (`connectors/mqtt.py:196`, "Automatic reconnection with exponential backoff"), and `FAILED` is
  final.
- Batch writer. `stop()` cancels a flush half-way, whose batch is lost
  (`batch_writer.py:97`, "Graceful shutdown with buffer drain"); its drain takes no lock. The
  application does not use it.
- Subscriptions. Nobody starts the GraphQL manager in the application; `stop()` does not end a
  subscription whose queue is full (`subscription_manager.py:165`).
- Plugins. A load while hooks are executed makes a handler run twice, or a higher priority after
  a lower one; a hook of an unloaded plugin may still run; an `on_load` that calls the registry
  waits for its own lock.
- Access control. The application does not install `TenantMiddleware` and never passes
  `resource_owner`, so `AllowOwner` never applies.

## 4. Properties worth a second look

- `ImplementsStore` fails as soon as some handler commits without a row, or caches before
  its commit; it holds although handlers decide on cached documents, because every
  update reads its row again.
- `SequentialFresh` says that with one client at a time no handler leaves stale entries
  behind: it relates the commit of each of the handlers to the cache steps it makes.
- `InOneListOnce` holds although `cancel_job` works on a job that a worker has in hand:
  `fail_job` and `complete_job` only add a job to a list after removing it from the one
  it may be in, and a job in hand is never in pending.
- `ImplementsPool` is what `claim_jobs` calls preventing duplicate processing. It does
  not say that a job runs once: a lost answer lets a completed job run again (at least
  once), and a crash leaves it unrun; neither `NothingLost` nor `FinishedStays` holds with
  faults or cancels, which is why they are stated for `CalmSpec`.
- `OneLeaderUnlessLate` needs `Interval + 3 * Latency < LeaseTtl` (`LeaseAssumption`):
  the answer to a `SET`, the sleep, `GET` and `EXPIRE`. For `@leader_only` it needs a
  function shorter than the lease; this is an assumption about its users, nothing in
  the code enforces it.
- `AtLeastOnce` holds although an `XACK` may come from a consumer whose entry was claimed by
  another one long ago, and although the dead letter is written on an old report: both
  only acknowledge what they have handled or buried themselves. It says nothing of events
  that were trimmed before they were handled.
- `DeliveriesBounded` is not the bound `MAX_RETRIES` seems to promise: an instance claims on a
  count reported before it handled the earlier messages of its batch.
- `AttachmentsWhole` and `OwnBlobs` differ in scope: overlapping writes may lose a document its
  own files, never another document's.
- `PackagesHold` leaves out two successors of one package (`Branched`), for which the code fails,
  and files that a failed request has left behind.
- `KeptUntilTaken` holds although `_sync_now` replaces the whole queue: it does so without an
  `await` after the last push, and keeps what it does not know.
- `LimiterExact` needs the bound on the delay of a transaction: one that is later than that finds
  the entries of its window removed by a request of the next. Requests that share a stamp count
  once.
- `NoneSkipped` holds although the list is sorted and extended under the loop: a handler only
  moves backward when the list is replaced, not changed.
- `EveryCallAnswered` speaks of callers that wait for the lock behind a reconnect loop that
  sleeps without it; it would fail if the lock were kept over the back-off, or not given back
  by a failed attempt.

## 5. Proofs

All theorems hold for any constants that satisfy the named assumptions below, whatever the
number of keys, requests, jobs, workers, instances, peers, subscribers, packages and so on. The
assumptions say that bounds are numbers, that None is none of the values it could be taken for,
and, where the program needs more to be correct, just that:

| assumption | what it asks of the constants beyond that |
|---|---|
| `ConstantsAssumption` (RequestSteps) | shells and Submodels have different identifiers |
| `LeaseAssumption` (LeaderElection) | the interval and three latencies fit into the lease, and so do a guarded function and two latencies |
| `SchedulerAssumption` (Scheduler) | hours and days have a length, months go on up to the horizon |
| `TaskAssumption`, `AttemptsAssumption` (Connection) | the setup, the loop and the stop are no publishers or readers; one attempt at least |
| `ModbusAssumption` (ModbusSync) | a change takes one read at least; readings are values of a register, mappings name registers, and a scale, of either sign, has a denominator |
| `StreamAssumption` (EventStream) | finitely many consumers; one retry, one message in a batch and one in the stream at least |
| `CollectionsAssumption` (Collections) | finitely many documents; pages of one row at least |
| `RegistryAssumption` (Registry) | the two tables have different rows; no link is a value of the index column; lookups of one row at least |
| `AccessAssumption` (AccessControl) | finitely many policies, each of a kind the code has |
| `PluginsAssumption` (Plugins) | finitely many classes, each of which names the others in some order |
| `FederationAssumption` (FederationSync), `SubscriptionsAssumption` (Subscriptions) | queues of one change, of one event at least |
| `EdgeAssumption` (EdgeSync) | finitely many tasks, none of which is 0 |
| `JobAssumption`, `OperationsAssumption`, `BlobsAssumption`, `PackagesAssumption`, `LimiterAssumption`, `BatchAssumption` | nothing |

### 5.1 Documents

**RepositoryProofs.** `Invariance` proves `Spec => []IInv`; `TypeCorrectness`, `NoLeak` and
`Refinement` follow from it. `NothingUncommittedLeaks` is not inductive: a request that is
about to cache or publish a document must be known to have committed it
(`WellCommitted`), a fill must have something to fill in although the lookup before it may
miss (`WellRead`, `Available`), a handler must not rely on a row that its probe may
not have found, and the body of a request that has not committed yet must be new
(`WellNumbered`), so that a created document is not one of the past. The proof has one
step per action; the steps of reading, of committing and of announcing share lemmas on
what happens to a request when its first step is taken off.

`NothingStaleAlone` proves `SequentialFresh` from `AloneInv`: a request that is alone has
up-to-date entries before its commit (`UpToDate`), and after it owes the cache exactly the
steps that are still on its list (`Owing`): for each key the commit changed a `SetCache` or an
`EvictCache`, for each Submodel a `DropValues`, and a Submodel's reference in its shell comes
last. GraphQL and MQTT writers owe nothing and pay nothing, which is why the property leaves
them out.

**DocumentsProofs** is about the other parts of `MCDocuments`.

Operations: `OInv` says of each request in flight that what it has read is a committed document that
declares what it asks for, that its number is
its own until its row is there, and of each handle that its row is as it asked.
`HandlesAlwaysHold` follows since rows are never rewritten, and the shell's route asks the same
rows.

Registry: `RegistryInv` is about rows that are flushed and not committed: the unique index and the
row locks keep them apart from those that others see and flush (`VisibleDiffer`, `FlushedApart`),
and every row, committed or flushed, has the columns of its document unless two updates have
crossed in it (`AllInStep`): an INSERT writes all of them, and an UPDATE that finds the row as its
SELECT did leaves those of the new document, whatever was there before (`UpdateInStep`).
`IdentifiersDiffer` and `LookupsAgree` follow; the latter needs that a lookup below its limit
answers all rows that have the value. `RegistryTypesHold` adds
`RegistryValues`, which says of every request what it carries to the statements ahead of it: what it
has flushed, the documents still to come, and, before it has read its document, an edit that can be
made in any document it may find there (`EditTyped`). Only that a replacement is of a nested
descriptor that is there (`Applies`) keeps their numbers from falling below zero (`EditedTyped`).

Imports and pages, attachments, and packages:
- `BatchInv`: transactions hold the documents they write to themselves (`Exclusive`), what they
  have decided fits what they hold (`BatchesFit`), and no two start at one time (`StartsDiffer`).
  `CommitsKeep` follows. `ListingInv` says what the pages so far have covered: every row up to the
  cursor that was there when the listing began and is still there. The cursor leaves rows
  of one `created_at` behind, so `PagesAreComplete` leaves out those that share one.
- `BlobInv`: identifiers of files are drawn once (`IdsApart`), an asset, a row and a write in
  flight name files of their own Submodel only (`AssetsOwned`, `RowsOwn`, `WritesOwn`), and while
  no two writes overlap, the files of a Submodel are there at each step (`Alone`).
- `PackagesInv`: types, what rows and requests may say of each other (`RowsFit`, `RequestsFit`),
  and, while requests come one by one, which file is there at each step of a request
  (`FilesHold`). `HistoryInv` adds that a version follows its predecessor's and that a request in
  flight has the number it will write. `PackagesAlwaysHold` needs that the walks of the model exist:
  `Root`, `Earlier` and `Onward` are recursive functions along `previous`, which goes to older
  packages, so
  a least (or greatest) package for which the walk is not defined contradicts itself; that takes
  `NumberSets` and no induction theorem.

`PartsBehave` shows that `MCDocuments` is a specification of each of its parts: whichever moves,
the others keep still, so every step of it is a step or a stutter of each. `DocumentsHold` then
states the theorems on the parts, the whole of `DocumentsTypeOK` included, for `DocumentsSpec`, which
the run `documents` checks, and `NothingStaleInDocuments` says the same of `SequentialFresh`. For
the types of the operations, the collections and the blobs it needs that what is counted stays
within its bound (`OperationsCounted`, `CollectionsCounted`, `BlobsCounted`), on top of their
inductive invariants.

### 5.2 Background work

**JobQueueProofs** is about the queue, for both runs that have one.
- `JInv` (`JobsInvariance`): `InOneListOnce` needs that a job in a worker's hands is neither
  waiting nor buried nor in another worker's hands (`HandsApart`), that `fail_job` has removed it
  before it is listed again, and that a submitted job is nowhere before its `LPUSH`
  (`SubmitsApart`). Lemmas on `Push`, `Removed` and `Front` carry the lists. `ListedOnce` and
  `Refinement` follow. `NeverLost` and `ResultsStay` are about `CalmSpec` and its invariant
  `CalmInv`: `JInv`, the status of the record at each step of the worker that has it (pending when
  popped,
  running until it writes, what it wrote afterwards), and that waiting jobs are pending
  (`Waiting`). Together with `HandsApart` this says that nobody writes the record of a finished
  job, since only its holder writes and a holder's record is unfinished until he is done.

**BackgroundProofs** is about the election and the scheduler.
- `LInv` (`LeaseInvariance`) says, as long as nobody is late, what an instance that leads has left
  of the lease at each await: enough for what remains of its sleep and of the turn after it
  (`Covered`). `EXPIRE` of a lock that has changed hands is excluded by that. `LocksAreSafe` needs
  only the script of the release and the types.
- `SchedulerInv` says of each instance that its check is not ahead of the clock and comes to a job
  once (`ChecksInTurn`), that a scheduled job's `nextRun` matches and is after its last submission,
  unless that one failed, and that a job whose submission is awaited has matched since the one
  before (`TimeAhead`). `SubmittedOncePerInstance` follows with `NextRunIsAhead`: what `next_run`
  returns matches and is later than the time it is given.
- `PartsBehave` and `BackgroundHolds` carry all of this over to `MCBackground`, where the queue
  only makes the steps of `CalmSpec`: the type invariant and the five safety properties of the
  run `background` hold there for any constants.

**EventStreamProofs.** `SInv` adds to `AtLeastOnce` what makes it inductive: a running consumer
has the handlers it started with (`Subscribed`), the handlers before the next one have
returned for the message at hand (`InOrder`), and who is about to acknowledge a dead letter
has written it, unless the event is gone (`Buries`). The lemmas `Moved`, `Others` and
`StillAtLeastOnce` carry the steps; `Delivered` shows that a read skips only what was trimmed.
`ClaimsInv` counts what `DeliveriesBounded` bounds: who can still deliver an event again has it on
a list with a stale count, each consumer at most once (`ReportedOnce`), so that the deliveries so far
and the claims still possible stay under the bound (`RoomLeft`).

### 5.3 Services

**ServicesProofs**, one section for each of its modules:
- limiter: a counted request whose window has not passed is an entry of the set
  (`NoneForgotten`), and whoever is on its way is not later than the delay (`InTime`). Without
  the bound on the delay `NoneForgotten` is false.
- federation: `FedInv` says what each run has tried and pushed (`GoodRuns`, `SyncedTaken`), that
  what a peer took is not after the peer's stamp unless a run is still at it (`TakenStamped`),
  that `alone` means that nobody else runs (`AloneRuns`), and that a run goes through its changes
  in their order (`InOrder`). `FederationKeepsChanges` follows step by step.
- edge controller: a task has pushed only what the hub has taken (`TasksHonest`), and the queue
  holds numbers of changes, at most as many as it may (`QueueHolds`). `EdgeTypesHold` bounds the
  attempts: a sync does not look at them between its copy of the queue and the push, so that a
  change may be tried once more by every task that is at it. `AttemptsHold` counts those tasks
  together with the attempts; a push that ends moves one from the former to the latter.
- subscriptions: `SubscribersInv` says what each socket has been sent, while a broadcast is at a
  certain socket and others come and go (`Told`), and that a GraphQL queue and what was yielded
  from it are ascending and without a gap at their end.
- access control: `policies` are those of `added`, in the order of their numbers and, among equal
  ones, of their addition (`Arranged`). The sort after each `add` is a permutation because the
  rank of each policy (how many stand before it) differs from all others. That the list is as long
  as `added` (`AccessTypesHold`) is a matter of counting a list without repetition
  (`AsManyPlaces`).
- plugins: `LoadedInFull` needs that what a task has checked under the lock stays so until it
  has the registry changed (`InsideLock`); `NoneSkipped` that the list is sorted and that what
  a run has not come to is ahead of it, in the list it goes through (`HandlersSorted`, `RunsOn`).
  That `load_all` leaves out none that could be loaded needs the order in which it loads.
  `VisitsKeep` follows the visits one by one: each enters a class or leaves one, so that twice as
  many as there are classes visit them all (`ClassesSorted`), and a class comes before one that it
  depends on only where that one is higher up in `path`, and so needs it in turn (`Needs`,
  `LateOnly`). `ServedInv` carries this through the loads: what a task wants is loaded, still to
  come, or lacks a dependency that can no longer come without it (`Served`).
  `PluginsAlwaysHold` is all of `PluginsHold`. `PluginsTypesHold` adds that a run stays within the
  handlers it goes through, which shrink under it only when a plugin is unloaded (`RunsWithin`).
- `ServicesBehave` and `ServicesHold` carry these over to `MCServices`, with the whole of
  `ServicesTypeOK`. The engine's list of
  policies is empty there while another part moves, which its specification alone does not start
  with; `AccessInv` holds of it all the same.

**LinksProofs.**
- `CInv` (`ConnectionInvariance`) says that who waits or is served stands in `lock` exactly once
  and only its head is served (`Queued`), that a live client is known as connected and that a task
  that opens a connection has found no live client with the lock in hand (`Known`), and that the
  setup comes first and `disconnect` once (`Ordered`). `ClientKept` is `LiveClientKept`, an action
  property that follows from it step by step: without `Queued` a second waiter would open a client
  over the first one's. The lemmas on entering, leaving and serving a queue carry the lock.
- `BatchesInOrder` is not inductive: `BInv` (`BatchInvariance`) adds that the lock lets one of bus
  and timer flush at a time and that only who flushes holds events (`OneFlush`). The proof is
  about sequences: a flush cuts the buffer, a failure concatenates it back, and what is left stays
  the end of what was accepted (`EndOf`). `BatchTypesHold` adds that the queue keeps its size and
  that everything between the bus and the rows was accepted (`BatchBounds`).
- `NoiseInv` says what the counter of a poll counts: the last reads, all of which found the value
  that is pending (`CountsReads`). `NoiseNeverPublished` is `NoiseStaysOut`, the safety half of
  `RegistersFollowed`; it holds for any readings and mappings. `ModbusTypesHold` needs that a
  conversion is refused or gives a value of a register (`ValuesInv`), for scales of either sign:
  `value_to_register` divides by whatever the configuration says, compares the quotient with the
  limits of a register and only then truncates it.
- `LinksBehave` and `LinksHold` carry these over to `MCLinks`, with the whole of `LinksTypeOK`.

### 5.4 What the proofs rest on, and what they leave

`IInv` is an invariant of the run `shell`. The inductive invariants of the registry, blobs,
packages, scheduler, plugins, access control, the register polls and `AloneInv` were checked by TLC on
small constants before they were proved: completely, but for `BlobInv` (to a depth of 25 steps) and
`PackagesInv` with more than three packages (10 million states). The others are conjunctions of
properties the runs check and of facts on the steps in between. `NumberSets` proves what the others
cite about numbers:
`Least`, by the well-foundedness of strict inclusion between finite sets, and `Within`, `MinOf`, `MaxOf`
from it.

**Checked by TLC only:**
- liveness (`StalenessEnds`, `EveryJobEnds`, `LeaderAgain`, `EveryEventSettled`, `DueIsSubmitted`,
  `EveryCallAnswered`, `EveryChangeTried`, `EveryEventFlushed`, and `StableArrives` of
  `RegistersFollowed`), which is out of the prover's reach.

Every invariant and every safety property that a passing run checks is stated by a theorem.

## 6. Not modelled, and why

- Projections of responses, serialization formats, validation, templates, RDF, Digital Product
  Passport, Catena-X: conversions without state.
- Dashboard, admin, health, metrics, profiling, CLI, audit, signing: reporting and input/output.
- OPC UA's values: one write per event to an external server. The single writer
  (`events/worker.py`): one write per event, not started by the application.
- The job worker's limit on concurrent tasks and its graceful shutdown, and what the task handlers
  do.
- Back ends of the storage: one store that keeps, returns and deletes.
- A second `start()` of the subscription manager or of the batch writer after a `stop()`: neither
  takes its handler back from the bus (`subscription_manager.py:151`, `batch_writer.py:132`), so it
  would have two
  and queue every event twice. `Subscriptions` and `BatchWriter` end with the stop; nothing in the
  application starts either again.
- `add_job` of a name that is there with another cron expression: a job keeps its expression, and
  adding it again replaces the record with its `next_run` only. A dictionary of schedules that is
  changed while it is iterated raises when its size has changed or a key is gone; CPython's
  compaction of it is not.
- The data types of Modbus mappings (`connectors/modbus/mapping.py:102-121`, 135-163): readings and
  values are numbers, and both conversions truncate, as the code's do for `int` (`register_to_value`
  of a `float` does not, a `bool` or a `string` is no number). No property looks at what a
  conversion returns beyond that it is refused or fits the register.
- A shell's `specificAssetIds`: no column repeats them, they are looked up in the document itself
  (`persistence/registry.py:192`).

## 7. What is left

The worker's shutdown and its limit on tasks.
