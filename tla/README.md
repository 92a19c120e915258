# Backbeat: a TLA+ model, its checks and its proofs

Backbeat moves the consequences of changes in an object store: it reads the
metadata log of a CloudServer, queues what it finds in Kafka topics, and has
consumers replicate objects to other sites, apply lifecycle rules, ingest
metadata, notify, and collect garbage. This directory models the parts of it
where the order of steps, a crash or a lost message can make the result wrong.

## 1. The system

| Component | State it keeps | Operations | Talks to |
|---|---|---|---|
| `BackbeatConsumer` + `OffsetLedger` | processing queue, pending `consume()` calls, ledger of offsets, stored offsets | `_tryConsume`, task completion, `onEntryCommittable`, rebalance, pause, resume, close | Kafka (assignment, fetch, commit), the task of the service |
| `BackbeatProducer` | messages without a delivery report | `send`, delivery report | Kafka |
| `TaskScheduler` | queue per key, dedupe cache | `push` | between consumer and task |
| Queue processor (`ReplicateObject`, `MultipleBackendTask`) | one task per entry | roles, refresh, data, metadata, outcome | source and target sites, status topic |
| Replay processors | as above, one per replay topic and site | as above | as above |
| Status processor (`UpdateReplicationStatus`) | one task per entry and key | refresh, decide, write metadata, request collection, push replay | source metadata, replay topics, GC topic |
| Garbage collector | none | delete data | source data |
| `BackbeatAPI`, retry of failed replications | lock per object and site in redis | status message, then replication message | status and replication topics |
| `CopyLocationTask`, the data mover | one task per entry | copy to another location, whole or in ranges | locations, transition processor |
| Queue populator, log readers, provision dispatcher | log offset in zookeeper, open cursor, provisions | read, filter, publish, save offset; elect, dispatch | metadata log, zookeeper, all topics |
| Lifecycle conductor | batch in progress, listing marker, index jobs, checkpoint in zookeeper | list buckets, control the backlog, create indexes, send bucket tasks | zookeeper, bucketd, MongoDB, bucket tasks topic |
| Lifecycle bucket processor, `LifecycleTask`, `LifecycleTaskV2` | entries in progress, heaps of noncurrent versions | list a page, queue the next one, apply rules | bucket and object tasks topics, data mover |
| Lifecycle object processors, `LifecycleQueuePopulator` | one task per entry | point metadata at a copy or an archive, expire, restore, requeue | object metadata, cold backend, GC topic |
| Oplog populator | connectors and their buckets, resume token | list buckets, follow changes, allocate, update pipelines | Kafka Connect, MongoDB change stream |
| Ingestion (populator, reader, producer), `MongoQueueProcessor` | snapshot state, log offset, paused locations | snapshot, tail, apply, pause, resume | remote bucketd, MongoDB, redis, zookeeper |
| Bucket notification | cache of configurations | filter, deliver | MongoDB change stream, target Kafka |
| Pause and resume of locations | zookeeper and MongoDB documents, scheduled job | pause, resume, schedule | consumers |

What is hard here:

* **Offsets.** A message is committed when it is processed and all before it
  are. Tasks end in any order, some only become committable later, answers of
  `consume()` arrive after a rebalance, and a partition moves between processes
  at any time.
* **Statuses.** The status of a site travels through a topic, is written over
  metadata that was read before, and decides whether the only copy of the data
  may be deleted. Entries come late, twice, from replays and from the API.
* **Metadata without conditions.** Lifecycle processors, the garbage collector and
  the status processor read an object's metadata, change it and put it back, while
  users and each other do the same; data is deleted on the strength of it.
* **Scans.** A bucket is listed page by page, each page queueing the next one,
  and what a rule keeps is counted in the memory of whoever gets the page.
* **Crashes.** Every service is restarted by its orchestrator, on errors too;
  what a process has sent and not seen delivered is lost with it.

What must hold: no message is committed unprocessed; the pipeline is bounded and
never stalls; rebalances end; COMPLETED is true and final; data is collected
only when every site has it; no site is forgotten PENDING; replays end; no
upload is left behind; no saved log offset passes an entry that is not queued; a
transitioned or archived object keeps its contents, and nothing else is kept;
only the object that was listed expires; each version gets the action the rules
call for, and the latest noncurrent versions stay; every bucket is scanned again
and again; ingestion misses nothing and brings nothing back; every enabled bucket
ends up listened to.

## 2. Modules

| Module | Models | Used by |
|---|---|---|
| `OffsetLedger` | `lib/OffsetLedger.js` for one partition, as operators on a ledger | `BackbeatConsumer` |
| `AtLeastOnceDelivery` | what a consumer group promises: the committed offset only moves up, over processed messages | refined by `BackbeatConsumer`, assumed by `ReplicationPipeline` |
| `BackbeatConsumer` | `lib/BackbeatConsumer.js`: the consumers of a group on one partition | runs `consumer_*` |
| `BackbeatConsumerProofs` | theorems about `BackbeatConsumer` | |
| `ReplicationPipeline` | `extensions/replication`, `extensions/gc`, the retry of `BackbeatAPI`: one object version, a set of sites | runs `replication*` |
| `QueuePopulator` | `lib/queuePopulator` and `bin/queuePopulator.js`: the populator processes on one metadata log | run `queue_populator` |
| `ReplicationPipelineProofs` | theorems about `ReplicationPipeline` | |
| `QueuePopulatorProofs` | theorems about `QueuePopulator` | |
| `MultipartRanges` | the byte ranges of a multipart copy, as operators | `LifecycleTransition` |
| `LifecycleTransition` | transition and expiration of one object: `LifecycleTask` (`_applyTransitionRule`), `CopyLocationTask`, `LifecycleUpdateTransitionTask`, `LifecycleDeleteObjectTask`, `GarbageCollectorTask` | run `lifecycle_transition` |
| `LifecycleTransitionProofs` | theorems about `LifecycleTransition` and the ranges | |
| `LifecycleRules` | which action the rules ask for: `LifecycleTask`, `LifecycleTaskV2`, `RulesReducer`, as operators | `LifecycleScan` |
| `NoncurrentRetention` | what `NewerNoncurrentVersions` promises | refined by `LifecycleScan` |
| `LifecycleScan` | the conductor, its backlog control, the bucket processors and both bucket tasks | runs `lifecycle_scan`, `lifecycle_conductor`, `lifecycle_retention` |
| `LifecycleArchive` | archive, restore and expiration of one object with a cold backend, and the filter of `LifecycleQueuePopulator` | run `lifecycle_archive` |
| `LifecycleArchiveProofs` | theorems about `LifecycleArchive` | |
| `IngestionReader` | batches of an `IngestionReader`, `IngestionProducer`, the filter of the ingestion extension, `MongoQueueProcessor` | `IngestionPopulator` |
| `IngestionPopulator` | the process around the readers: set-up, removal, pause, resume | run `ingestion` |
| `IngestionProofs` | theorems about `IngestionPopulator` | |
| `OplogPopulator` | `extensions/oplogPopulator` and the wrappers of Kafka Connect and the change stream | run `oplog_populator` |
| `Selections` | the members of a sequence that are in a set, in order | `IngestionReader` |
| `ProofLemmas` | lemmas about sums, sequences, sets and induction over the naturals | the proof modules |
| `MC...` | small instances | TLC |

Operators marked *Faulty* are wrong versions of the definition that follows them; they
are used to see that a property notices the fault, never by the specifications.

### 2.1 BackbeatConsumer

One partition, any number of consumers. JavaScript runs a handler to its end, so
each handler is an action, except the callback of `consume()`: it visits its
messages one by one (`ConsumeEntry`), and no other handler of that consumer runs
in between (`JsIdle`). librdkafka's threads (`Fetch`, `AutoCommit`) do.

| Variable | Code |
|---|---|
| `committed`, `owner`, `assigns` | Kafka's group coordinator (external) |
| `status`, `subscribed`, `position`, `fetched`, `stored` | librdkafka, seen through `isConnected()`, `subscription()`, `consume()`, `offsetsStore()` |
| `sizes`, `npending` | the outstanding `consume()` calls and `_nConsumePendingRequests` |
| `iter` | how many messages of the running callback are still to be visited |
| `kick` | a pending `_tryConsume`: `process.nextTick` or `_tryConsumedTimeout` |
| `tasks`, `deferred` | `_processingQueue`; entries ended with `{committable: false}` |
| `ledger` | `_offsetLedger` |
| `rebalance`, `closing` | progress of `_onRebalance`, `close()` waiting for `unassign` |
| `done`, `restarts` | history, bound |
| `reordered` | history: parallel `consume()` calls handed a message over before an earlier one |

A task may end, end deferred, or never end: the drain time-out is an action. `consume()`
is answered by the oldest call first, with the messages popped so far. Outstanding
calls run in worker threads of libuv side by side, so `Fetch` may hand a later message
over before an earlier one; `reordered` remembers it. The ledger takes the earlier
message for a replay then, and `AtLeastOnce`, `EventuallyAllCommitted` and the promise
of `AtLeastOnceDelivery` except this case by name; the other properties hold with it. A
revocation pauses fetching, but messages already popped still come: that is the stale
answer after a reassignment.

### 2.2 ReplicationPipeline

One object version and its metadata `v`, with content DATA, METADATA or a delete
marker. Sites are served by `ReplicateObject` or, in `CloudSites`, by
`MultipleBackendTask`. A processor per site and topic (replication topic, each
replay topic); one status processor; the garbage collector; the API.

| Variable | Code |
|---|---|
| `source` | metadata of the version at the source, its status per site, and whether its data is there |
| `target` | version of the metadata each site holds |
| `uploads` | multipart uploads a site has neither completed nor aborted |
| `stale` | history: sites where older metadata was put over newer metadata, or whose COMPLETED for older metadata was recorded in newer metadata |
| `partition`, `task` | per processor: entries after the committed offset with their stage, step of the task |
| `statusTopic`, `statusTask` | the same for the status processor; `statusTask.md` is the metadata read by the refresh |
| `gcTopic` | requests for collection |
| `outbox` | messages without a delivery report, per process, lost when it crashes |
| `retry` | the API's request and lock per site |
| `excused` | history: sites whose outcome may be missing: a skipped entry, a failed delivery, an error of the source, messages lost in a crash |

A partition is what `AtLeastOnceDelivery` promises, proved of the consumers: after
a crash any suffix of the processed entries, with all unprocessed ones, comes
again (`Redelivered`). Each step of a task can fail for good, after its retries.
A cloud gets an object whole (`GetAndPutObject`) or in parts: `InitiateMPU`,
`CompleteRangedMPU` for all parts together, `CompleteMPU`, whose error does not
tell whether the object is there, and `HandleMPUFailure`, which aborts the upload
and goes on with the outcome of what failed, or starts again. The checks of the
object's state for NFS buckets are left out. `MaxRequests` bounds what comes from
outside: updates by users and retries asked of the API.

### 2.3 QueuePopulator

One log, any number of processes, of a source that keeps its offset in zookeeper:
`bucketd` (the dispatcher tells each process whether it has the raft session),
`mongo` (a tailable cursor, carried over from batch to batch) or `dmd`.

| Variable | Code |
|---|---|
| `logEnd`, `published` | the metadata log and Kafka (external) |
| `zkOffset` | the offset in zookeeper, 0 when there is none |
| `phase` | the step of the batch (`batchInProgress`), or the process is down |
| `logReadersUpdate`, `logReader`, `logOffset`, `openLog` | the fields of `QueuePopulator` and `LogReader` |
| `nextLogOffset`, `toPublish` | `batchState`: the offset to save, the entries without a delivery report |
| `floor` | history: the offset at which populating began |

A batch is `StartBatch` (with the set-up of a new list of readers first),
`ReadRecords`, `Delivered` for each entry, `SaveLogOffset`. Requests to zookeeper,
the log and Kafka take effect at any time; an error of any of them ends the
process. What the extensions' filters select is the constant `Filter`. The offset a
mongo cursor reports (`getOffset()`, in arsenal) is taken to be that of the last
record it handed over. The offset is saved only if the log has reached its unpublished
listing (`LogReader.js:673-674`), where it has one; the model always saves it, as the
earlier save is the one that could skip something.

`floor` needs a word. A raft session without a saved offset is read from its end,
and that offset is saved only by the first batch that reads something. If the
process exits, or the session moves, before that save, the next reader starts at
the end again, and records written in between are in no topic. The model does the
same, and `floor` moves up with it; TLC shows that it can even move after another
process has saved an offset. No document says where populating has to begin, so
this is listed as a hazard and not claimed as a bug. For a log whose offset is
saved, and for the other sources, `floor` stays where it is.

### 2.4 LifecycleTransition and MultipartRanges

One object, five processes that share only its metadata and topics. A rule applied
to it is a task of kind `scan` with the steps of `_applyTransitionRule`: check,
send the copy request, refresh, set `transitionInProgress`. The data mover copies
the data in one request or in ranges, each of which reads what the object holds at
that moment; the transition processor compares the ETag, points the metadata at the
copy and asks for the collection of the old location, or of the copy when the object
has changed; the garbage collector deletes, with a condition on the date when there
is one; the expiration processor checks date and replication status and deletes.
Each call to metadata or data is a step, so everything may happen in between.

| Variable | Code |
|---|---|
| `md`, `data` | metadata and stored data (external), `unversioned` the stores that overwrite |
| `msgs`, `tasks` | entries not committed, with the tasks at work on them; a task that fails or crashes leaves its entry or drops it, as its consumer does |
| `stale`, `replaced`, `thrown` | history: an unconditional put or delete hit metadata that had changed; locations already replaced; an uncaught exception |

The put without a condition is in the code ("TODO add a condition on metadata
cookie"). The model takes it and records it in `stale`; `DataAvailable` says that
nothing *else* loses data. `MultipartRanges` computes the ranges with the literals
of the code as constants; `RangesTile`, evaluated over every length up to a bound
that crosses each literal, says they cover the object once and are not too many.

### 2.5 LifecycleScan, LifecycleRules, NoncurrentRetention

`LifecycleRules` holds the pure part: rules that match a version, version 1 of the
task (listings of everything, rules compared with each entry) and version 2
(`RulesReducer` cuts the rules into listings by prefix and date, the server
filters). `LifecycleScan` is the state machine around it.

| Variable | Code |
|---|---|
| `setup` | rules, versions, source of buckets and bounds, fixed in a behaviour |
| `con`, `checkpoint` | fields of `LifecycleConductor`; the node of the last bucket queued |
| `index` | lifecycle indexes of each bucket; they decide on the version of the task |
| `queue`, `flight` | partitions of the bucket tasks topic; tasks of each bucket processor, with step and retries |
| `heap` | `ncvHeap` of each processor, as bags |
| `published` | the backlog of each partition as `KafkaBacklogMetrics` published it last |
| `acts` | actions asked of the object processors |
| `scanned`, `noncurrent`, `disturbed` | history: a batch has ended, versions that were noncurrent, a listing that did not go page by page through one processor to a last page that clears the heaps |

The conductor's steps are `StartBatch`, one of three listings bucket by bucket,
`CheckpointBucket`, `IndexesGetOrCreate`, `GetAccountIds`, `SendBucketTasks`,
`EndBatch`. A processor takes an entry, lists uploads, a page of versions or one
of the reduced listings, sends the continuation *before* it compares the page, and
clears the heaps. `DueActions` says what the rules ask for without listings and
pages; `RulesApplied` compares, and leaves out by name the versions that version 2
never lists (`NeverListed`). `NoncurrentRetention` is the abstract promise: versions
become noncurrent, and one is expired only when enough newer ones are noncurrent;
`ImplementsRetention` is the refinement, step by step until `disturbed`. Without either
exception TLC finds the defect of the code.

### 2.6 LifecycleArchive

One object, or one version, from the rule that archives it to its restored copy's
end. The cold backend (`ColdArchives`, `ColdRestores`, `ColdExpires`,
`ColdDeletes`) is external. Tasks are those of `LifecycleColdStatusArchiveTask`,
`GarbageCollectorTask` (archived source data), `LifecycleUpdateExpirationTask` and
the two requeue tasks, each reading metadata in one step and putting it in another;
`Filter` is `LifecycleQueuePopulator.filter` on the next log entry. `held` are the
entries that failed without being committed: nobody sees them before a restart.
`lost`, `early`, `thrown` and `stale` record what the code accepts. `stale` is set by a
put of metadata that has changed since it was read and by a status or archivedSource
entry applied to an object written again or restored since; a behaviour ends there:
nothing is claimed of what follows, and every property names the exception.

### 2.7 IngestionReader and IngestionPopulator

`IngestionReader` is one batch after another: read the snapshot state from three
zookeeper nodes, list a page of the source or read its raft log, publish, save the
state or the offset. `MongoQueueProcessor` applies the entries, one queue per version
as the topic is keyed. `IngestionPopulator` extends it with the process: ticks of
the cron job, readers created, set up and removed as buckets come and go, commands
from redis, the state of the location in memory (`paused`, `jobs`) and in zookeeper
(`zkLocation`), updated by a read and a write (`updates` in flight). A removed
bucket's reader may be in the middle of a batch when a new one is created.
`skipped`, `torn`, `dropped`, `overlapped`, `leftOver`, `resumedEmpty` and `dirty` are
history: the defects listed below, which the properties exclude by name. Two
simplifications: the set-up of a location creates, reads and writes its node in one
step (`bin/ingestion.js:87-182`); and there is one queue per version, although the
snapshot entry of the null version of a suspended bucket is keyed with its version id
(`IngestionProducer.js:361`) and its log entries with the master key, so that the
order between these is not given in the code.

### 2.8 OplogPopulator

Set-up lists the buckets with a feature enabled, then opens the change stream;
events move buckets between connectors in memory; the cron job starts calls to Kafka
Connect, which are in flight (`calls`) while events and further ticks go on; `calls`
is a set, so two identical ones in flight count as one.

The handler of an event is not awaited (`ChangeStream.js:78-83`), and the events of a
batch are handed over before a handler that waits goes on. A handler has two steps:
it looks the bucket up in `_bucketsToConnectors` and changes a connector
(`HandleChangeStreamChangeEvent`), and sets the map after the await
(`SetBucketsToConnectors`; `Allocator.js:85-86`, `116-117`). `awaited` has what is to be
set, in order. Timers, answers and errors come when the handlers have gone on
(`HandlersDone`). The loops of set-up have the same await but never two handlings of one
bucket, so `ListenToValidBuckets` is one step. The document of an update is looked up when
the event is delivered, and may be that of any later change; that of an insert or replace
comes with it (`Documents`).

Whether a change came after the start of an update is the field `later` of a connector.
A restart reads the connectors' configuration back. No request to Kafka Connect has a
time-out (`KafkaConnectWrapper.js:41-100`): a connector may be `silent`, and its calls are
then never answered. `missed`, `sameTime`, `doubled`, `overtaken`, `raced` and `strayed` are
history: the defects listed below, which the properties exclude by name. What a call of a
dead process does when it takes effect under the next one is left out; `strayed` says that
there may have been one. `Settled` says that the populator has nothing left to do: every
event is handled, and each connector runs exactly if it has buckets and has nothing to
send.

## 3. Runs

| Run | Instance | Shows |
|---|---|---|
| `consumer_group` | 2 consumers, 2 messages, concurrency 2, 2 assignments, offsets published before unassign | `TypeOK`, `AtLeastOnce`, `PipelineBound`, `NoLostWakeup`, `DrainBeforeUnassign`, and refinement of `AtLeastOnceDelivery` |
| `consumer_liveness` | 1 consumer, 2 messages, concurrency 2, 2 assignments, 1 restart, offsets published before unassign, fairness | `EventuallyAllCommitted`, `RebalanceEnds` |
| `replication` | a CRR and a cloud site, 1 replay, transient source; data in parts, metadata one of the sites has, a delete marker; 1 crash or failed abort | `TypeOK`, `NoEarlyCollection`, `PendingHasFuture`, `NoStrayUploads` |
| `replication_retry` | new metadata of an object that 1 CRR site holds, 1 replay, 1 update by a user or retry by the API, 1 crash, fairness | `CompletedMeansReplicated`, `CompletedIsFinal`, `EventuallySettled` |
| `queue_populator` | 2 processes, 2 topics, 3 records, batches of 2, 2 exits, 3 provisions, each source, fairness | `TypeOK`, `NothingSkipped`, `EventuallyQueued` |
| `lifecycle_transition` | contents of 1 and 3 bytes, parts of 2, an unversioned source or not; 1 write, 2 scans, 2 faults, 3 of them together | `TypeOK`, `DataAvailable`, `NoOrphanCopies`, `ExpiresListedObject`, and the ranges of all lengths to 70 |
| `lifecycle_scan` | about 250 sets of rules over 6 versions of 3 keys in pages of 2, both task versions; retention over 2 or 3 pages with two processors, a fault of the conductor or of a task, or a change by a user | `TypeOK`, `RulesApplied`, refinement of `NoncurrentRetention` |
| `lifecycle_conductor` | 2 buckets from each source, 2 processors, 1 fault, fairness | `IndexBuildsBounded`, `ScannedForEver` |
| `lifecycle_archive` | 2 writes, 2 restores, 3 scans, 1 fault, 4 of them together; a version or an object | `TypeOK`, `Recoverable`, `NothingForgotten`, `NoLeftovers`, `RestoredUntilExpired` |
| `ingestion` | 3 versions of 2 keys, pages of 1, batches of 2, two readers; up to 3 writes, 1 fault, 2 commands, 1 change of configuration, in nine mixes | `TypeOK`, `NothingMissed`, `NoGhosts`, `PauseStateAgrees` |
| `oplog_populator` | 2 buckets, 2 connectors, 2 changes, 2 faults, fairness | `TypeOK`, `ListensWhenSettled`, `EventuallyListens` |
| `lifecycle_retention` | 5 versions of one object, version 1 of the task, 1 deletion by a user | violation of `KeepsLatestNoncurrent` |

Bounds. Two messages and two slots are the least for which tasks end out of order
and a replay cuts the ledger; two assignments are the least for a stale answer
and for a partition that changes hands; the proof covers all other values. With
two sites the last and the last but one COMPLETED race; with one replay topic an
entry passes through every branch on the count (unset, zero). One crash at any
point of any process covers each window between two steps; a second one adds the
crash of a recovery, which takes the same steps again.
For the queue populator three records and batches of two give a full batch and a
short one, three provisions hand a session over and back, and the proof covers
all other values. Two scans of one object are two transitions in parallel, with an
overwrite or two faults between any of their steps; three bytes in parts of two are
a copy whose parts come from different writes. Pages of two cut an object with
three versions, and rules on nested prefixes cut the listings of version 2. For the
ingestion each mix is the least for one pair of hazards: writes across pages, a
fault anywhere, commands that overlap, a bucket that comes back, a user of Zenko who
writes a version that is deleted before the snapshot begins. Two connectors let
a bucket move; two faults are a failed call and the restart after it. These bounds
have no create call overtaken by an update and a deletion, which takes three changes
with one connector and four with two; `SettledListens` is proved for all of them. Runs other
than those of the consumer and the queue populator say `CHECK_DEADLOCK FALSE`: an
object whose every entry is processed, and a bound that is used up, are the end.

Fairness. In `BackbeatConsumer` the event loop runs what is ready, tasks end or
are cut by the drain time-out, and librdkafka commits what is stored: weak
fairness. A message that is in the log is handed out to one of the repeated
`consume()` calls, each of which may time out just before: strong fairness of
`Fetch`. Crashes, pauses and rebalances are never assumed to happen.
`EventuallyAllCommitted` is conditional on an assignment that lasts. In
`ReplicationPipeline` something goes on as long as any process, producer or request
of the API can (weak fairness of `Progress`, the weakest that says the program
runs); no step is assumed to succeed. In `QueuePopulator` the cron
job runs, processes are started again, and requests are answered (weak fairness); a
cursor that is asked again and again hands out a record that is there (strong
fairness of `ReadRecords`). `EventuallyQueued` is conditional on some process
having the log from some time on, which is the dispatcher's task. In `LifecycleScan`
the conductor's cron job and steps, each bucket processor and the publication of its
backlog, an interval of `KafkaBacklogMetrics`, go on (weak fairness); retries,
indexes and delays are not assumed. In `OplogPopulator` set-up, the delivery of
events, handlers that wait, the cron job and the answers of Kafka Connect go on (weak
fairness), but for the answers of a connector that is `silent`, which `EventuallyListens`
excludes by name. The other modules have safety properties only.

### Findings

* `lifecycle_retention` (divergence from a comment): `_getObjectVersions` of version
  1 returns on a page without versions before it clears the heaps. A deletion
  between two pages makes such a last page; the heap of that scan then counts in the
  next one, and one of the latest noncurrent versions is expired.

Further disagreements met while modelling. The model takes these steps too; where a
history variable excludes one from a property, the property's comment says so.

* Consumer: `close()` unsubscribes before the drain and `onEntryCommittable` stores
  nothing without a subscription, so the jobs it waits for are not committed and run
  again (`BackbeatConsumer.js:926`, comment at `:928`). Answers of `consume()` in
  another order break contiguity (`:395`, comment at `:187`).
* Replication: `TaskScheduler.push` calls `done()` without the task's arguments, so
  `{committable: false}` never reaches the consumer (`TaskScheduler.js:59`, comment at
  `BackbeatConsumer.js:637`); the collection request is sent after the final status
  is written, and never again (`UpdateReplicationStatus.js:279`,
  `docs/transient-crr-source.md:60`); the dedupe key ignores metadata, so an update
  during a replication is dropped and covered by COMPLETED
  (`taskSchedulerHelpers.js:20`), and a replayed or redelivered entry puts its older
  metadata over newer metadata of the site (`ReplicateObject.js:527`);
  `CompletedMeansReplicated` excludes the sites of these two by name (`stale`). TLC
  finds each of them when the corresponding property is stated.
* Data mover: an object of zero bytes written by a multipart upload has a null range,
  which `_completeRangedMPU` dereferences; a failed copy leaves
  `transitionInProgress` set; in an unversioned destination the rollback of one copy
  deletes a later one.
* Archive: neither `LifecycleColdStatusArchiveTask` nor `_deleteArchivedSourceData`
  compares ETags, so an entry delivered again after a restore wipes the restored copy
  (`stale`);
  a duplicate `gc` entry resets an archive whose restore is pending; an overwritten
  object without an archive is a TypeError; an object deleted between the record of
  its archive and the collection of its source leaves its archive.
* Conductor: an error of the MongoDB listing never calls back, and the batch stays in
  progress; a malformed zookeeper bucket is a TypeError; the backlog check takes a
  missing node of one partition for all of them; buckets whose message fails to be
  sent wait for the next batch.
* Bucket task: `_reduceNonCurrentRules` leaves out the storage class of a transition
  although the rule expires noncurrent versions too, so version 2 does not list
  versions that are already there (`NeverListed`); a retry after a first attempt that
  failed before it sent the continuation ends the scan; heaps are not cleared, or count
  a version twice, when pages go to two processors, a continuation is lost or an entry
  is delivered again (`disturbed`).
* Ingestion: a first page published whose state was not saved is listed again later,
  with a later sequence number, and what was deleted in between stays; so does a
  version that a user of Zenko wrote and that is deleted in the source before the
  snapshot begins (`skipped`); the markers
  are written by three calls in parallel (`torn`); an error of MongoDB commits the
  entry (`dropped`); a bucket created again before the reader of the old one is gone
  finds its markers and offset, and a restart while it is absent forgets the interval
  that removes them (`IngestionPopulator.js:708`), so that its earlier versions are not
  listed (`dirty`); overlapping pause and resume lose an update (`overlapped`), and
  nothing serialises them; a resume that could not be scheduled at set-up leaves the
  location active in memory and paused in zookeeper, and one that could not be removed
  from the node, or whose job was left over by a resume by hand, pauses an active
  location in memory (`leftOver`); a location without a reader stays paused in memory
  when it is resumed (`resumedEmpty`); a reader whose set-up failed is not
  set up again, and its resume throws; `_removePausedReaders` removes from the list
  it walks.
* Oplog: a change between the listing and the change stream, or in the millisecond
  an update starts, is missed until a restart; a lost answer of a creation or a
  deletion makes every later call fail (409, 404) until a restart. The cron job does
  not wait for the calls of its last run (`ConnectorsManager.js:314`): a create call answered
  after an update and a deletion of the same connector creates it again with the buckets
  of its own run, and as `bucketsGotModified` is false by then nothing sends the right
  ones before a bucket changes again (`overtaken`). Two events of one bucket in a batch both
  see the old map (`raced`): "on" twice puts the bucket in two connectors, and "off" then "on"
  leaves an enabled bucket that nobody listens to before its next event. A call that is
  never answered leaves `isUpdating` set, so that the connector is not updated again before
  a restart (`silent`). A create call of a dead process that takes effect after the next one has
  listed the connectors leaves one that nobody knows (`ConnectorsManager.js:197`; `strayed`).

## 4. Proofs

Every theorem is for all values of the constants that satisfy the assumption of the
specification's module; further hypotheses are stated in the theorem and given here. The
last column has, besides, the cases the property itself excludes by a history variable: the
theorem says nothing of what they have touched. They are described with their module in
section 2, and the defects among them in section 3.
Each safety property is a consequence of an inductive invariant, proved with one
lemma per action and combined in the last lines of the module.

| Theorem | Property | Hypotheses, and named exceptions |
|---|---|---|
| `BackbeatConsumerProofs!ConsumerTypes` | `TypeOK` | |
| `BackbeatConsumerProofs!PipelineNeverOverfilled` | `PipelineBound` | |
| `BackbeatConsumerProofs!LoopNeverStalls` | `NoLostWakeup` | |
| `BackbeatConsumerProofs!DrainPrecedesUnassign` | `DrainBeforeUnassign` | |
| `BackbeatConsumerProofs!ConsumerAtLeastOnce` | `AtLeastOnce` | except `reordered` |
| `BackbeatConsumerProofs!ConsumerImplementsDelivery` | `ImplementsDelivery` | except `reordered`, a variable of the abstract specification too |
| `QueuePopulatorProofs!TypeCorrect` | `TypeOK` | |
| `QueuePopulatorProofs!SavedOffsetSkipsNothing` | `NothingSkipped` | entries before `floor` excepted: a provision may start there |
| `ReplicationPipelineProofs!TypeCorrect` | `TypeOK` | |
| `ReplicationPipelineProofs!CollectedIsEverywhere` | | |
| `ReplicationPipelineProofs!CollectionIsNotEarly` | `NoEarlyCollection` | assumes `MaxRequests = 0` |
| `ReplicationPipelineProofs!CompletedIsReplicated` | `CompletedMeansReplicated` | except sites in `stale` |
| `ReplicationPipelineProofs!CompletedStays` | `CompletedIsFinal` | except when a user updates the object |
| `ReplicationPipelineProofs!UploadsAccounted`, `NoUploadLeft` | `NoStrayUploads` | one upload excepted for each crash or failed abort (`crashes`) |
| `ReplicationPipelineProofs!NoSiteForgotten` | `PendingHasFuture` | assumes that a replay topic allows a retry; except sites in `excused` |
| `LifecycleTransitionProofs!RangesOfEveryLength`, `RangesAlwaysTile` | | |
| `LifecycleTransitionProofs!TypeCorrect` | `TypeOK` | assumes a versioned destination |
| `LifecycleTransitionProofs!DataStaysAvailable` | `DataAvailable` | assumes a versioned destination; except `stale` |
| `LifecycleTransitionProofs!ExpirationDeletesListed` | `ExpiresListedObject` | assumes a versioned destination; except `stale` |
| `LifecycleTransitionProofs!NothingLeftBehind` | `NoOrphanCopies` | assumes a versioned destination; except `stale`, `thrown` and faults |
| `LifecycleArchiveProofs!TypeCorrect` | `TypeOK` | |
| `LifecycleArchiveProofs!ContentsRecoverable` | `Recoverable` | except `stale` |
| `LifecycleArchiveProofs!RestoredCopyStays` | `RestoredUntilExpired` | except `stale` |
| `LifecycleArchiveProofs!BegunIsRemembered` | `NothingForgotten` | except `stale` and `lost` |
| `LifecycleArchiveProofs!NothingLeftBehind` | `NoLeftovers` | except `stale`, `thrown`, faults, and archives in `early` |
| `IngestionProofs!PauseIsShared` | `PauseStateAgrees` | except `overlapped`, `leftOver` and `resumedEmpty` |
| `IngestionProofs!TypeCorrect` | `TypeOK` | |
| `IngestionProofs!NothingIsMissed` | `NothingMissed` | except `torn`, `dirty`, versions in `dropped` and those with `retro` |
| `IngestionProofs!NoGhostStays` | `NoGhosts` | except `torn`, `dirty`, `skipped` and versions in `dropped` |
| `OplogPopulatorProofs!TypeCorrect` | `TypeOK` | the parts on buckets and pipelines: except `raced`, `sameTime` |
| `OplogPopulatorProofs!SettledListens` | `ListensWhenSettled` | except `missed`, `sameTime`, `doubled`, `overtaken`, `raced`, `strayed` and `Disagree` |

### BackbeatConsumerProofs

The offsets (`ConsumerInvariant`, `Inv`). `AtLeastOnce` is not inductive: nothing in
it says why the offset a ledger yields is safe. `Inv` adds, for each consumer
(`SafeConsumer`):

* `LedgerSafe`: every offset up to `latestConsumed` is processed or in
  `processing`. Hence all below the committable offset is processed
  (`CommittableOver`), and a replayed offset keeps it so (`ConsumedKeepsSafe`):
  what the replay forgets is above it and will be consumed again;
* the stored offset has only processed messages below it, so it may be committed
  at any time, by whoever holds it;
* `Chain`: the ledger's latest offset, the messages popped and not visited yet,
  and the fetch position are linked: each next offset is at most one more than
  the one before, or all below it is processed. This is what a stale answer
  keeps and what reordered answers break: TLC's counterexample without the
  exception has the first step that cannot be linked. Hence `ConsumerInvariant` is
  `reordered \/ Inv`; the types and the loop below hold in any order.

`NeverBack` shows that no step lowers the committed offset, which with the invariant
gives the refinement.

The loop (`LoopInvariant`, `FlowInv`), in whatever order answers come. The messages
asked for are the sum of the outstanding calls; a call asks for no more than the
slots free when it was made; so tasks, messages to visit and messages asked for are
together at most the concurrency, although each is changed by another callback.
The wake-up: a consumer that is connected, subscribed and not being moved
has a call outstanding, a `_tryConsume` pending, a callback running, or no free slot
and hence a task whose end calls it. `DrainPrecedesUnassign` is an action property of
the same invariant.

### QueuePopulatorProofs

`NothingSkipped` speaks of the offset in zookeeper, which comes from a batch, which
starts at a reader's offset or cursor. `Inv` therefore adds `SafeReader`: a reader's
offset is covered (all entries before it are in Kafka); its cursor is covered
between two batches; during a batch the only entries missing before the next offset
are those in `toPublish`. The proof shows why exiting on an error matters: the
cursor of a failed batch is past entries that were not delivered, and only the exit
throws it away. `Frame` says that a covered offset stays covered whatever other
processes do, so two readers of one log cannot hurt each other.

### ReplicationPipelineProofs

Four invariants, each on top of the one before.

* `Inv`: an entry, task or status that says COMPLETED exists only for a site that has
  held the metadata of that entry (`Holds`), unless older metadata went over newer
  there, and a request for collection only when all have held the object
  (`GcMessages`). `CompletedIsReplicated` follows for the current metadata, since an
  older COMPLETED recorded in newer metadata makes the site `stale`.
  `CollectedIsEverywhere` needs no hypothesis. `NoEarlyCollection` speaks of the
  *current* metadata at every site and is void once a user has updated it; its
  theorem therefore says `MaxRequests = 0`: no update by a user, any number of
  crashes, failures and replays.
* `CompletedStays`: the status processor writes what it read plus its own outcome, and
  between its read and its write the source does not change for it (`ReadIsCurrent`).
* `UploadsOK`: the uploads at a location are those in a task's hands and those a crash
  or a failed abort left; a count, so a task that aborts another's upload shows.
* `Future`: for every site that is PENDING, `PendingOK` names what will settle it: an
  entry not done in one of its queues, a status message behind all answered ones, a
  message about to be sent, a request of the API; or the site is in `excused`, the
  dead ends listed in section 3. `Keeps` says that each step hands the site from one
  to the next. The hypothesis of `NoSiteForgotten`: with replay topics whose `retries`
  are all 0, which `ReplicationConfigValidator.js:65` accepts, a failed entry is sent
  nowhere (`_pushReplayEntry`) and its site stays PENDING. The assumption on
  `ReplayTopics` says what the validator checks.

### LifecycleTransitionProofs

`Current` says what each entry and task may claim of a live object: a metadata read, an
order, a result or a copy either has the object's version and contents or is older
(`Listed`); no request for collection is of the data the metadata points at; two copies
under way never have the same location. `NoOrphans`, on top of it, gives each stored
location one holder as long as nothing failed.

`VersionedDestination` (`StoreModes \subseteq SUBSET {"hot"}`: the destination keeps
versions, the source may or may not) is necessary for the invariant. In an unversioned
destination all copies of an object have one location: the rollback of a result that
came too late deletes the data of the copy made after it. The runs cover the versioned
destination.

The ranges are recursive functions: the part size is doubled until the parts are few
enough, then ranges are cut from a start. `DoublingExists` and `CutsExist` show that
the definitions have a solution, by going down from the values where they stop at
once; then `RangesOfEveryLength` follows by induction on what is left of the object.
TLC's lengths up to 70 are an instance of it (`RangesAlwaysTile`).

### LifecycleArchiveProofs

`Current` says of each entry and task what the metadata and the cold store hold for it:
an archive in the hands of an entry is in the cold store with the contents of the entry,
a request to collect source data names a location the metadata has left, and the entry
that ends a restore is of an archive that is still there. `BegunIsRemembered` adds
`SourceRemembered` and `RestoreRemembered`: the debt named in the metadata has
its entry, in the log, in a topic, held, or in a task. No hypothesis is needed.

`NothingLeftBehind` adds, for as long as there was no fault and no stale update, that
everything stored has an owner (`Owned`): a stored datum is the object's or an entry or
task that deletes it is under way, and an archive of the cold store is the object's,
condemned, one the property excepts (the object was deleted before its source data was
collected), or that of a status entry not recorded yet. That holds because one
transition is under way at most, and none of an archived object (`OneTransition`), so
that no second archive is made, and because the copy a restore replaces is one that has
been or is being collected (`RestoresFromCold`). `NodeFollows` is the same for the
bucket's node: it is what the newest record of the log says, or the configuration once
there is none.

### IngestionProofs

`LocationInv`: between two updates the memory and the node agree, and a resume is
scheduled only for a paused location (`ResumesPaused`), which is why the set-up of the
next process cannot pause an active one. An update in flight holds the node as it is;
`Promise` says what each finds when it is written, fails or is lost: a pause or a
command's resume finds the two agreeing, a job that fires may find a location resumed
by hand. `Types` is the type invariant with the parts that
relate variables: a reader is ready exactly when it has an offset, a listing is of
versions of the bucket, no offset passes the end of the log, and an entry of the topic
is in the queue of its version.

`Kept` is the invariant of the contents. The two properties speak of a reader at rest
at the end of the log; `Stands` says why they will hold there: a version whose final
contents (those of its last entry of the topic, or else of the target) are not the
source's has a record in the log at or after every offset from which a reader may go
on (`Due`), or the saved state of the snapshot has it still to be listed (`ToList`).
The offsets are the reader's and the saved one (`Marks`), as a crash falls back to the
latter. This is not inductive, as a batch publishes, saves the state and saves the
offset by three calls, each of which may be the last: `WillStand` says the same of what
will be published, the state that will be saved and the offset that will be, the
sequence number read before the first page included; `OutOK` that a batch of which only
a part is delivered does no harm, since the last entry of a version that is out of date
is one of a version that is still due; `SrcIsLog` that the last record of a version has
its contents. The proof shows what the order of the calls is for: entries before state,
state before offset, and the sequence number before the listing. `OnlyWorker` says that
as long as `dirty` is false only one reader works, whatever commands arrive.

### OplogPopulatorProofs

`Inv` says of each connector what it knows of its buckets (`Tracked`): when nothing
has changed since they were sent they are in the pipeline, and so they are when
nothing has changed since the update in flight began; of the map of buckets that the
owner a bucket has once its handlers have gone on (`Effective`) has it (`Owned`), unless two
of its events raced; and of the calls that one update per connector is
in flight at most and the connector knows of it (`CallsOK`). Without the second half of
`Tracked` an answer could clear `bucketsGotModified` for a change it has not sent.

`ListensWhenSettled` relates the two ends of a chain, and `Chain` has one link per pair
of neighbours: the last event of a bucket has its state (`LastEventsOK`), so a document looked
up for it is the last one;
a bucket without an event to come has an owner exactly if it is enabled (`Followed`);
it is in the connector that owns it only (`Single`); and a connector of Kafka Connect
with nothing to send has the pipeline of the `Connector` object (`AllSent`). With
`Tracked` this gives the property. Each exception is where a link breaks: `missed`
breaks `Followed`, `doubled` breaks `Single`, `raced` breaks `Followed`, `Single` and `Owned`, `sameTime` breaks `Tracked`, `overtaken`
breaks `AllSent`, and a lost answer leaves a connector that exists on one side only
(`Disagree`). `overtaken` was found by this proof: the step of a create call did not
keep `AllSent`, and TLC gave the run of three changes described in section 3.

A handler that goes on after its await leaves `Effective` as it is, so the two steps of a
handler need one argument only; without a race at most one handler of a bucket waits.

Set-up allocates the buckets in a loop. `LoopExists` gives the state after each bucket, and
`ListenToBucketsSteps`, `StopListeningToBucketsSteps` and the lemmas on their effect
follow by induction on the number of buckets visited.

### Induction, and what stays with TLC

The library's induction theorems take an operator and cannot be instantiated by the
provers at hand. `ProofLemmas` states induction over a *set* of naturals
(`NatSetInduction`), which can: sums over a set, concatenations, filters (`Selected`) and
the recursive functions of `MultipartRanges` and `OplogPopulator` are reasoned about
with it.

Model-checked only:

* liveness (`EventuallyAllCommitted`, `RebalanceEnds`, `EventuallySettled`,
  `EventuallyQueued`, `ScannedForEver`, `EventuallyListens`): fairness and ENABLED are
  beyond the prover. What `EventuallyListens` ends in is `ListensWhenSettled`, which is
  proved;
* `LifecycleScan`: `TypeOK`, `RulesApplied` and the refinement of `NoncurrentRetention`.
  What a page holds is `InOrder`, the reduced listings are sorted and folded over the
  rules, and the heaps are bags; that a listing is a sorted copy of its set has to be
  proved before anything can be said of a page, and the provers do not open `SortSeq`,
  `SelectSeq` and folds that take a LAMBDA. Even the bound on a heap in `TypeOK` needs it,
  as the version on top of the heap is found by comparing identifiers;
* `IndexBuildsBounded`: it does not depend on the listings, but `_indexesGetOrCreate` is
  folded over the cargo. It is the next to prove, with the fold as a recursive function as
  in `OplogPopulator`.

## 5. Not modelled, and the plan

Left out for good: configuration, metrics other than the consumer backlog, health
checks, credential caches, the management overlay, the set-up tool, and the Go bucket
scanner: they keep no state the pipelines depend on, or only wrap external services.
Left out of modelled parts: the checks of NFS buckets in `MultipleBackendTask`, the
object lock check and the abort of uploads in `LifecycleDeleteObjectTask`, several
keys in one scheduler.

Planned, in this order:

1. Proofs. `IndexBuildsBounded`, with the jobs read at the start of a
   batch as an upper bound of those still running. `NoncurrentRetention` for one scan.
2. The kafka source of the queue populator and the provision dispatcher (leader
   election, redispatch, overlapping owners), composed with `QueuePopulator`.
   Property: every provision ends with one owner.
3. Pause and resume of the queue processor and of locations.
4. Bucket notification: the cache of configurations and its change stream.
