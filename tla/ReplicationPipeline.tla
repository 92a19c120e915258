-------------------------- MODULE ReplicationPipeline --------------------------
(***************************************************************************)
(* extensions/replication: the replication of one object version to a set  *)
(* of sites, from the entry in the replication topic to the status in the  *)
(* source's metadata.                                                      *)
(*                                                                         *)
(* Each site has a queue processor for the replication topic and one for   *)
(* each replay topic; they copy the object and send its status to the      *)
(* status topic.  The status processor writes the statuses into the        *)
(* source's metadata, sends failed entries to the replay topics and, when  *)
(* the source is transient, has its data collected once every site has it. *)
(* The API pushes an object again.  Every process may crash.               *)
(*                                                                         *)
(* A consumer's partition is what AtLeastOnceDelivery promises of it: the  *)
(* entries after the committed offset, handed out in order, and again      *)
(* after a crash.  All entries are of one object, so they share the key of *)
(* both task schedulers.  BackbeatTask.retry is part of each step: a step  *)
(* fails when its retries are exhausted.                                   *)
(***************************************************************************)
EXTENDS Integers, Sequences, FiniteSets, SequencesExt

CONSTANTS
    Sites,              \* locations the object is replicated to
    CloudSites,         \* the ones served by MultipleBackendTask
    ReplayTopics,       \* config: <<[topicName, retries], ...>>, may be empty
    Transient,          \* the source location is transient
    Objects,            \* what the first entry may replicate: [content, multipart, held]
    MaxCrashes,         \* bound: number of crashes and of failed aborts
    MaxRequests         \* bound: number of updates of the object by users and of
                        \* retries asked of the API

ASSUME ReplicationAssumption ==
    /\ IsFiniteSet(Sites) /\ CloudSites \subseteq Sites
    /\ ReplayTopics \in Seq([topicName : STRING, retries : Nat])
    /\ \A i \in DOMAIN ReplayTopics : ReplayTopics[i].topicName # "crr"
    /\ Transient \in BOOLEAN
    /\ Objects \subseteq [content : {"DATA", "METADATA", "MARKER"}, multipart : BOOLEAN,
                           held : SUBSET Sites]
    /\ \A o \in Objects : o.held # {} => o.content = "METADATA"
    /\ MaxCrashes \in Nat /\ MaxRequests \in Nat

VARIABLES
    source,     \* the source's metadata and data
    target,     \* per site: version of the metadata it holds, or Absent
    uploads,    \* per site: multipart uploads that are neither completed nor aborted
    stale,      \* history: sites where older metadata was put over newer metadata,
                \* or whose COMPLETED for older metadata is recorded in newer metadata
    partition,  \* per queue processor: entries of its topic
    task,       \* per queue processor: step of its running task, or "idle"
    statusTopic,\* entries of the status topic
    statusTask, \* step of the running UpdateReplicationStatus task
    gcTopic,    \* number of entries in the garbage collection topic
    outbox,     \* per process: messages its producers have not delivered yet
    retry,      \* per site: the API's request
    excused,    \* history: sites whose outcome may be missing
    crashes, updates, retries

sites == <<target, uploads, stale>>
queues == <<partition, task>>
statuses == <<statusTopic, statusTask>>
bounds == <<crashes, updates, retries>>
vars == <<source, sites, queues, statuses, gcTopic, outbox, retry, excused, bounds>>

Absent == -1
Unset == -1         \* an entry that has no replayCount yet

-----------------------------------------------------------------------------
(* Topics, processes and entries *)

(* ReplicationStatusProcessor._reshapeReplayTopics: one element per retry,  *)
(* last topic first: an entry whose count is c goes to the element c        *)
replayTopics ==
    LET Repeat(t) == [i \in 1 .. t.retries |-> t.topicName]
    IN  FlattenSeq([i \in DOMAIN ReplayTopics |-> Repeat(Reverse(ReplayTopics)[i])])

NReplays == Len(replayTopics)

Processors == Sites \X ({"crr"} \cup Range(replayTopics))
SiteOf(p) == p[1]
Crr(s) == <<s, "crr">>
StatusProcessor == <<"all sites", "status">>
Processes == Processors \cup {StatusProcessor}

Statuses == {"PENDING", "COMPLETED", "FAILED"}
Stages == {"waiting", "running", "done"}

(* An entry holds the source's metadata as it was when the entry was made:  *)
(* "stored" tells that the site has given the object a data store version   *)
Entry(s, md, count) ==
    [v |-> md.v, content |-> md.content, stored |-> s \in md.stored,
     count |-> count, stage |-> "waiting"]

(* Faulty: the copy of the entry loses its replayCount *)
StatusEntryWithoutCount(s, status, e) ==
    [site |-> s, status |-> status,
     entry |-> [e EXCEPT !.stage = "waiting", !.count = Unset], stage |-> "waiting"]

(* toCompletedEntry, toFailedEntry, toPendingEntry: e, for the status topic *)
StatusEntry(s, status, e) ==
    [site |-> s, status |-> status, entry |-> [e EXCEPT !.stage = "waiting"],
     stage |-> "waiting"]

(* First entry of q that is in the given stage; 0 when there is none *)
First(q, stage) ==
    IF \E i \in DOMAIN q : q[i].stage = stage
    THEN CHOOSE i \in DOMAIN q : /\ q[i].stage = stage
                                 /\ \A j \in 1 .. i - 1 : q[j].stage # stage
    ELSE 0

Mark(q, i, stage) == [q EXCEPT ![i].stage = stage]

(* Entry i of q is processed.  It is kept as long as a crash may have it     *)
(* delivered again                                                           *)
Processed(q, i) == IF crashes < MaxCrashes THEN Mark(q, i, "done") ELSE RemoveAt(q, i)

Running(p) == partition[p][First(partition[p], "running")]
StatusRunning == statusTopic[First(statusTopic, "running")]

(* Faulty: sites that are still PENDING are forgotten *)
GlobalStatusIgnoringPending(status) ==
    IF \E s \in Sites : status[s] = "FAILED" THEN "FAILED" ELSE "COMPLETED"

(* ObjectQueueEntry._getGlobalReplicationStatus *)
GlobalStatus(status) ==
    CASE \E s \in Sites : status[s] = "FAILED" -> "FAILED"
      [] \A s \in Sites : status[s] = "COMPLETED" -> "COMPLETED"
      [] OTHER -> "PROCESSING"

(* A skipped entry, a failed delivery or a refused request: logged, and      *)
(* accepted by the code                                                      *)
Excuse(ss) == excused' = excused \cup ss

(* The sites a message is about: none for one to the garbage collector *)
MsgSites(msg) ==
    CASE msg.topic = "status" -> {msg.entry.site}
      [] msg.topic = "replay" -> {SiteOf(msg.to)}
      [] msg.topic = "gc" -> {}

Send(w, msg) == outbox' = [outbox EXCEPT ![w] = Append(@, msg)]

TypeOK ==
    /\ source \in [v : 1 .. 1 + MaxRequests, content : {"DATA", "METADATA", "MARKER"},
                   status : [Sites -> Statuses], stored : SUBSET Sites, data : BOOLEAN,
                   multipart : BOOLEAN]
    /\ target \in [Sites -> Absent .. 1 + MaxRequests]
    /\ uploads \in [Sites -> Nat] /\ stale \subseteq Sites
    /\ DOMAIN partition = Processors /\ DOMAIN task = Processors
    /\ \A p \in Processors :
        /\ \A i \in DOMAIN partition[p] :
            /\ partition[p][i].stage \in Stages
            /\ partition[p][i].count \in Unset .. NReplays - 1
            /\ p = Crr(SiteOf(p)) <=> partition[p][i].count = Unset
        /\ task[p] = "idle" <=> First(partition[p], "running") = 0
    /\ \A i \in DOMAIN statusTopic : statusTopic[i].status \in Statuses
    /\ statusTask.step = "idle" <=> First(statusTopic, "running") = 0
    /\ gcTopic \in Nat
    /\ DOMAIN outbox = Processes
    /\ \A s \in Sites : retry[s].step \in {"none", "status", "crr", "locked"}
    /\ excused \subseteq Sites

(* The queue populator has published the object: PENDING everywhere.  The   *)
(* sites have none of it or, when only metadata changed, some hold the      *)
(* version before it                                                        *)
Init ==
    /\ \E object \in Objects :
        /\ target = [s \in Sites |-> IF s \in object.held THEN 0 ELSE Absent]
        /\ source = [v |-> 1, content |-> object.content,
                     status |-> [s \in Sites |-> "PENDING"],
                     stored |-> object.held, data |-> TRUE, multipart |-> object.multipart]
    /\ uploads = [s \in Sites |-> 0] /\ stale = {}
    /\ partition = [p \in Processors |-> IF p = Crr(SiteOf(p))
                        THEN <<Entry(SiteOf(p), source, Unset)>> ELSE <<>>]
    /\ task = [p \in Processors |-> "idle"]
    /\ statusTopic = <<>> /\ statusTask = [step |-> "idle"]
    /\ gcTopic = 0
    /\ outbox = [w \in Processes |-> <<>>]
    /\ retry = [s \in Sites |-> [step |-> "none"]]
    /\ excused = {}
    /\ crashes = 0 /\ updates = 0 /\ retries = 0

-----------------------------------------------------------------------------
(* QueueProcessor *)

(* processReplicationEntry and TaskScheduler.push: all the entries have the *)
(* dedupe key of the object version, which does not depend on the metadata, *)
(* so an entry that finds a task in progress is skipped                     *)
ProcessReplicationEntry(p) ==
    LET i == First(partition[p], "waiting") IN
    /\ i # 0
    /\ \/ /\ task[p] = "idle"
          /\ task' = [task EXCEPT ![p] = "setup"]
          /\ partition' = [partition EXCEPT ![p] = Mark(@, i, "running")]
       \/ /\ task[p] # "idle"
          /\ partition' = [partition EXCEPT ![p] = Processed(@, i)]
          /\ UNCHANGED task
    /\ UNCHANGED <<source, sites, statuses, gcTopic, outbox, retry, excused, bounds>>

(* Faulty: the entry stays in progress after the end of its task *)
EndTaskOnly(p) ==
    /\ task' = [task EXCEPT ![p] = "idle"]
    /\ UNCHANGED partition

(* TaskScheduler.push, onTaskEnd: the task's callback arguments are dropped, *)
(* so its entry is committable, whatever the task answered                   *)
EndTask(p) ==
    /\ task' = [task EXCEPT ![p] = "idle"]
    /\ partition' = [partition EXCEPT ![p] = Processed(@, First(@, "running"))]

Step(p, step) ==
    /\ task' = [task EXCEPT ![p] = step]
    /\ UNCHANGED <<partition, outbox, excused>>

(* _publishReplicationStatus, then the end of the task *)
PublishStatus(p, status) ==
    /\ EndTask(p)
    /\ Send(p, [topic |-> "status", entry |-> StatusEntry(SiteOf(p), status, Running(p))])
    /\ UNCHANGED excused

(* Faulty: a skipped entry is taken for a replicated one *)
SkipAsCompleted(p) == PublishStatus(p, "COMPLETED")

(* BadRole, NoSuchEntity, AccessDenied or ObjNotFound from the source *)
Skip(p) ==
    /\ EndTask(p)
    /\ Excuse({SiteOf(p)})
    /\ UNCHANGED outbox

(* _setupRoles and, but for a cloud, _setTargetAccountMd *)
SetupRoles(p) ==
    /\ task[p] = "setup"
    /\ \/ Step(p, CASE SiteOf(p) \in CloudSites -> "refresh"
                     [] Running(p).content = "DATA" -> "data"
                     [] OTHER -> "metadata")
       \/ Skip(p)
       \/ PublishStatus(p, "FAILED")
    /\ UNCHANGED <<source, sites, statuses, gcTopic, retry, bounds>>

(* ReplicateObject._getAndPutData: after a failure the parts already written *)
(* are deleted.  Collected data is not found                                 *)
GetAndPutData(p) ==
    /\ task[p] \in {"data", "full data"}
    /\ \/ /\ source.data
          /\ Step(p, IF task[p] = "data" THEN "metadata" ELSE "full metadata")
       \/ Skip(p)
       \/ PublishStatus(p, "FAILED")
    /\ UNCHANGED <<source, sites, statuses, gcTopic, retry, bounds>>

(* ObjNotFound from a target that lacks the object metadata alone is put to; *)
(* the whole object is then replicated (_processQueueEntryRetryFull)         *)
RetryFull(p) ==
    /\ task[p] = "metadata" /\ Running(p).content = "METADATA"
    /\ target[SiteOf(p)] = Absent

(* The site's metadata becomes the one the entry holds, without a comparison *)
PutToTarget(p) ==
    /\ target' = [target EXCEPT ![SiteOf(p)] = Running(p).v]
    /\ stale' = stale \cup {s \in {SiteOf(p)} : Running(p).v < target[s]}

(* ReplicateObject._putMetadata: writes the metadata the entry holds *)
PutMetadata(p) ==
    /\ task[p] \in {"metadata", "full metadata"}
    /\ \/ /\ ~RetryFull(p)
          /\ PutToTarget(p)
          /\ PublishStatus(p, "COMPLETED")
       \/ /\ RetryFull(p) /\ Step(p, "full data") /\ UNCHANGED <<target, stale>>
       \/ /\ PublishStatus(p, "FAILED") /\ UNCHANGED <<target, stale>>
    /\ UNCHANGED <<source, uploads, statuses, gcTopic, retry, bounds>>

(* MultipleBackendTask._refreshSourceEntry and the check of the status:      *)
(* InvalidObjectState when the location has the data already                 *)
RefreshSourceEntry(p) ==
    LET s == SiteOf(p)
        completed == source.status[s] = "COMPLETED" /\ Running(p).content = "DATA"
    IN
    /\ task[p] = "refresh"
    /\ \/ completed /\ EndTask(p) /\ UNCHANGED <<outbox, excused>>
       \/ ~completed /\ Step(p, "put")
       \/ Skip(p)
       \/ PublishStatus(p, "FAILED")
    /\ UNCHANGED <<source, sites, statuses, gcTopic, retry, bounds>>

(* MultipleBackendTask: one request and the outcome, success only when        *)
(* "readable"                                                                 *)
PutToCloud(p, readable) ==
    /\ \/ /\ readable
          /\ PutToTarget(p)
          /\ PublishStatus(p, "COMPLETED")
       \/ Skip(p) /\ UNCHANGED <<target, stale>>
       \/ PublishStatus(p, "FAILED") /\ UNCHANGED <<target, stale>>
    /\ UNCHANGED <<source, uploads, statuses, gcTopic, retry, bounds>>

PutDeleteMarker(p) ==
    /\ task[p] = "put" /\ Running(p).content = "MARKER"
    /\ PutToCloud(p, TRUE)

(* _putObjectTagging and _deleteObjectTagging: the location has the object *)
PutObjectTagging(p) ==
    /\ task[p] = "put" /\ Running(p).content = "METADATA" /\ Running(p).stored
    /\ PutToCloud(p, TRUE)

(* The location gets the whole object *)
WholeObject(p) ==
    \/ Running(p).content = "DATA"
    \/ Running(p).content = "METADATA" /\ ~Running(p).stored

(* _getAndPutObject: no success when the data is gone *)
GetAndPutObject(p) ==
    /\ task[p] = "put" /\ WholeObject(p) /\ ~source.multipart
    /\ PutToCloud(p, source.data)

(* _initiateMPU, for an object sent in parts *)
InitiateMPU(p) ==
    /\ task[p] = "put" /\ WholeObject(p) /\ source.multipart
    /\ \/ /\ uploads' = [uploads EXCEPT ![SiteOf(p)] = @ + 1]
          /\ Step(p, "parts")
       \/ Skip(p) /\ UNCHANGED uploads
       \/ PublishStatus(p, "FAILED") /\ UNCHANGED uploads
    /\ UNCHANGED <<source, target, stale, statuses, gcTopic, retry, bounds>>

(* _putMPUPart: a part of the data, which must still be there *)
PutMPUPart(p) == source.data

(* _completeRangedMPU: every part is read and put, or the upload is aborted *)
CompleteRangedMPU(p) ==
    /\ task[p] = "parts"
    /\ \/ PutMPUPart(p) /\ Step(p, "complete")
       \/ Step(p, "abort")
    /\ UNCHANGED <<source, sites, statuses, gcTopic, retry, bounds>>

(* Faulty: an upload that cannot be completed is left as it is *)
CompleteMPUNoAbort(p) ==
    /\ task[p] = "complete"
    /\ \/ /\ PutToTarget(p)
          /\ uploads' = [uploads EXCEPT ![SiteOf(p)] = @ - 1]
          /\ PublishStatus(p, "COMPLETED")
       \/ PublishStatus(p, "FAILED") /\ UNCHANGED sites
    /\ UNCHANGED <<source, statuses, gcTopic, retry, bounds>>

(* _completeMPU: an error does not tell whether the location has the object *)
CompleteMPU(p) ==
    /\ task[p] = "complete"
    /\ \/ /\ PutToTarget(p)
          /\ uploads' = [uploads EXCEPT ![SiteOf(p)] = @ - 1]
          /\ PublishStatus(p, "COMPLETED") \/ Step(p, "abort completed")
       \/ Step(p, "abort") /\ UNCHANGED sites
    /\ UNCHANGED <<source, statuses, gcTopic, retry, bounds>>

(* _multipleBackendAbortMPU: the location forgets the upload, or has none any  *)
(* more, or the request and its retries fail                                  *)
MultipleBackendAbortMPU(p) ==
    \/ /\ task[p] = "abort"
       /\ uploads' = [uploads EXCEPT ![SiteOf(p)] = @ - 1]
       /\ UNCHANGED crashes
    \/ task[p] = "abort completed" /\ UNCHANGED <<uploads, crashes>>
    \/ /\ task[p] = "abort" /\ crashes < MaxCrashes
       /\ crashes' = crashes + 1
       /\ UNCHANGED uploads

(* _handleMPUFailure: the outcome is that of the failed request, whatever the *)
(* abort answers, and a retryable one starts another upload                   *)
HandleMPUFailure(p) ==
    /\ MultipleBackendAbortMPU(p)
    /\ Step(p, "put") \/ Skip(p) \/ PublishStatus(p, "FAILED")
    /\ UNCHANGED <<source, target, stale, statuses, gcTopic, retry, updates, retries>>

-----------------------------------------------------------------------------
(* UpdateReplicationStatus: the scheduler runs one task at a time *)

(* _getUpdatedSourceEntry, when the status is written: the metadata read,    *)
(* with the site's status                                                    *)
Updated(e) ==
    [source EXCEPT !.status[e.site] = e.status,
                   !.stored = IF e.status = "COMPLETED" THEN @ \cup {e.site} ELSE @]

(* Faulty: the count is read but not decremented *)
ReplayCountKept(e) ==
    IF e.entry.count = Unset THEN NReplays ELSE e.entry.count

(* _handleFailedReplicationEntry: the count of the replay entry, once        *)
(* _pushReplayEntry has decremented it                                       *)
NextReplayCount(e) ==
    IF e.entry.count = Unset \/ e.entry.count > NReplays
    THEN NReplays - 1
    ELSE e.entry.count - 1

(* Faulty: no status is final *)
NeverFinal(s) == FALSE

(* COMPLETED is final, as seen in the metadata read *)
Final(s) == source.status[s] = "COMPLETED"

(* Replays are configured and not exhausted *)
Replayable(e) ==
    e.status = "FAILED" /\ ReplayTopics # <<>> /\ e.entry.count # 0

(* _pushReplayEntry: to the topic the count selects; none when there is no   *)
(* such topic                                                                *)
PushReplayEntry(e, count) ==
    IF count + 1 \in DOMAIN replayTopics
    THEN Send(StatusProcessor, [topic |-> "replay",
                                to |-> <<e.site, replayTopics[count + 1]>>,
                                entry |-> [e.entry EXCEPT !.count = count]])
    ELSE UNCHANGED outbox

(* A COMPLETED status of older metadata than the metadata read *)
Outdated(e) == e.status = "COMPLETED" /\ e.entry.v < source.v

(* _checkStatus, _refreshSourceEntry and what follows from the metadata read *)
RefreshAndDecide ==
    LET i == First(statusTopic, "waiting")
        e == statusTopic[i]
        completed == Final(e.site)
        End == /\ statusTopic' = Processed(statusTopic, i)
               /\ UNCHANGED <<statusTask, stale>>
    IN
    /\ i # 0 /\ statusTask.step = "idle"
    /\ \/ End /\ Excuse({e.site}) /\ UNCHANGED outbox
       \/ completed /\ End /\ UNCHANGED <<outbox, excused>>
       \/ /\ ~completed /\ Replayable(e)
          /\ PushReplayEntry(e, NextReplayCount(e))
          /\ End /\ UNCHANGED excused
       \/ /\ ~completed /\ ~Replayable(e)
          /\ statusTopic' = Mark(statusTopic, i, "running")
          /\ statusTask' = [step |-> "put", md |-> Updated(e)]
          /\ stale' = stale \cup {s \in {e.site} : Outdated(e)}
          /\ UNCHANGED <<outbox, excused>>
    /\ UNCHANGED <<source, target, uploads, queues, gcTopic, retry, bounds>>

EndStatusTask ==
    /\ statusTopic' = Processed(statusTopic, First(statusTopic, "running"))
    /\ statusTask' = [step |-> "idle"]

(* _putMetadata: the whole metadata is replaced *)
PutSourceMetadata ==
    /\ statusTask.step = "put"
    /\ \/ /\ source' = [statusTask.md EXCEPT !.data = source.data]
          /\ statusTask' = [statusTask EXCEPT !.step = "collect"]
          /\ UNCHANGED <<statusTopic, excused>>
       \/ EndStatusTask /\ Excuse({StatusRunning.site}) /\ UNCHANGED source
    /\ UNCHANGED <<sites, queues, gcTopic, outbox, retry, bounds>>

(* _handleGarbageCollection, once the metadata is known to be written *)
HandleGarbageCollection ==
    /\ statusTask.step = "collect"
    /\ IF Transient /\ GlobalStatus(statusTask.md.status) = "COMPLETED"
       THEN Send(StatusProcessor, [topic |-> "gc"])
       ELSE UNCHANGED outbox
    /\ EndStatusTask
    /\ UNCHANGED <<source, sites, queues, gcTopic, retry, excused, bounds>>

-----------------------------------------------------------------------------
(* Producers, offsets, the garbage collector, the API and users *)

(* A delivery report for the oldest message of a producer *)
Deliver(w) ==
    LET msg == Head(outbox[w]) IN
    /\ outbox[w] # <<>>
    /\ outbox' = [outbox EXCEPT ![w] = Tail(@)]
    /\ \/ /\ msg.topic = "status"
          /\ statusTopic' = Append(statusTopic, msg.entry)
          /\ UNCHANGED <<partition, gcTopic, excused>>
       \/ /\ msg.topic = "gc"
          /\ gcTopic' = gcTopic + 1
          /\ UNCHANGED <<partition, statusTopic, excused>>
       \/ /\ msg.topic = "replay"
          /\ partition' = [partition EXCEPT ![msg.to] = Append(@, msg.entry)]
          /\ UNCHANGED <<statusTopic, gcTopic, excused>>
       \/ /\ Excuse(MsgSites(msg))
          /\ UNCHANGED <<partition, statusTopic, gcTopic>>
    /\ UNCHANGED <<source, sites, task, statusTask, retry, bounds>>

(* GarbageCollectorTask._executeDeleteData; a crash of the collector after   *)
(* the request leaves the entry to be processed again                        *)
ExecuteDeleteData ==
    /\ gcTopic > 0
    /\ \/ /\ source' = [source EXCEPT !.data = FALSE]
          /\ gcTopic' = gcTopic - 1
          /\ UNCHANGED crashes
       \/ /\ crashes < MaxCrashes
          /\ source' = [source EXCEPT !.data = FALSE]
          /\ crashes' = crashes + 1
          /\ UNCHANGED gcTopic
       \/ /\ gcTopic' = gcTopic - 1
          /\ UNCHANGED <<source, crashes>>
    /\ UNCHANGED <<sites, queues, statuses, outbox, retry, excused, updates, retries>>

(* BackbeatAPI.retryFailedCRR: with ForceRetry, whatever the status.  The    *)
(* lock is released at the end only: an error leaves it                      *)
RetryFailedCRR(s) ==
    /\ retry[s].step = "none" /\ updates + retries < MaxRequests
    /\ retries' = retries + 1
    /\ \/ retry' = [retry EXCEPT ![s] = [step |-> "status", entry |-> Entry(s, source, Unset)]]
       \/ retry' = [retry EXCEPT ![s] = [step |-> "locked"]]
    /\ UNCHANGED <<source, sites, queues, statuses, gcTopic, outbox, excused, crashes, updates>>

(* _pushToCRRRetryKafkaTopics: the status topic first, then the replication  *)
(* topic once the first message is delivered                                 *)
PushRetryStatus(s) ==
    /\ retry[s].step = "status"
    /\ \/ /\ statusTopic' = Append(statusTopic, StatusEntry(s, "PENDING", retry[s].entry))
          /\ retry' = [retry EXCEPT ![s].step = "crr"]
       \/ /\ retry' = [retry EXCEPT ![s] = [step |-> "locked"]]
          /\ UNCHANGED statusTopic
    /\ UNCHANGED <<source, sites, queues, statusTask, gcTopic, outbox, excused, bounds>>

PushRetryEntry(s) ==
    /\ retry[s].step = "crr"
    /\ \/ /\ partition' = [partition EXCEPT ![Crr(s)] = Append(@, retry[s].entry)]
          /\ retry' = [retry EXCEPT ![s] = [step |-> "none"]]
          /\ UNCHANGED excused
       \/ /\ retry' = [retry EXCEPT ![s] = [step |-> "locked"]]
          /\ Excuse({s})
          /\ UNCHANGED partition
    /\ UNCHANGED <<source, sites, task, statuses, gcTopic, outbox, bounds>>

(* A user changes the tags or the ACL of the version; CloudServer sets every *)
(* status to PENDING and the queue populator publishes the new metadata      *)
UserUpdate ==
    LET md == [source EXCEPT !.v = @ + 1, !.content = "METADATA",
                             !.status = [s \in Sites |-> "PENDING"]]
    IN
    /\ updates + retries < MaxRequests
    /\ updates' = updates + 1
    /\ source' = md
    /\ partition' = [p \in Processors |-> IF p = Crr(SiteOf(p))
                        THEN Append(partition[p], Entry(SiteOf(p), md, Unset))
                        ELSE partition[p]]
    /\ UNCHANGED <<sites, task, statuses, gcTopic, outbox, retry, excused, crashes, retries>>

(* What may be delivered again after a crash: offsets are committed in the   *)
(* background and in order, so any number of the first processed entries may *)
(* be committed                                                              *)
Redelivered(q) ==
    {[i \in 1 .. Len(q) - k |-> [q[i + k] EXCEPT !.stage = "waiting"]] :
        k \in {n \in 0 .. Len(q) : \A i \in 1 .. n : q[i].stage = "done"}}

(* The sites whose messages a process loses when it crashes *)
LostSites(w) == UNION {MsgSites(outbox[w][i]) : i \in DOMAIN outbox[w]}

CrashProcessor(p) ==
    /\ crashes < MaxCrashes
    /\ crashes' = crashes + 1
    /\ \E q \in Redelivered(partition[p]) : partition' = [partition EXCEPT ![p] = q]
    /\ task' = [task EXCEPT ![p] = "idle"]
    /\ outbox' = [outbox EXCEPT ![p] = <<>>]
    /\ Excuse(LostSites(p))
    /\ UNCHANGED <<source, sites, statuses, gcTopic, retry, updates, retries>>

CrashStatusProcessor ==
    /\ crashes < MaxCrashes
    /\ crashes' = crashes + 1
    /\ statusTopic' \in Redelivered(statusTopic)
    /\ statusTask' = [step |-> "idle"]
    /\ outbox' = [outbox EXCEPT ![StatusProcessor] = <<>>]
    /\ Excuse(LostSites(StatusProcessor))
    /\ UNCHANGED <<source, sites, queues, gcTopic, retry, updates, retries>>

-----------------------------------------------------------------------------
ProcessorStep(p) ==
    \/ ProcessReplicationEntry(p) \/ SetupRoles(p) \/ GetAndPutData(p)
    \/ PutMetadata(p) \/ RefreshSourceEntry(p)
    \/ PutDeleteMarker(p) \/ PutObjectTagging(p) \/ GetAndPutObject(p)
    \/ InitiateMPU(p) \/ CompleteRangedMPU(p) \/ CompleteMPU(p) \/ HandleMPUFailure(p)

StatusStep == RefreshAndDecide \/ PutSourceMetadata \/ HandleGarbageCollection

ApiStep(s) == PushRetryStatus(s) \/ PushRetryEntry(s)

(* Processes, producers and the API do not all stop in the middle of their   *)
(* work; none of them is treated better than another                         *)
Progress ==
    \/ \E p \in Processors : ProcessorStep(p)
    \/ StatusStep
    \/ \E w \in Processes : Deliver(w)
    \/ ExecuteDeleteData
    \/ \E s \in Sites : ApiStep(s)

Next ==
    \/ Progress
    \/ \E p \in Processors : CrashProcessor(p)
    \/ CrashStatusProcessor
    \/ \E s \in Sites : RetryFailedCRR(s)
    \/ UserUpdate

Spec == Init /\ [][Next]_vars

Fairness == WF_vars(Progress)

FairSpec == Spec /\ Fairness

-----------------------------------------------------------------------------
(* Something is under way for site s *)
InFlight(s) ==
    \/ \E p \in Processors : SiteOf(p) = s /\ \E i \in DOMAIN partition[p] :
            partition[p][i].stage # "done"
    \/ \E i \in DOMAIN statusTopic : /\ statusTopic[i].site = s
                                     /\ statusTopic[i].stage # "done"
    \/ \E w \in Processes : s \in LostSites(w)
    \/ retry[s].step \in {"status", "crr"}

(* A COMPLETED status is never a guess: the site holds the metadata of the   *)
(* source, whatever users' updates, retries of the API, replays and crashes  *)
(* happened.  The comment on UpdateReplicationStatus._getUpdatedSourceEntry  *)
(* rests on it: COMPLETED "means the replication already happened            *)
(* successfully".  Named exception (stale): the COMPLETED of older metadata  *)
(* was recorded over newer metadata, whose own entry may have been skipped   *)
(* (taskSchedulerHelpers.js:20), or a late entry has put its older metadata  *)
(* over newer metadata of the site (ReplicateObject.js:527)                  *)
CompletedMeansReplicated ==
    \A s \in Sites : source.status[s] = "COMPLETED" =>
        target[s] >= source.v \/ s \in stale

(* COMPLETED is a final state of a site: no late FAILED or PENDING entry,    *)
(* redelivered, replayed or sent by the API, overrides it; only a user's     *)
(* update of the object does                                                 *)
CompletedIsFinal ==
    [][\A s \in Sites : source.status[s] = "COMPLETED" =>
          source'.status[s] = "COMPLETED" \/ updates' > updates]_vars

(* Transient data is collected only when every site holds the object: no     *)
(* order of failures, replays, retries and crashes loses the last copy       *)
NoEarlyCollection ==
    ~source.data => \A s \in Sites : target[s] >= source.v

(* A site stays PENDING with nothing under way only when a documented dead   *)
(* end was met: a skipped entry, a failed delivery, an error of the source   *)
(* or a crash.  No interleaving of processors, status processor and API      *)
(* forgets a site                                                            *)
PendingHasFuture ==
    \A s \in Sites : source.status[s] = "PENDING" => InFlight(s) \/ s \in excused

(* Every site settles: the replays end, with COMPLETED or FAILED *)
EventuallySettled ==
    \A s \in Sites : <>[](source.status[s] # "PENDING" \/ s \in excused)

(* An upload that is no longer in a task's hands was aborted or completed:    *)
(* locations keep, and bill, the parts of no other one.  Only a crash of the  *)
(* processor and an abort that fails leave one behind                         *)
(* (MultipleBackendTask._handleMPUFailure)                                   *)
NoStrayUploads ==
    \A s \in Sites :
        uploads[s] <= crashes + Cardinality({p \in Processors :
            SiteOf(p) = s /\ task[p] \in {"parts", "complete", "abort"}})
================================================================================
