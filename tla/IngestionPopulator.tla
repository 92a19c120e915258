------------------------- MODULE IngestionPopulator -------------------------
(* The ingestion populator process: it creates, sets up, pauses, resumes and
   removes the reader of a bucket, and starts its batches on every tick of its cron
   rule.  Pause, resume and scheduled resume come from the API over redis; the
   state of the location is kept in memory and in a Zookeeper node that is read
   and written back by two calls, so commands may overlap.

   One Zenko bucket in one location.  A paused location is in _pausedLocations
   with null or with the job of its scheduled resume.                          *)
EXTENDS IngestionReader

CONSTANT MaxJobs        \* scheduled resume jobs (bound)

ASSUME JobsAssumption == MaxJobs \in Nat

VARIABLES
    config,         \* the bucket is in the configuration
    ingestionSource,\* the reader in _ingestionSources, or 0
    logReaders,     \* active readers
    removing,       \* readers whose state is removed once they have no batch
    paused,         \* _pausedLocations: NotPaused, 0 for null, or a job
    jobs,           \* resume jobs that may fire
    nextJob,        \* identifier of the next one
    zkLocation,     \* the Zookeeper node of the location
    loaded,         \* the location was set up by this process
    updates,        \* updates of the node in flight
    overlapped,     \* history: one was in flight with another, or when the location was
                    \* removed or set up
    leftOver,       \* history: one that failed, or was lost in a restart, left a
                    \* scheduled resume that the rest of the state does not go with
    resumedEmpty,   \* history: a location without a bucket was resumed
    dirty           \* history: the bucket came back before its old reader was gone and its
                    \* old state removed, or the process stopped before it was

lists == <<ingestionSource, logReaders, removing>>
location == <<paused, jobs, nextJob, zkLocation, loaded, updates, overlapped, leftOver, resumedEmpty>>
vars == <<readerVars, config, lists, location, dirty>>

NotPaused == -1
NoSuchNode == [exists |-> FALSE, paused |-> FALSE, resume |-> FALSE]
Active == paused = NotPaused

-----------------------------------------------------------------------------
(* Ticks: bin/ingestion.js queueBatch, applyUpdates, processLogEntries.        *)

Without(seq, i) ==
    IF \E k \in DOMAIN seq : seq[k] = i
    THEN RemoveAt(seq, CHOOSE k \in DOMAIN seq : seq[k] = i /\ \A j \in 1..(k - 1) : seq[j] # i)
    ELSE seq

(* The readers of a paused location are removed while the list is walked: every
   removal skips the next reader.                                              *)
RemovePausedReaders(readers) ==
    IF Active THEN readers
    ELSE SubSeq(readers, 1 + ((Len(readers) + 1) \div 2), Len(readers))

(* A reader whose batch is in progress, or whose location is paused, is skipped. *)
ProcessLogEntries(readers, rs) ==
    [i \in Instances |->
        IF i \in ToSet(readers) /\ rs[i].phase = "idle" /\ Active
        THEN [Rest(rs[i]) EXCEPT !.phase = "init"] ELSE rs[i]]

InUse(i) == i = ingestionSource \/ i \in ToSet(logReaders) \cup removing \/ reader[i].phase # "idle"

(* A new reader is set up before the tick goes on. *)
AddNewLogSource ==
    /\ config /\ ingestionSource = 0
    /\ \E i \in Instances :
        /\ ~InUse(i) /\ \A j \in 1..(i - 1) : InUse(j)
        /\ ingestionSource' = i
        /\ reader' = [reader EXCEPT ![i] = [NewReader EXCEPT !.ready = "pending"]]
    /\ UNCHANGED <<source, queue, mongo, zk, left, replicating, scanHistory,
                   config, logReaders, removing, location, dirty>>

(* Only an active reader is removed: that of a paused location, or one that is
   being set up, stays.                                                        *)
CloseLogState ==
    IF ~config /\ ingestionSource \in ToSet(logReaders)
    THEN /\ logReaders' = RemovePausedReaders(Without(logReaders, ingestionSource))
         /\ removing' = removing \cup {ingestionSource}
         /\ ingestionSource' = 0
    ELSE /\ logReaders' = RemovePausedReaders(logReaders)
         /\ UNCHANGED <<ingestionSource, removing>>

QueueBatch ==
    /\ ~(config /\ ingestionSource = 0)
    /\ CloseLogState
    /\ reader' = ProcessLogEntries(logReaders', reader)
    /\ UNCHANGED <<source, queue, mongo, zk, left, replicating, scanHistory,
                   config, location, dirty>>

(* The log offset is read, or created empty; the tick goes on. *)
SetupReader(i) ==
    /\ reader[i].ready = "pending"
    /\ zkOffset' = IF zkOffset = NoNode THEN 0 ELSE zkOffset
    /\ logReaders' = RemovePausedReaders(Append(logReaders, i))
    /\ reader' = ProcessLogEntries(logReaders',
                    [reader EXCEPT ![i].ready = "yes",
                                   ![i].offset = IF zkOffset > 0 THEN zkOffset ELSE 1])
    /\ UNCHANGED <<source, queue, mongo, zkInit, left, replicating, scanHistory,
                   config, ingestionSource, removing, location, dirty>>

(* A reader that cannot be set up is not tried again by this process. *)
SetupReaderFails(i) ==
    /\ reader[i].ready = "pending"
    /\ logReaders' = RemovePausedReaders(logReaders)
    /\ reader' = ProcessLogEntries(logReaders', [reader EXCEPT ![i].ready = "failed"])
    /\ Spend("faults")
    /\ UNCHANGED <<source, queue, mongo, zk, replicating, scanHistory,
                   config, ingestionSource, removing, location, dirty>>

RemoveReaderState(i) ==
    /\ i \in removing /\ reader[i].phase = "idle"
    /\ zkInit' = NoState /\ zkOffset' = NoNode
    /\ removing' = removing \ {i}
    /\ UNCHANGED <<source, queue, mongo, reader, left, replicating, scanHistory,
                   config, ingestionSource, logReaders, location, dirty>>

-----------------------------------------------------------------------------
(* Commands, and the updates of the location's node they start.                *)

NoData == <<>>
Update(cmd) == [cmd |-> cmd, got |-> NoData]
Start(ops, cmd) == Append(ops, Update(cmd))
Begin(cmd) ==
    /\ updates' = Start(updates, cmd)
    /\ overlapped' = (overlapped \/ updates # <<>>)

PauseService ==
    /\ Active /\ Spend("commands")
    /\ Begin("pause")
    /\ UNCHANGED <<paused, jobs, nextJob, zkLocation, loaded, leftOver, resumedEmpty>>

ResumeService ==
    /\ ~Active /\ Spend("commands")
    /\ \E cmd \in {"resume", "schedule"} : Begin(cmd)
    /\ UNCHANGED <<paused, jobs, nextJob, zkLocation, loaded, leftOver, resumedEmpty>>

DeleteScheduledResumeService ==
    /\ Spend("commands")
    /\ Begin("unschedule")
    /\ UNCHANGED <<paused, jobs, nextJob, zkLocation, loaded, leftOver, resumedEmpty>>

TriggerResume ==
    /\ \E j \in jobs : jobs' = jobs \ {j}
    /\ Begin("trigger")
    /\ UNCHANGED <<paused, nextJob, zkLocation, loaded, leftOver, resumedEmpty, left>>

Command ==
    /\ PauseService \/ ResumeService \/ DeleteScheduledResumeService \/ TriggerResume
    /\ UNCHANGED <<source, queue, mongo, zk, reader, replicating, scanHistory,
                   config, lists, dirty>>

ScheduleJob ==
    /\ nextJob <= MaxJobs
    /\ nextJob' = nextJob + 1
    /\ jobs' = (jobs \ {nextJob}) \cup {nextJob}
    /\ paused' = nextJob

(* What the callback of an update does once the node is written; ops are the
   other updates in flight.                                                    *)
Paused(ops) ==
    /\ logReaders' = <<>>
    /\ paused' = 0
    /\ updates' = Start(ops, "unschedule")
    /\ UNCHANGED <<jobs, nextJob, resumedEmpty>>

(* Faulty variant: the location stays in _pausedLocations. *)
ResumedStillPaused(ops) ==
    /\ updates' = Start(ops, "unschedule")
    /\ logReaders' = IF ingestionSource # 0 THEN Append(logReaders, ingestionSource) ELSE logReaders
    /\ UNCHANGED <<paused, jobs, nextJob, resumedEmpty>>

(* The reader of the location is active again, and the location is no longer
   paused; one without a reader stays paused in memory.                        *)
Resumed(ops) ==
    /\ updates' = Start(ops, "unschedule")
    /\ IF ingestionSource # 0
       THEN /\ logReaders' = Append(logReaders, ingestionSource)
            /\ paused' = NotPaused
            /\ UNCHANGED resumedEmpty
       ELSE resumedEmpty' = TRUE /\ UNCHANGED <<logReaders, paused>>
    /\ UNCHANGED <<jobs, nextJob>>

Unscheduled(ops) ==
    /\ updates' = ops
    /\ jobs' = jobs \ {paused}
    /\ paused' = IF paused > 0 THEN 0 ELSE paused
    /\ UNCHANGED <<logReaders, nextJob, resumedEmpty>>

Scheduled(ops) ==
    /\ updates' = ops
    /\ ScheduleJob
    /\ UNCHANGED <<logReaders, resumedEmpty>>

Triggered(ops) ==
    /\ updates' = Start(ops, "resume")
    /\ jobs' = jobs \ {paused}
    /\ paused' = 0
    /\ UNCHANGED <<logReaders, nextJob, resumedEmpty>>

(* _updateZkStateNode: the node is read, *)
UpdateReads(k) ==
    /\ updates[k].got = NoData /\ zkLocation.exists
    /\ updates' = [updates EXCEPT ![k].got = <<zkLocation>>]
    /\ UNCHANGED <<readerVars, config, lists, paused, jobs, nextJob, zkLocation, loaded,
                   overlapped, leftOver, resumedEmpty, dirty>>

(* and written back with one property changed. *)
Changed(u) ==
    LET node == u.got[1] IN
    CASE u.cmd = "pause" -> [node EXCEPT !.paused = TRUE]
      [] u.cmd = "resume" -> [node EXCEPT !.paused = FALSE]
      [] u.cmd = "schedule" -> [node EXCEPT !.resume = TRUE]
      [] OTHER -> [node EXCEPT !.resume = FALSE]

UpdateWrites(k) ==
    /\ updates[k].got # NoData /\ zkLocation.exists
    /\ zkLocation' = Changed(updates[k])
    /\ LET ops == RemoveAt(updates, k) IN
        \/ updates[k].cmd = "pause" /\ Paused(ops)
        \/ updates[k].cmd = "resume" /\ Resumed(ops)
        \/ updates[k].cmd = "unschedule" /\ Unscheduled(ops)
        \/ updates[k].cmd = "schedule" /\ Scheduled(ops)
        \/ updates[k].cmd = "trigger" /\ Triggered(ops)
    /\ UNCHANGED <<readerVars, config, ingestionSource, removing, loaded, overlapped, leftOver, dirty>>

(* A resume that cannot be scheduled at set-up leaves the location active in memory
   only.  One that cannot be removed from the node of an active location pauses it
   in memory only, at the next set-up; one that cannot be done (its job was left
   over when the location was resumed by hand) does so at once.                *)
LeavesResume(cmd) ==
    \/ cmd = "schedule" /\ Active
    \/ cmd \in {"resume", "trigger", "unschedule"} /\ ~zkLocation.paused

(* An error, or a node that is gone.  Only a resume that was due is tried again. *)
UpdateFails(k) ==
    /\ IF zkLocation.exists THEN Spend("faults") ELSE UNCHANGED left
    /\ updates' = RemoveAt(updates, k)
    /\ leftOver' = (leftOver \/ LeavesResume(updates[k].cmd))
    /\ IF updates[k].cmd = "trigger" THEN ScheduleJob ELSE UNCHANGED <<paused, jobs, nextJob>>
    /\ UNCHANGED <<source, queue, mongo, zk, reader, replicating, scanHistory,
                   config, lists, zkLocation, loaded, overlapped, resumedEmpty, dirty>>

-----------------------------------------------------------------------------
(* bin/ingestion.js: the locations.                                            *)

(* A new location is paused.  The state of a known one is taken over: a resume
   that is due is done at once, a later one is scheduled.                      *)
SetupZkLocationNode ==
    /\ ~loaded /\ loaded' = TRUE
    /\ \/ /\ ~zkLocation.exists
          /\ zkLocation' = [exists |-> TRUE, paused |-> TRUE, resume |-> FALSE]
          /\ paused' = 0
          /\ UNCHANGED updates
       \/ /\ zkLocation.exists /\ zkLocation.resume
          /\ zkLocation' = [zkLocation EXCEPT !.paused = FALSE, !.resume = FALSE]
          /\ paused' = NotPaused
          /\ UNCHANGED updates
       \/ /\ zkLocation.exists /\ zkLocation.resume
          /\ updates' = Start(updates, "schedule")
          /\ UNCHANGED <<zkLocation, paused>>
       \/ /\ zkLocation.exists /\ ~zkLocation.resume
          /\ paused' = IF zkLocation.paused THEN 0 ELSE paused
          /\ UNCHANGED <<zkLocation, updates>>
    /\ overlapped' = (overlapped \/ updates # <<>>)
    /\ UNCHANGED <<readerVars, config, lists, jobs, nextJob, leftOver, resumedEmpty, dirty>>

RemoveZkState ==
    /\ loaded /\ Spend("reconfigs")
    /\ zkLocation' = NoSuchNode /\ paused' = NotPaused /\ loaded' = FALSE
    /\ overlapped' = (overlapped \/ updates # <<>>)
    /\ UNCHANGED <<source, queue, mongo, zk, reader, replicating, scanHistory, config, lists,
                   jobs, nextJob, updates, leftOver, resumedEmpty, dirty>>

(* The user deletes the Zenko bucket, and creates it again. *)
RemoveBucket ==
    /\ config /\ Spend("reconfigs")
    /\ config' = FALSE
    /\ target' = [v \in Versions |-> None]
    /\ dirty' = (dirty \/ (ingestionSource = 0 /\ (zkInit.exists \/ zkOffset # NoNode)))
    /\ UNCHANGED <<source, queue, dropped, zk, reader, replicating, scanHistory, lists, location>>

CreateBucket ==
    /\ ~config
    /\ config' = TRUE
    /\ dirty' = (\/ dirty \/ ingestionSource # 0 \/ removing # {} \/ logReaders # <<>>
                 \/ zkInit.exists \/ zkOffset # NoNode
                 \/ \E i \in Instances : reader[i].phase # "idle" \/ reader[i].ready = "pending")
    /\ UNCHANGED <<readerVars, lists, location>>

-----------------------------------------------------------------------------
(* The process stops and starts again: what is not in Zookeeper is lost. *)
Restart ==
    /\ reader' = [i \in Instances |-> NewReader]
    /\ ingestionSource' = 0 /\ logReaders' = <<>> /\ removing' = {}
    /\ paused' = NotPaused /\ jobs' = {} /\ nextJob' = 1 /\ updates' = <<>>
    /\ loaded' = FALSE
    /\ leftOver' = (\/ leftOver
                    \/ \E k \in DOMAIN updates :
                        updates[k].cmd = "unschedule" /\ LeavesResume("unschedule"))
    /\ dirty' = (dirty \/ removing # {} \/ ~config)
    /\ UNCHANGED <<source, queue, mongo, zk, replicating, scanHistory, config, zkLocation,
                   overlapped, resumedEmpty>>

Crash == Restart /\ Spend("faults")

Throws ==
    /\ \E i \in Instances : ReadRecordsThrows(i) \/ SaveLogOffsetThrows(i)
    /\ Restart
    /\ UNCHANGED left

SourceStep ==
    \/ \E v \in Versions : SourcePut(v) \/ SourcePutTagging(v) \/ SourceDelete(v) \/ (config /\ ZenkoPut(v))
    \/ OtherBucketPut

BatchStep(i) ==
    \/ ReadInitState(i) \/ GetBucketCseq(i) \/ GetObjectVersionsList(i)
    \/ GetBucketObjectsMetadata(i) \/ ProcessReadRecords(i)
    \/ PublishEntries(i) \/ WriteInitState(i) \/ SaveLogOffset(i, Active)

BatchFault(i) ==
    \/ PublishFails(i) \/ WriteInitStateFails(i) \/ SaveLogOffsetFails(i) \/ BatchFails(i)

MongoStep(v) ==
    \/ ProcessKafkaEntry(v, config) \/ ProcessedAgain(v, config) \/ ProcessKafkaEntryFails(v, config)

Step ==
    \/ (SourceStep /\ UNCHANGED <<config, lists, location, dirty>>)
    \/ (\E i \in Instances : BatchStep(i) \/ BatchFault(i)) /\ UNCHANGED <<config, lists, location, dirty>>
    \/ (\E v \in Versions : MongoStep(v)) /\ UNCHANGED <<config, lists, location, dirty>>
    \/ AddNewLogSource \/ QueueBatch
    \/ \E i \in Instances : SetupReader(i) \/ SetupReaderFails(i) \/ RemoveReaderState(i)
    \/ Command
    \/ \E k \in DOMAIN updates : UpdateReads(k) \/ UpdateWrites(k) \/ UpdateFails(k)
    \/ SetupZkLocationNode \/ RemoveZkState \/ RemoveBucket \/ CreateBucket
    \/ Crash \/ Throws

(* A behaviour ends where the saved state of the snapshot is no longer that of the
   bucket: the properties say nothing of what follows.                         *)
Next == ~torn /\ ~dirty /\ Step

Init ==
    /\ \E s \in Scenarios :
        InitReader(s) /\ zkLocation = [NoSuchNode EXCEPT !.exists = s.known]
    /\ config = TRUE
    /\ ingestionSource = 0 /\ logReaders = <<>> /\ removing = {}
    /\ paused = NotPaused /\ jobs = {} /\ nextJob = 1 /\ updates = <<>>
    /\ loaded = FALSE
    /\ overlapped = FALSE /\ leftOver = FALSE /\ resumedEmpty = FALSE /\ dirty = FALSE

Spec == Init /\ [][Next]_vars

-----------------------------------------------------------------------------
(* The state of the reader, the topic, the two buckets and the location is well
   formed; in particular a reader has an offset exactly when it is set up, no
   offset is past the end of the log, no master key of a version is published,
   and a job that may fire is one that was scheduled.                          *)
TypeOK ==
    /\ ReaderTypeOK
    /\ ingestionSource \in 0..MaxReaders /\ ToSet(logReaders) \subseteq Instances
    /\ removing \subseteq Instances
    /\ paused \in NotPaused..MaxJobs /\ jobs \subseteq 1..(nextJob - 1)
    /\ zkLocation \in [exists : BOOLEAN, paused : BOOLEAN, resume : BOOLEAN]

(* The reader has listed the source, has read its log, and Mongo has everything. *)
CaughtUp ==
    /\ config /\ ingestionSource # 0 /\ zkInit.exists /\ zkInit.done
    /\ LET r == reader[ingestionSource] IN
        r.ready = "yes" /\ r.phase = "idle" /\ r.offset > Len(log)
    /\ \A v \in Versions : queue[v] = <<>>

(* Nothing is missed: when the ingestion has caught up, every version of the source
   is in the Zenko bucket with its present metadata, whatever calls to Zookeeper,
   Kafka and the source failed, wherever the process stopped and whenever the
   location was paused.  The code misses a version, and the property leaves it out,
   where its entry failed in Mongo or was taken for a duplicate (dropped), from where
   one marker of the snapshot was saved without the other (torn), and from where the
   bucket was created again, or the process stopped while it was absent, before the
   markers and the offset of the old one were removed (dirty).  A version that a
   user wrote in Zenko (retro) is not ingested, on purpose.                    *)
NothingMissed ==
    CaughtUp /\ ~torn /\ ~dirty =>
        \A v \in Versions \ dropped :
            src[v] # None /\ ~src[v].retro => target[v] = src[v]

(* No version stays in the Zenko bucket after its deletion in the source, unless a
   snapshot was begun after the deletion: again, as the state of its first page was
   not saved, or after a user of Zenko wrote the version (skipped).  A deletion that
   failed in Mongo (dropped), a torn marker and the state of an earlier bucket
   (dirty) are left out too: the version does stay.                            *)
NoGhosts ==
    CaughtUp /\ ~torn /\ ~dirty /\ ~skipped =>
        \A v \in Versions \ dropped : target[v] # None => src[v] # None

(* Once no update is in flight, the populator and Zookeeper (where the API and the
   next process read it) agree on whether the location is paused, whatever update
   failed, its node unwritten, or was lost in a restart.  They do not agree for good, and the property
   stops, when two updates were in flight together, or one while the location was
   set up or removed (overlapped), when a scheduled resume was left over
   (leftOver), and when a location without a reader was resumed (resumedEmpty). *)
PauseStateAgrees ==
    loaded /\ zkLocation.exists /\ updates = <<>> /\ ~overlapped /\ ~leftOver /\ ~resumedEmpty =>
        (zkLocation.paused <=> ~Active)
=============================================================================
