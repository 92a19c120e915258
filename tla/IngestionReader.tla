--------------------------- MODULE IngestionReader ---------------------------
(* Ingestion of one S3C bucket into a Zenko bucket: the batches of an
   IngestionReader (a snapshot of the source listed page by page, then the raft
   log of the source), the filter of the ingestion extension, the ingestion topic,
   and the MongoQueueProcessor that writes the entries in the target bucket.

   A batch is a chain of calls: every step below ends where the code waits for
   Zookeeper, the source, or Kafka.  Readers 1..MaxReaders are the IngestionReader
   objects of the process: a bucket removed and configured again has a new one
   while the batch of the old one may still run.  The source bucket, its raft log
   (never pruned here) and Mongo are outside the repository.                   *)
EXTENDS Integers, Sequences, FiniteSets, SequencesExt, Selections

CONSTANTS
    Versions,       \* object versions, as <<key, version id>>; id 0 is a null version
    PageSize,       \* versions of a listing page
    MaxRead,        \* records of a log batch
    MaxReaders,     \* IngestionReader objects (bound)
    NullKey,        \* where the string 'null' is in the order of the keys
    Scenarios       \* bounds of writes, faults, commands and reconfigs; the versions
                    \* of the source at first; whether the bucket is replicating, and
                    \* the location known from before

ASSUME IngestionAssumption ==
    /\ Versions \subseteq (Nat \ {0}) \X Nat /\ IsFiniteSet(Versions)
    /\ \A s \in Scenarios : s.initial \subseteq Versions /\ s.known \in BOOLEAN
    /\ {PageSize, MaxRead, MaxReaders, NullKey} \subseteq Nat \ {0}
    /\ \A v \in Versions : v[1] # NullKey

VARIABLES
    src,        \* contents of every version in the source bucket, or None
    log,        \* its raft log: [v, c], c = None for a deletion; v = Other elsewhere
    queue,      \* entries of the topic whose offset is not committed, by version
    target,     \* contents of every version in the Zenko bucket, or None
    zkInit,     \* the three nodes of the snapshot state
    zkOffset,   \* the node of the log offset: NoNode, 0 when it is empty, or the offset
    reader,     \* the IngestionReader objects
    left,       \* what is left of the bounds
    replicating,\* the Zenko bucket has a replication rule, fixed
    skipped,    \* history: a snapshot was begun past the deletion of a version that the
                \* Zenko bucket has
    torn,       \* history: one of the two markers was saved without the other
    dropped     \* history: versions whose last entry was not applied

readerVars == <<src, log, queue, target, zkInit, zkOffset, reader, left, replicating,
                skipped, torn, dropped>>
source == <<src, log>>
mongo == <<target, dropped>>
zk == <<zkInit, zkOffset>>
scanHistory == <<skipped, torn>>

None == [rev |-> 0, tags |-> 0, retro |-> FALSE]
Other == <<0, 0>>
Unset == -1     \* undefined, and the empty data of a node
NoNode == -1
Instances == 1..MaxReaders
IsNull(v) == v[2] = 0

Spend(what) ==
    /\ left[what] > 0
    /\ left' = [left EXCEPT ![what] = @ - 1]

NoState == [exists |-> FALSE, done |-> FALSE, vm |-> Unset, km |-> Unset]
EmptyState == [NoState EXCEPT !.exists = TRUE]

(* ready is the set-up of the reader; st the snapshot state of the batch, snap
   whether it is set; out the entries to publish; next nextLogOffset; offset 0
   stands for the undefined logOffset of a reader that is not set up.          *)
NewReader == [ready |-> "no", phase |-> "idle", offset |-> 0, st |-> NoState, snap |-> FALSE,
              cseq |-> Unset, page |-> <<>>, out |-> <<>>, next |-> Unset, more |-> FALSE]
Rest(r) == [NewReader EXCEPT !.ready = r.ready, !.offset = r.offset]

-----------------------------------------------------------------------------
(* The source bucket.  A record of its log holds the entry of the version key,
   and that of the master key when the version is the latest one.              *)

Revision == 1 + Len(log)
Logged(v, c) ==
    /\ src' = [src EXCEPT ![v] = c]
    /\ log' = Append(log, [v |-> v, c |-> c])
    /\ Spend("writes")

SourcePut(v) ==
    /\ src[v] = None \/ IsNull(v)
    /\ Logged(v, [rev |-> Revision, tags |-> 0, retro |-> FALSE])
    /\ UNCHANGED <<queue, mongo, zk, reader, replicating, scanHistory>>

SourcePutTagging(v) ==
    /\ src[v] # None
    /\ Logged(v, [src[v] EXCEPT !.rev = Revision, !.tags = @ + 1])
    /\ UNCHANGED <<queue, mongo, zk, reader, replicating, scanHistory>>

SourceDelete(v) ==
    /\ src[v] # None
    /\ Logged(v, None)
    /\ UNCHANGED <<queue, mongo, zk, reader, replicating, scanHistory>>

(* A user of Zenko writes the version: it is in both buckets, marked with the
   identifier of the instance.                                                 *)
ZenkoPut(v) ==
    /\ src[v] = None /\ target[v] = None
    /\ LET c == [rev |-> Revision, tags |-> 0, retro |-> TRUE]
       IN Logged(v, c) /\ target' = [target EXCEPT ![v] = c]
    /\ UNCHANGED <<queue, dropped, zk, reader, replicating, scanHistory>>

OtherBucketPut ==
    /\ log' = Append(log, [v |-> Other, c |-> None])
    /\ Spend("writes")
    /\ UNCHANGED <<src, queue, mongo, zk, reader, replicating, scanHistory>>

-----------------------------------------------------------------------------
(* IngestionQueuePopulator.filter                                              *)

Entry(v, c, master) == [v |-> v, c |-> c, master |-> master]
Entries(v, c) ==
    IF c = None THEN <<Entry(v, c, FALSE)>>
    ELSE IF IsNull(v) THEN <<Entry(v, c, TRUE)>>
    ELSE <<Entry(v, c, FALSE), Entry(v, c, TRUE)>>

IsRetroPropagationEntry(e) == e.c.retro
IsMasterKeyEntry(e) == e.master /\ ~IsNull(e.v)
FilterValueOp(e) == IsRetroPropagationEntry(e) \/ IsMasterKeyEntry(e)

(* Faulty variant: the filter wants a value, which deletions do not have. *)
FilterEntryWithValue(e) == e.c # None /\ ~FilterValueOp(e)

FilterEntry(e) == e.c = None \/ ~FilterValueOp(e)

Filter(es) == Selected(es, {e \in ToSet(es) : FilterEntry(e)})

Published(es) ==
    [v \in Versions |-> queue[v] \o Selected(es, {e \in ToSet(es) : e.v = v})]

-----------------------------------------------------------------------------
(* A batch: _processReadRecords, _processPrepareEntries, _processPublishEntries,
   _processSaveLogOffset.                                                      *)

(* Faulty variant: the sequence number is read again for every page. *)
ReadInitStateAndCseq(i) ==
    /\ reader[i].phase = "init"
    /\ zkInit' = IF zkInit.exists THEN zkInit ELSE EmptyState
    /\ reader' = [reader EXCEPT ![i].st = zkInit',
                                ![i].phase = IF zkInit'.done THEN "log" ELSE "cseq"]
    /\ UNCHANGED <<source, queue, mongo, zkOffset, left, replicating, scanHistory>>

(* isStatusComplete is only trusted from Zookeeper: the flag meant to spare the
   read is never set.  A missing node is created empty.                        *)
ReadInitState(i) ==
    /\ reader[i].phase = "init"
    /\ zkInit' = IF zkInit.exists THEN zkInit ELSE EmptyState
    /\ reader' = [reader EXCEPT
                    ![i].st = zkInit',
                    ![i].phase = IF zkInit'.done THEN "log"
                                 ELSE IF zkInit'.vm = Unset /\ zkInit'.km = Unset THEN "cseq"
                                 ELSE "list"]
    /\ UNCHANGED <<source, queue, mongo, zkOffset, left, replicating, scanHistory>>

(* The version is in the Zenko bucket once the topic is consumed. *)
WillBeThere(v) ==
    IF queue[v] # <<>> THEN Last(queue[v]).c # None ELSE target[v] # None /\ v \notin dropped

(* The sequence number is read before the first page is listed, and only then.  The
   listing does not tell what was deleted by then: the versions of a first page
   that was published before, or those a user of Zenko wrote, stay.             *)
SkipsDeletion(st) ==
    /\ st.vm = Unset /\ st.km = Unset
    /\ \E v \in Versions : src[v] = None /\ WillBeThere(v) /\ Last(log).v # v

GetBucketCseq(i) ==
    /\ reader[i].phase = "cseq" /\ Len(log) > 0
    /\ reader' = [reader EXCEPT ![i].cseq = Len(log), ![i].phase = "list"]
    /\ skipped' = (skipped \/ SkipsDeletion(reader[i].st))
    /\ UNCHANGED <<source, queue, mongo, zk, left, replicating, torn>>

(* The listing is ordered by key, then from the newest version; it starts after
   the markers when both are set.                                              *)
Before(a, b) == a[1] < b[1] \/ (a[1] = b[1] /\ a[2] < b[2])
Sorted(s) == \A j, k \in DOMAIN s : j < k => Before(s[j], s[k])
InOrder(S) == CHOOSE s \in [1..Cardinality(S) -> S] : Sorted(s)
ListedAfter(st) ==
    LET here == {v \in Versions : src[v] # None}
        after == IF st.vm # Unset /\ st.km # Unset
                 THEN {v \in here : Before(<<st.km, st.vm>>, v)} ELSE here
    IN InOrder(after)

GetObjectVersionsList(i) ==
    /\ reader[i].phase = "list"
    /\ LET all == ListedAfter(reader[i].st)
           truncated == Len(all) > PageSize
           page == IF truncated THEN SubSeq(all, 1, PageSize) ELSE all
           marker == IF truncated THEN page[PageSize] ELSE <<Unset, Unset>>
       IN reader' = [reader EXCEPT
              ![i].page = page, ![i].snap = TRUE, ![i].phase = "metadata",
              ![i].st = [exists |-> TRUE, done |-> ~truncated, km |-> marker[1], vm |-> marker[2]]]
    /\ UNCHANGED <<source, queue, mongo, zk, left, replicating, scanHistory>>

(* The metadata is read version by version after the listing: one that is gone
   fails the batch.                                                            *)
GetBucketObjectsMetadata(i) ==
    /\ reader[i].phase = "metadata"
    /\ LET page == reader[i].page
           entries == FlattenSeq([k \in DOMAIN page |-> Entries(page[k], src[page[k]])])
       IN reader' = IF \E v \in ToSet(page) : src[v] = None
                    THEN [reader EXCEPT ![i] = Rest(@)]
                    ELSE [reader EXCEPT ![i].phase = "publish", ![i].next = reader[i].cseq,
                                        ![i].page = <<>>, ![i].out = Filter(entries)]
    /\ UNCHANGED <<source, queue, mongo, zk, left, replicating, scanHistory>>

(* Records of other buckets are counted, and skipped.  Past the end of the log the
   range is not satisfiable: the batch is empty, and starts at null.           *)
RaftRecords(start) == SubSeq(log, start, IF start + MaxRead - 1 < Len(log) THEN start + MaxRead - 1 ELSE Len(log))

(* Faulty variant: one record more than those read is counted. *)
NextLogOffsetPastRecord(start, n) == start + n + 1

NextLogOffset(start, n) == start + n

(* What is published of the records read *)
LogEntries(read) ==
    LET mine == Selected(read, {rec \in ToSet(read) : rec.v # Other})
    IN Filter(FlattenSeq([k \in DOMAIN mine |-> Entries(mine[k].v, mine[k].c)]))

ProcessReadRecords(i) ==
    /\ reader[i].phase = "log" /\ reader[i].ready = "yes"
    /\ LET start == reader[i].offset
           read == RaftRecords(start)
       IN reader' = [reader EXCEPT
              ![i].phase = "publish",
              ![i].out = LogEntries(read),
              ![i].next = IF start > Len(log) THEN 0 ELSE NextLogOffset(start, Len(read)),
              ![i].more = start <= Len(log) /\ start + Len(read) <= Len(log)]
    /\ UNCHANGED <<source, queue, mongo, zk, left, replicating, scanHistory>>

(* Without a raft session the read throws, and the process dies. *)
ReadRecordsThrows(i) == reader[i].phase = "log" /\ reader[i].ready # "yes"

(* The sequence number of the first page is only defined there. *)
PublishEntries(i) ==
    /\ reader[i].phase = "publish"
    /\ queue' = Published(reader[i].out)
    /\ reader' = [reader EXCEPT ![i].phase = "state", ![i].out = <<>>, ![i].cseq = Unset]
    /\ UNCHANGED <<source, mongo, zk, left, replicating, scanHistory>>

(* An error of the producer: any number of the entries may have been delivered. *)
PublishFails(i) ==
    /\ reader[i].phase = "publish"
    /\ \E n \in 0..Len(reader[i].out) : queue' = Published(SubSeq(reader[i].out, 1, n))
    /\ reader' = [reader EXCEPT ![i] = Rest(@)]
    /\ Spend("faults")
    /\ UNCHANGED <<source, mongo, zk, replicating, scanHistory>>

(* What is written for a state: undefined and false are the string 'null'. *)
Saved(st) == [exists |-> TRUE, done |-> st.done,
              km |-> IF st.km = Unset THEN NullKey ELSE st.km,
              vm |-> IF st.vm = Unset THEN 0 ELSE st.vm]

WriteInitState(i) ==
    /\ reader[i].phase = "state"
    /\ IF reader[i].snap /\ zkInit.exists THEN zkInit' = Saved(reader[i].st) ELSE UNCHANGED zkInit
    /\ reader' = IF reader[i].snap /\ ~zkInit.exists THEN [reader EXCEPT ![i] = Rest(@)]
                 ELSE [reader EXCEPT ![i].phase = "offset"]
    /\ UNCHANGED <<source, queue, mongo, zkOffset, left, replicating, scanHistory>>

(* The three nodes are written at the same time: some may fail. *)
WriteInitStateFails(i) ==
    /\ reader[i].phase = "state" /\ reader[i].snap /\ zkInit.exists
    /\ \E ok \in SUBSET {"done", "km", "vm"} :
        /\ ok # {"done", "km", "vm"}
        /\ zkInit' = [f \in DOMAIN zkInit |-> IF f \in ok THEN Saved(reader[i].st)[f] ELSE zkInit[f]]
        /\ torn' = (torn \/ Cardinality(ok \cap {"km", "vm"}) = 1)
    /\ reader' = [reader EXCEPT ![i] = Rest(@)]
    /\ Spend("faults")
    /\ UNCHANGED <<source, queue, mongo, zkOffset, replicating, skipped>>

Saves(r) == r.next # Unset /\ r.next # r.offset
NewOffset(r) == IF r.next > r.offset THEN r.next ELSE r.offset

(* The offset only grows.  Once saved, a batch that left records behind is
   followed by another when again holds.                                       *)
SaveLogOffset(i, again) ==
    LET r == reader[i]
        fails == Saves(r) /\ zkOffset = NoNode
        over == [r EXCEPT !.offset = IF Saves(r) THEN NewOffset(r) ELSE @]
    IN /\ r.phase = "offset"
       /\ ~(Saves(r) /\ r.ready # "yes")
       /\ zkOffset' = IF Saves(r) /\ ~fails THEN over.offset ELSE zkOffset
       /\ reader' = [reader EXCEPT ![i] =
                        IF r.more /\ ~fails /\ again THEN [Rest(over) EXCEPT !.phase = "init"] ELSE Rest(over)]
       /\ UNCHANGED <<source, queue, mongo, zkInit, left, replicating, scanHistory>>

(* The offset of a reader that is not set up is undefined: toString throws. *)
SaveLogOffsetThrows(i) ==
    reader[i].phase = "offset" /\ Saves(reader[i]) /\ reader[i].ready # "yes"

SaveLogOffsetFails(i) ==
    /\ reader[i].phase = "offset" /\ Saves(reader[i]) /\ reader[i].ready = "yes"
    /\ reader' = [reader EXCEPT ![i] = Rest([reader[i] EXCEPT !.offset = NewOffset(reader[i])])]
    /\ Spend("faults")
    /\ UNCHANGED <<source, queue, mongo, zk, replicating, scanHistory>>

(* An error of Zookeeper or of the source ends the batch. *)
BatchFails(i) ==
    /\ reader[i].phase \in {"init", "cseq", "list", "metadata", "log"}
    /\ reader' = [reader EXCEPT ![i] = Rest(@)]
    /\ Spend("faults")
    /\ UNCHANGED <<source, queue, mongo, zk, replicating, scanHistory>>

-----------------------------------------------------------------------------
(* MongoQueueProcessor.  The entries of a version are in one partition, and the
   consumer processes one entry at a time.                                     *)

(* getContentType: an object that exists is only updated when its tags change;
   it is only looked up when the bucket has a replication rule.                *)
HasContent(e) ==
    \/ ~replicating \/ target[e.v] = None
    \/ target[e.v].tags # e.c.tags

Consumed(v) == queue' = [queue EXCEPT ![v] = Tail(@)]

ProcessDeleteOpQueueEntry(v) ==
    /\ queue[v] # <<>> /\ Head(queue[v]).c = None
    /\ target' = [target EXCEPT ![v] = None]
    /\ dropped' = dropped \ {v}

ProcessObjectQueueEntry(v) ==
    /\ queue[v] # <<>> /\ Head(queue[v]).c # None
    /\ LET e == Head(queue[v]) IN
        IF HasContent(e)
        THEN target' = [target EXCEPT ![v] = e.c] /\ dropped' = dropped \ {v}
        ELSE /\ dropped' = IF target[v] = e.c THEN dropped ELSE dropped \cup {v}
             /\ UNCHANGED target

(* Processed, and committed; the bucket must still exist. *)
ProcessKafkaEntry(v, exists) ==
    /\ exists
    /\ ProcessDeleteOpQueueEntry(v) \/ ProcessObjectQueueEntry(v)
    /\ Consumed(v)
    /\ UNCHANGED <<source, zk, reader, left, replicating, scanHistory>>

(* The consumer stops before the offset is committed: the entry comes again. *)
ProcessedAgain(v, exists) ==
    /\ exists
    /\ ProcessDeleteOpQueueEntry(v) \/ ProcessObjectQueueEntry(v)
    /\ Spend("faults")
    /\ UNCHANGED <<source, queue, zk, reader, replicating, scanHistory>>

(* An error of Mongo, or a bucket that is gone: the entry is committed all the same. *)
ProcessKafkaEntryFails(v, exists) ==
    /\ queue[v] # <<>>
    /\ IF exists THEN Spend("faults") ELSE UNCHANGED left
    /\ dropped' = dropped \cup {v}
    /\ Consumed(v)
    /\ UNCHANGED <<source, target, zk, reader, replicating, scanHistory>>

-----------------------------------------------------------------------------
Contents == [rev : Nat, tags : Nat, retro : BOOLEAN]

ReaderTypeOK ==
    /\ src \in [Versions -> Contents] /\ target \in [Versions -> Contents]
    /\ \A k \in DOMAIN log : log[k].v \in Versions \cup {Other} /\ log[k].c \in Contents
    /\ \A v \in Versions : \A k \in DOMAIN queue[v] :
        queue[v][k].v = v /\ queue[v][k].c \in Contents /\ (queue[v][k].master => IsNull(v))
    /\ zkInit \in [exists : BOOLEAN, done : BOOLEAN, vm : Int, km : Int]
    /\ zkOffset \in NoNode..(Len(log) + 1)
    /\ \A i \in Instances :
        /\ reader[i].ready \in {"no", "pending", "yes", "failed"}
        /\ reader[i].phase \in {"idle", "init", "cseq", "list", "metadata", "log", "publish", "state", "offset"}
        /\ reader[i].offset \in 0..(Len(log) + 1)
        /\ reader[i].ready = "yes" <=> reader[i].offset # 0

InitReader(s) ==
    \E order \in {SetToSeq(s.initial)} :
        /\ left = [writes |-> s.writes, faults |-> s.faults, commands |-> s.commands, reconfigs |-> s.reconfigs]
        /\ replicating = s.replicating
        /\ log = [k \in 1..(Len(order) + 1) |->
                    IF k = 1 THEN [v |-> Other, c |-> None]
                    ELSE [v |-> order[k - 1], c |-> [rev |-> k, tags |-> 0, retro |-> FALSE]]]
        /\ src = [v \in Versions |->
                    IF \E k \in DOMAIN log : log[k].v = v
                    THEN log[CHOOSE k \in DOMAIN log : log[k].v = v].c ELSE None]
        /\ target = [v \in Versions |-> None]
        /\ queue = [v \in Versions |-> <<>>]
        /\ zkInit = NoState /\ zkOffset = NoNode
        /\ reader = [i \in Instances |-> NewReader]
        /\ skipped = FALSE /\ torn = FALSE /\ dropped = {}
=============================================================================
