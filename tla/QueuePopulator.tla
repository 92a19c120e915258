--------------------------- MODULE QueuePopulator ---------------------------
(* The queue populator processes and their log readers, for one metadata log:
   a raft session ("bucketd", given to a process by the provision dispatcher),
   the mongo oplog ("mongo", read through a tailable cursor) or the log of a
   file backend ("dmd").  A reader loads the offset saved in zookeeper, then in
   batches reads records, filters them into the topics of the extensions,
   publishes them and saves the offset of the next record.  Any error of a batch
   ends the process (bin/queuePopulator.js), which is started again.

   Records are numbered from 1; an offset is the number of the next record to
   read, and 0 stands for "none".  What the extensions' filters do is the
   constant Filter, the topics a record has an entry for.                      *)
EXTENDS Integers, FiniteSets

CONSTANTS
    Populators,     \* queue populator processes
    Topics,         \* kafka topics the extensions publish to
    MaxSeq,         \* records the log ever holds (bound)
    Filter,         \* the topics each record is published to
    MaxRead,        \* qpConfig.batchMaxRead
    MaxExits,       \* process exits, for any reason (bound)
    MaxProvisions   \* provision lists sent by the dispatcher (bound)

ASSUME PopulatorAssumption ==
    /\ MaxSeq \in Nat /\ MaxRead \in Nat \ {0}
    /\ MaxExits \in Nat /\ MaxProvisions \in Nat
    /\ Filter \in [1 .. MaxSeq -> SUBSET Topics]

Offsets == 0 .. MaxSeq + 1

VARIABLES
    source,         \* qpConfig.logSource, fixed
    logEnd,         \* sequence number of the last record of the log
    zkOffset,       \* offset saved in zookeeper
    floor,          \* history: where populating the log began
    published,      \* entries in kafka: pairs of a topic and a record
    phase,          \* what the process is doing
    logReadersUpdate, \* "none", or a list "with" or "without" the log
    logReader,      \* logReaders has a reader of the log
    logOffset,      \* the reader's logOffset
    openLog,        \* position of the open tailable cursor
    nextLogOffset,  \* of the batch being published
    toPublish,      \* entries sent and not acknowledged yet
    exits, provisions

reader == <<logReader, logOffset, openLog>>
batch == <<nextLogOffset, toPublish>>
vars == <<source, logEnd, zkOffset, floor, published, phase, logReadersUpdate,
          logReader, logOffset, openLog, nextLogOffset, toPublish, exits, provisions>>

TypeOK ==
    /\ source \in {"bucketd", "mongo", "dmd"}
    /\ logEnd \in 0 .. MaxSeq
    /\ zkOffset \in Offsets /\ floor \in Offsets
    /\ published \in SUBSET (Topics \X (1 .. MaxSeq))
    /\ phase \in [Populators -> {"down", "idle", "setup", "init", "read", "publish"}]
    /\ logReadersUpdate \in [Populators -> {"none", "with", "without"}]
    /\ logReader \in [Populators -> BOOLEAN]
    /\ logOffset \in [Populators -> Offsets]
    /\ openLog \in [Populators -> Offsets]
    /\ nextLogOffset \in [Populators -> Offsets]
    /\ toPublish \in [Populators -> SUBSET (Topics \X (1 .. MaxSeq))]
    /\ exits \in 0 .. MaxExits /\ provisions \in 0 .. MaxProvisions

(* A log that was never populated, or one populated up to its first record *)
Init ==
    /\ source \in {"bucketd", "mongo", "dmd"}
    /\ logEnd = 0
    /\ zkOffset \in 0 .. 1 /\ floor = zkOffset
    /\ published = {}
    /\ phase = [p \in Populators |-> "down"]
    /\ logReadersUpdate = [p \in Populators |-> "none"]
    /\ logReader = [p \in Populators |-> FALSE]
    /\ logOffset = [p \in Populators |-> 0]
    /\ openLog = [p \in Populators |-> 0]
    /\ nextLogOffset = [p \in Populators |-> 0]
    /\ toPublish = [p \in Populators |-> {}]
    /\ exits = 0 /\ provisions = 0

-----------------------------------------------------------------------------
(* The log and the processes *)

(* A record is appended to the metadata log *)
LogWrite ==
    /\ logEnd < MaxSeq
    /\ logEnd' = logEnd + 1
    /\ UNCHANGED <<source, zkOffset, floor, published, phase, logReadersUpdate,
                   reader, batch, exits, provisions>>

(* Every source but bucketd has its reader from the start *)
SetupLogSources == IF source = "bucketd" THEN "none" ELSE "with"

(* open() *)
Start(p) ==
    /\ phase[p] = "down"
    /\ phase' = [phase EXCEPT ![p] = "idle"]
    /\ logReadersUpdate' = [logReadersUpdate EXCEPT ![p] = SetupLogSources]
    /\ UNCHANGED <<source, logEnd, zkOffset, floor, published, reader, batch, exits,
                   provisions>>

(* The dispatcher's callback: new readers wait for the next batch to start *)
Provision(p) ==
    /\ source = "bucketd" /\ phase[p] # "down" /\ provisions < MaxProvisions
    /\ \E list \in {"with", "without"} :
           logReadersUpdate' = [logReadersUpdate EXCEPT ![p] = list]
    /\ provisions' = provisions + 1
    /\ UNCHANGED <<source, logEnd, zkOffset, floor, published, phase, reader, batch,
                   exits>>

(* Faulty variant: the error is logged, and the next batch goes on *)
BatchSkipped(p) ==
    /\ exits < MaxExits
    /\ exits' = exits + 1
    /\ phase' = [phase EXCEPT ![p] = "idle"]
    /\ nextLogOffset' = [nextLogOffset EXCEPT ![p] = 0]
    /\ toPublish' = [toPublish EXCEPT ![p] = {}]
    /\ UNCHANGED <<logReadersUpdate, reader>>

(* The process ends with what it had in memory; entries that were sent and not
   acknowledged are in kafka or not                                            *)
ProcessExit(p) ==
    /\ exits < MaxExits
    /\ exits' = exits + 1
    /\ phase' = [phase EXCEPT ![p] = "down"]
    /\ logReadersUpdate' = [logReadersUpdate EXCEPT ![p] = "none"]
    /\ logReader' = [logReader EXCEPT ![p] = FALSE]
    /\ logOffset' = [logOffset EXCEPT ![p] = 0]
    /\ openLog' = [openLog EXCEPT ![p] = 0]
    /\ nextLogOffset' = [nextLogOffset EXCEPT ![p] = 0]
    /\ toPublish' = [toPublish EXCEPT ![p] = {}]

(* SIGTERM or a crash *)
Crash(p) ==
    /\ phase[p] # "down"
    /\ ProcessExit(p)
    /\ UNCHANGED <<source, logEnd, zkOffset, floor, published, provisions>>

(* queueBatch, when any step of the batch calls back with an error: a set-up or a
   read fails, an entry is not delivered, the offset is not saved              *)
BatchError(p) ==
    /\ phase[p] \in {"setup", "read", "publish"}
    /\ ProcessExit(p)
    /\ UNCHANGED <<source, logEnd, zkOffset, floor, published, provisions>>

-----------------------------------------------------------------------------
(* A batch *)

(* The cron job, when no batch is in progress: QueuePopulator.processLogEntries *)
StartBatch(p) ==
    /\ phase[p] = "idle"
    /\ \/ /\ logReadersUpdate[p] = "with"
          /\ phase' = [phase EXCEPT ![p] = "setup"]
          /\ UNCHANGED reader
       \/ /\ logReadersUpdate[p] = "without"
          /\ logReader' = [logReader EXCEPT ![p] = FALSE]
          /\ logOffset' = [logOffset EXCEPT ![p] = 0]
          /\ openLog' = [openLog EXCEPT ![p] = 0]
          /\ UNCHANGED phase
       \/ /\ logReadersUpdate[p] = "none" /\ logReader[p]
          /\ phase' = [phase EXCEPT ![p] = "read"]
          /\ UNCHANGED reader
       \/ /\ logReadersUpdate[p] = "none" /\ ~logReader[p]
          /\ UNCHANGED <<phase, reader>>
    /\ logReadersUpdate' = [logReadersUpdate EXCEPT ![p] = "none"]
    /\ UNCHANGED <<source, logEnd, zkOffset, floor, published, batch, exits, provisions>>

(* setup() is done: the new reader, without a cursor, replaces the old one *)
ReaderReady(p, offset) ==
    /\ phase' = [phase EXCEPT ![p] = "read"]
    /\ logReader' = [logReader EXCEPT ![p] = TRUE]
    /\ logOffset' = [logOffset EXCEPT ![p] = offset]
    /\ openLog' = [openLog EXCEPT ![p] = 0]

(* setup(): the offset saved in zookeeper, if any *)
ReadLogOffset(p) ==
    /\ phase[p] = "setup"
    /\ \/ zkOffset # 0 /\ ReaderReady(p, zkOffset)
       \/ /\ zkOffset = 0
          /\ phase' = [phase EXCEPT ![p] = "init"]
          /\ UNCHANGED reader
    /\ UNCHANGED <<source, logEnd, zkOffset, floor, published, logReadersUpdate, batch,
                   exits, provisions>>

(* The first offset of a log: after the last record of a raft session, unless it
   cannot be read; 1 for the other sources                                     *)
FirstOffset == IF source = "bucketd" THEN {1, logEnd + 1} ELSE {1}

InitializeLogOffset(p) ==
    /\ phase[p] = "init"
    /\ \E offset \in FirstOffset :
           /\ ReaderReady(p, offset)
           /\ floor' = IF offset > floor THEN offset ELSE floor
    /\ UNCHANGED <<source, logEnd, zkOffset, published, logReadersUpdate, batch, exits,
                   provisions>>

(* Where a read starts: at the cursor left open by the last batch, if any *)
ReadFrom(p) == IF openLog[p] # 0 THEN openLog[p] ELSE logOffset[p]

(* A tailable cursor stays open after the n records it gave *)
OpenLogAfter(p, n) == IF source = "mongo" THEN ReadFrom(p) + n ELSE 0

(* The batch ends with no record, and saves nothing: nothing to read, or a cursor
   that gave nothing before the time-out of the batch                          *)
ReadNothing(p) ==
    /\ phase[p] = "read"
    /\ source = "mongo" \/ ReadFrom(p) > logEnd
    /\ openLog' = [openLog EXCEPT ![p] = OpenLogAfter(p, 0)]
    /\ phase' = [phase EXCEPT ![p] = "idle"]
    /\ UNCHANGED <<source, logEnd, zkOffset, floor, published, logReadersUpdate,
                   logReader, logOffset, batch, exits, provisions>>

(* The entries of the records from..to-1, per topic *)
FilterEntries(from, to) ==
    {e \in Topics \X (1 .. MaxSeq) : /\ from <= e[2] /\ e[2] < to
                                     /\ e[1] \in Filter[e[2]]}

(* Faulty variant: the next offset counts the records asked for, not those read *)
NextLogOffsetOfLimit(start, nbLogRecordsRead) == start + MaxRead

NextLogOffset(start, nbLogRecordsRead) == start + nbLogRecordsRead

(* _processReadRecords, _processPrepareEntries, _processFilterEntries, and the
   sends of _processPublishEntries                                             *)
ReadRecords(p) ==
    /\ phase[p] = "read"
    /\ \E n \in 1 .. MaxRead :
           /\ ReadFrom(p) + n - 1 <= logEnd
           /\ source # "mongo" => (n = MaxRead \/ ReadFrom(p) + n - 1 = logEnd)
           /\ openLog' = [openLog EXCEPT ![p] = OpenLogAfter(p, n)]
           /\ nextLogOffset' = [nextLogOffset EXCEPT ![p] = NextLogOffset(ReadFrom(p), n)]
           /\ toPublish' = [toPublish EXCEPT ![p] =
                                FilterEntries(ReadFrom(p), ReadFrom(p) + n)]
    /\ phase' = [phase EXCEPT ![p] = "publish"]
    /\ UNCHANGED <<source, logEnd, zkOffset, floor, published, logReadersUpdate,
                   logReader, logOffset, exits, provisions>>

(* kafka has the entry, and the producer has its delivery report *)
Delivered(p, e) ==
    /\ phase[p] = "publish" /\ e \in toPublish[p]
    /\ published' = published \cup {e}
    /\ toPublish' = [toPublish EXCEPT ![p] = @ \ {e}]
    /\ UNCHANGED <<source, logEnd, zkOffset, floor, phase, logReadersUpdate, reader,
                   nextLogOffset, exits, provisions>>

(* Faulty variant: the offset is saved and not kept by the reader *)
SaveOnly(p) ==
    /\ phase[p] = "publish" /\ toPublish[p] = {}
    /\ zkOffset' = nextLogOffset[p]
    /\ phase' = [phase EXCEPT ![p] = "idle"]
    /\ nextLogOffset' = [nextLogOffset EXCEPT ![p] = 0]
    /\ UNCHANGED <<source, logEnd, floor, published, logReadersUpdate, reader,
                   toPublish, exits, provisions>>

(* setData with version -1: what another process saved meanwhile is overwritten *)
WriteLogOffset(offset) == zkOffset' = offset

(* _processSaveLogOffset, when the sends to all topics have succeeded *)
SaveLogOffset(p) ==
    /\ phase[p] = "publish" /\ toPublish[p] = {}
    /\ IF nextLogOffset[p] # logOffset[p]
       THEN /\ logOffset' = [logOffset EXCEPT ![p] = nextLogOffset[p]]
            /\ WriteLogOffset(nextLogOffset[p])
       ELSE UNCHANGED <<logOffset, zkOffset>>
    /\ phase' = [phase EXCEPT ![p] = "idle"]
    /\ nextLogOffset' = [nextLogOffset EXCEPT ![p] = 0]
    /\ UNCHANGED <<source, logEnd, floor, published, logReadersUpdate, logReader,
                   openLog, toPublish, exits, provisions>>

-----------------------------------------------------------------------------
Next ==
    \/ LogWrite
    \/ \E p \in Populators :
        \/ Start(p) \/ Provision(p) \/ Crash(p) \/ BatchError(p)
        \/ StartBatch(p) \/ ReadLogOffset(p) \/ InitializeLogOffset(p)
        \/ ReadNothing(p) \/ ReadRecords(p) \/ SaveLogOffset(p)
        \/ \E e \in Topics \X (1 .. MaxSeq) : Delivered(p, e)

(* Processes are started again, the cron job runs, and every request is answered;
   records that stay available are given to a reader that keeps asking.  Writes,
   provisions, crashes and errors need not happen.                              *)
Fairness ==
    \A p \in Populators :
        /\ WF_vars(Start(p)) /\ WF_vars(StartBatch(p))
        /\ WF_vars(ReadLogOffset(p)) /\ WF_vars(InitializeLogOffset(p))
        /\ WF_vars(ReadNothing(p) \/ ReadRecords(p)) /\ SF_vars(ReadRecords(p))
        /\ \A e \in Topics \X (1 .. MaxSeq) : WF_vars(Delivered(p, e))
        /\ WF_vars(SaveLogOffset(p))

Spec == Init /\ [][Next]_vars
FairSpec == Spec /\ Fairness

-----------------------------------------------------------------------------
(* Every entry of the records floor..offset-1 is in kafka *)
Covered(offset) == FilterEntries(floor, offset) \subseteq published

(* The offset saved in zookeeper passes no record whose entries are not all in
   kafka, so that whoever starts from it skips nothing: over exits in the middle of
   a batch, partial deliveries, cursors that are ahead of the offset, and readers of
   one log in two processes.                                                      *)
NothingSkipped == Covered(zkOffset)

(* If from some time on a live process has the log, every entry of the log is in
   kafka in the end, whatever batches failed before.                              *)
EventuallyQueued ==
    <>[](\E p \in Populators : logReader[p] \/ logReadersUpdate[p] = "with")
        => []<>(Covered(logEnd + 1))
=============================================================================
