-------------------------- MODULE LifecycleArchive --------------------------
(* The archived life of one object: a lifecycle rule sends it to a cold location,
   the cold backend answers with a status entry, the transition processor records
   the archive in the metadata, the garbage collector deletes the source data; a
   user asks for it back, the queue populator turns the log of the metadata into
   a restore request, and the restored copy expires again.  The cold backend and
   the S3 connector are outside the repository.

   Every task reads the metadata, changes it and puts it back without a
   condition; entries are delivered again after a crash.  A status entry or an
   entry for archived source data that fails is not committed: it stays in its
   topic and is seen again when the consumer restarts.                         *)
EXTENDS Naturals, Sequences, FiniteSets

CONSTANTS
    Contents,       \* the contents users write
    InitialContents,
    MaxWrites,      \* overwrites, deletions, changes of configuration (bound)
    MaxRestores,    \* restore requests of users (bound)
    MaxScans,       \* applications of the transition rule (bound)
    MaxFaults,      \* failed calls, crashes, lost or repeated entries (bound)
    MaxEvents       \* all of these together (bound)

ASSUME ArchiveAssumption ==
    /\ InitialContents \in Contents
    /\ {MaxWrites, MaxRestores, MaxScans, MaxFaults, MaxEvents} \subseteq Nat

VARIABLES
    versioned,  \* the object is a version, which is not overwritten, fixed
    md,         \* the object's metadata, or NoObject
    data,       \* stored source data and restored copies: [loc, etag]
    cold,       \* what the cold backend stores: [id, etag]
    clock,      \* identifiers given so far to data and archives
    log,        \* metadata log entries the queue populator has not read
    msgs,       \* entries in the topics whose offset is not committed
    held,       \* those that failed: not seen again before a restart
    tasks,      \* rules being applied, and entries being processed
    config,     \* the bucket has a lifecycle configuration
    zkNode,     \* the bucket has a node in Zookeeper
    used,       \* events so far: writes, restores, scans, faults
    stale,      \* history: a put overwrote metadata changed since it was read, or
                \* an entry was applied to data it was not about
    lost,       \* history: an entry was dropped by an error
    early,      \* history: archives of objects deleted before their source data was
    thrown      \* history: a processor died on an uncaught exception

vars == <<versioned, md, data, cold, clock, log, msgs, held, tasks, config, zkNode, used,
          stale, lost, early, thrown>>
history == <<stale, lost, early, thrown>>
bucket == <<config, zkNode>>

NoObject == [etag |-> "none"]
NoId == 0
Stores == {"warm", "cold"}

(* at is the last-modified date, loc what the locations point at, arch is archiveInfo; req, done and past
   are restoreRequestedAt, restoreCompletedAt, and restoreWillExpireAt < now;
   store is the dataStoreName, class the storage class, tip
   transition-in-progress.                                                     *)
Metadata == [etag : Contents, at : Nat, loc : Nat, arch : Nat, req : BOOLEAN, done : BOOLEAN,
             past : BOOLEAN, store : Stores, class : Stores, tip : BOOLEAN]
(* at, the date of the object the entry is about, is history: no task compares it. *)
Messages ==
    [type : {"gc"}, etag : Contents]
    \union [type : {"archive", "requeueTransition"}, etag : Contents, at : Nat]
    \union [type : {"status", "archivedSource"}, etag : Contents, arch : Nat, at : Nat]
    \union [type : {"coldGC", "requeueRestore", "restore"}, etag : Contents, arch : Nat]
    \union [type : {"deleteData"}, loc : Nat]
    \union [type : {"adjust"}, arch : Nat]
LogEntries ==
    [type : {"put"}, op : {"restore", "retry"}, master : BOOLEAN, value : Metadata]
    \union [type : {"delete"}, master : BOOLEAN, value : Metadata]
    \union [type : {"bucket"}, config : BOOLEAN]

TypeOK ==
    /\ md \in Metadata \union {NoObject}
    /\ data \subseteq [loc : 1 .. clock, etag : Contents]
    /\ cold \subseteq [id : 1 .. clock, etag : Contents]
    /\ msgs \subseteq Messages /\ held \subseteq msgs
    /\ \A i \in DOMAIN log : log[i] \in LogEntries
    /\ \A t \in tasks :
         /\ t.kind \in {"scan", "status", "archivedSource", "gc", "requeue"}
         /\ t.kind # "scan" => t.msg \in msgs \ held
         /\ t.seen \in Metadata \union {NoObject}
    /\ {config, zkNode, stale, lost, thrown} \subseteq BOOLEAN
    /\ used.writes <= MaxWrites /\ used.restores <= MaxRestores
    /\ used.scans <= MaxScans /\ used.faults <= MaxFaults

Init ==
    /\ versioned \in BOOLEAN
    /\ \/ md = NoObject /\ data = {} /\ clock = 0
       \/ /\ md = [etag |-> InitialContents, at |-> 1, loc |-> 1, arch |-> NoId,
                   req |-> FALSE, done |-> FALSE, past |-> FALSE, store |-> "warm", class |-> "warm",
                   tip |-> FALSE]
          /\ data = {[loc |-> 1, etag |-> InitialContents]} /\ clock = 1
    /\ cold = {}
    /\ log = << >> /\ msgs = {} /\ held = {} /\ tasks = {}
    /\ config = FALSE /\ zkNode = FALSE
    /\ used = [writes |-> 0, restores |-> 0, scans |-> 0, faults |-> 0]
    /\ stale = FALSE /\ lost = FALSE /\ early = {} /\ thrown = FALSE

Max == [writes |-> MaxWrites, restores |-> MaxRestores, scans |-> MaxScans, faults |-> MaxFaults]
Use(what) ==
    /\ used.writes + used.restores + used.scans + used.faults < MaxEvents
    /\ used[what] < Max[what]
    /\ used' = [used EXCEPT ![what] = @ + 1]
Fault == Use("faults")

Without(loc) == {d \in data : d.loc # loc}

(* A write of a version is logged twice, under the master key and under the key
   of the version.                                                             *)
Keys == 1 .. (IF versioned THEN 2 ELSE 1)
LoggedPut(op, value) ==
    log \o [i \in Keys |-> [type |-> "put", op |-> op, master |-> i = 1, value |-> value]]
LoggedDelete(value) ==
    log \o [i \in Keys |-> [type |-> "delete", master |-> i = 1, value |-> value]]

-----------------------------------------------------------------------------
(* Users, through the S3 connector. *)

(* What deleting or overwriting the object does to the archive it had. *)
LeaveArchive ==
    /\ log' = IF md.arch # NoId THEN LoggedDelete(md) ELSE log
    /\ early' = IF md.arch # NoId /\ md.class = "warm" THEN early \union {md.arch} ELSE early

UserPut(c) ==
    /\ md # NoObject /\ ~versioned /\ Use("writes")
    /\ clock' = clock + 1
    /\ data' = Without(md.loc) \union {[loc |-> clock + 1, etag |-> c]}
    /\ md' = [md EXCEPT !.etag = c, !.at = clock + 1, !.loc = clock + 1, !.arch = NoId,
                       !.req = FALSE, !.done = FALSE, !.past = FALSE, !.store = "warm", !.class = "warm", !.tip = FALSE]
    /\ LeaveArchive
    /\ UNCHANGED <<cold, msgs, held, tasks, bucket, stale, lost, thrown>>

UserDelete ==
    /\ md # NoObject /\ Use("writes")
    /\ md' = NoObject /\ data' = Without(md.loc)
    /\ LeaveArchive
    /\ UNCHANGED <<cold, clock, msgs, held, tasks, bucket, stale, lost, thrown>>

(* A first request on an archived object, or more days for a restored one. *)
UserRestore ==
    /\ md # NoObject /\ Use("restores")
    /\ \/ md.store = "cold" /\ md.arch # NoId /\ ~md.req /\ ~md.done
          /\ md' = [md EXCEPT !.req = TRUE]
       \/ md.done /\ md' = [md EXCEPT !.past = FALSE]
    /\ log' = LoggedPut("restore", md')
    /\ UNCHANGED <<data, cold, clock, msgs, held, tasks, bucket, history>>

(* Checked in the behaviours without an object, with which it has only the log in
   common.                                                                     *)
UserSetsLifecycle ==
    /\ clock = 0 /\ Use("writes")
    /\ config' = ~config
    /\ log' = Append(log, [type |-> "bucket", config |-> ~config])
    /\ UNCHANGED <<md, data, cold, clock, msgs, held, tasks, zkNode, history>>

(* The expiration date of the restored copy passes. *)
RestoreExpires ==
    /\ md # NoObject /\ md.done /\ ~md.past
    /\ md' = [md EXCEPT !.past = TRUE]
    /\ UNCHANGED <<data, cold, clock, log, msgs, held, tasks, bucket, used, history>>

-----------------------------------------------------------------------------
(* The cold backend. *)

(* It archives the object as it is, or hands a failed one back to be queued
   again.                                                                      *)
ColdArchives(m) ==
    /\ m.type = "archive"
    /\ \/ /\ md # NoObject /\ md.etag = m.etag /\ \E d \in data : d.loc = md.loc
          /\ clock' = clock + 1
          /\ cold' = cold \union {[id |-> clock + 1, etag |-> m.etag]}
          /\ msgs' = (msgs \ {m}) \union 
               {[type |-> "status", etag |-> m.etag, arch |-> clock + 1, at |-> m.at]}
       \/ /\ msgs' = (msgs \ {m}) \union 
               {[type |-> "requeueTransition", etag |-> m.etag, at |-> m.at]}
          /\ UNCHANGED <<cold, clock>>
    /\ UNCHANGED <<md, data, log, held, tasks, bucket, used, history>>

ColdRestores(m) ==
    /\ m.type = "restore"
    /\ IF md = NoObject \/ md.arch # m.arch \/ md.done \/ ~ \E c \in cold : c.id = m.arch
       THEN msgs' = msgs \ {m} /\ UNCHANGED <<md, data, clock>>
       ELSE \/ /\ clock' = clock + 1
               /\ data' = data \union {[loc |-> clock + 1, etag |-> m.etag]}
               /\ \E s \in Stores :
                    md' = [md EXCEPT !.loc = clock + 1, !.done = TRUE, !.past = FALSE, !.store = s]
               /\ msgs' = msgs \ {m}
            \/ /\ msgs' = (msgs \ {m}) \union
                          {[type |-> "requeueRestore", etag |-> m.etag, arch |-> m.arch]}
               /\ UNCHANGED <<md, data, clock>>
    /\ UNCHANGED <<cold, log, held, tasks, bucket, used, history>>

(* It follows the expiration dates it was told, which may be out of date. *)
ColdExpires ==
    /\ md # NoObject /\ md.done
    /\ msgs' = msgs \union {[type |-> "gc", etag |-> md.etag]} /\ msgs' # msgs
    /\ UNCHANGED <<md, data, cold, clock, log, held, tasks, bucket, used, history>>

ColdDeletes(m) ==
    /\ m.type \in {"coldGC", "adjust"}
    /\ cold' = IF m.type = "coldGC" THEN {c \in cold : c.id # m.arch} ELSE cold
    /\ msgs' = msgs \ {m}
    /\ UNCHANGED <<md, data, clock, log, held, tasks, bucket, used, history>>

-----------------------------------------------------------------------------
(* The queue populator: LifecycleQueuePopulator.filter, on the next log entry. *)

RestoreRequest(e) ==
    [type |-> "restore", etag |-> e.value.etag, arch |-> e.value.arch]

(* A restored object gets its new date; a request is passed on, once per version. *)
HandleRestoreOp(e) ==
    IF e.value.done
    THEN IF e.value.past \/ e.value.store # "cold" THEN {}
         ELSE {[type |-> "adjust", arch |-> e.value.arch]}
    ELSE IF ~e.value.req \/ (versioned /\ e.master) THEN {}
         ELSE {RestoreRequest(e)}

(* The storage class decides whether anything archived has to be deleted. *)
HandleDeleteOp(e) ==
    IF e.value.arch = NoId \/ e.value.class = "warm" \/ (versioned /\ e.master) THEN {}
    ELSE {[type |-> "coldGC", etag |-> e.value.etag, arch |-> e.value.arch]}

UpdateZkBucketNode(e) == zkNode' = e.config

(* What an entry sends is not waited for: errors are logged. *)
Filter ==
    /\ log # << >>
    /\ log' = Tail(log)
    /\ LET e == Head(log)
           sent == CASE e.type = "put" -> HandleRestoreOp(e)
                     [] e.type = "delete" -> HandleDeleteOp(e)
                     [] OTHER -> {}
       IN \/ /\ msgs' = msgs \union sent
             /\ IF e.type = "bucket" THEN UpdateZkBucketNode(e) ELSE UNCHANGED zkNode
             /\ UNCHANGED <<used, lost>>
          \/ /\ Fault /\ (sent # {} \/ e.type = "bucket")
             /\ lost' = TRUE /\ UNCHANGED <<msgs, zkNode>>
    /\ UNCHANGED <<md, data, cold, clock, held, tasks, config, stale, early, thrown>>

-----------------------------------------------------------------------------
(* Tasks on entries. *)

Idle(m) == m \notin held /\ \A t \in tasks : t.msg # m
Task(kind, pc, m, seen) == [kind |-> kind, pc |-> pc, msg |-> m, seen |-> seen]
Go(t, pc, seen) == tasks' = (tasks \ {t}) \union {[t EXCEPT !.pc = pc, !.seen = seen]}

(* The end of a task: its entry is committed, or delivered once more because the
   consumer stops before that.                                                 *)
Done(t, sent) ==
    /\ tasks' = tasks \ {t} /\ UNCHANGED held
    /\ \/ msgs' = (msgs \ {t.msg}) \union sent /\ UNCHANGED used
       \/ msgs' = msgs \union sent /\ Fault

(* An error that is not committable. *)
NotCommitted(t) ==
    /\ tasks' = tasks \ {t} /\ held' = held \union {t.msg} /\ UNCHANGED <<msgs, used>>

(* The put has no condition; it fails on an object deleted meanwhile. *)
PutMetadata(seen, new) == md' = new /\ stale' = (stale \/ md # seen)

(* A failed call, or a crash, in the middle of a task.  A process that crashes has
   its entry delivered again, and so has an entry that is not committed on
   errors; the error of another task is logged and its entry committed.        *)
TaskFails(t) ==
    /\ Fault
    /\ tasks' = tasks \ {t}
    /\ \/ UNCHANGED <<msgs, held, lost>>
       \/ t.kind \in {"status", "archivedSource"} /\ held' = held \union {t.msg}
          /\ UNCHANGED <<msgs, lost>>
       \/ t.kind \in {"gc", "requeue"} /\ msgs' = msgs \ {t.msg} /\ lost' = TRUE /\ UNCHANGED held
    /\ UNCHANGED <<md, data, cold, clock, log, bucket, stale, early, thrown>>

(* The consumers start again, and see what is not committed. *)
Restart ==
    /\ held # {} /\ held' = {}
    /\ UNCHANGED <<md, data, cold, clock, log, msgs, tasks, bucket, used, history>>

-----------------------------------------------------------------------------
(* Bucket processor: LifecycleTask._applyTransitionRule to a cold location.  One
   batch lists the object after the other.                                     *)

TransitionAllowed(o) == o.store = "warm" /\ ~o.tip /\ ~o.done

ApplyTransitionRule ==
    /\ md # NoObject /\ md.store = "warm" /\ \A t \in tasks : t.kind # "scan"
    /\ Use("scans")
    /\ IF TransitionAllowed(md)
       THEN /\ msgs' = msgs \union {[type |-> "archive", etag |-> md.etag, at |-> md.at]}
            /\ tasks' = tasks \union {Task("scan", "refresh", [type |-> "scan"], NoObject)}
       ELSE UNCHANGED <<msgs, tasks>>
    /\ UNCHANGED <<md, data, cold, clock, log, held, bucket, history>>

RefreshObjectMD(t) ==
    /\ t.kind = "scan" /\ t.pc = "refresh"
    /\ IF md = NoObject THEN tasks' = tasks \ {t} ELSE Go(t, "put", md)
    /\ UNCHANGED <<md, data, cold, clock, log, msgs, held, bucket, used, history>>

SetTransitionInProgress(t) ==
    /\ t.kind = "scan" /\ t.pc = "put"
    /\ tasks' = tasks \ {t}
    /\ IF md = NoObject THEN UNCHANGED <<md, stale>>
       ELSE PutMetadata(t.seen, [t.seen EXCEPT !.tip = TRUE])
    /\ UNCHANGED <<data, cold, clock, log, msgs, held, bucket, used, lost, early, thrown>>

-----------------------------------------------------------------------------
(* Transition processor: LifecycleColdStatusArchiveTask.processEntry. *)

ArchiveGetsMetadata(m) ==
    /\ m.type = "status" /\ Idle(m)
    /\ IF md = NoObject    \* an orphan: deleted from the cold backend
       THEN /\ Done(Task("status", "gc", m, NoObject),
                    {[type |-> "coldGC", etag |-> m.etag, arch |-> m.arch]})
            /\ UNCHANGED stale
       ELSE /\ tasks' = tasks \union {Task("status", "put", m, md)}
            /\ stale' = (stale \/ md.at # m.at \/ md.done)
            /\ UNCHANGED <<msgs, held, used>>
    /\ UNCHANGED <<md, data, cold, clock, log, bucket, lost, early, thrown>>

SetArchive(t) ==
    LET o == [t.seen EXCEPT !.arch = t.msg.arch, !.req = FALSE, !.done = FALSE, !.past = FALSE] IN
    IF o.loc = NoId THEN [o EXCEPT !.store = "cold", !.class = "cold", !.tip = FALSE] ELSE o

ArchivePutsMetadata(t) ==
    /\ t.kind = "status" /\ t.pc = "put"
    /\ IF md = NoObject THEN NotCommitted(t) /\ UNCHANGED <<md, stale>>
       ELSE /\ PutMetadata(t.seen, SetArchive(t))
            /\ IF SetArchive(t).loc = NoId THEN Done(t, {})
               ELSE Go(t, "gc", NoObject) /\ UNCHANGED <<msgs, held, used>>
    /\ UNCHANGED <<data, cold, clock, log, bucket, lost, early, thrown>>

(* Faulty variant: the source data is collected only when the object was stored
   in a cold location.                                                         *)
GarbageCollectArchivedSourceSkipped(t) ==
    /\ t.kind = "status" /\ t.pc = "gc"
    /\ Done(t, {}) /\ UNCHANGED lost
    /\ UNCHANGED <<md, data, cold, clock, log, bucket, stale, early, thrown>>

(* Published, not waited for: the status entry is committed even if this fails. *)
GarbageCollectArchivedSource(t) ==
    /\ t.kind = "status" /\ t.pc = "gc"
    /\ \/ Done(t, {[t.msg EXCEPT !.type = "archivedSource"]}) /\ UNCHANGED lost
       \/ /\ Fault /\ lost' = TRUE
          /\ tasks' = tasks \ {t} /\ msgs' = msgs \ {t.msg} /\ UNCHANGED held
    /\ UNCHANGED <<md, data, cold, clock, log, bucket, stale, early, thrown>>

-----------------------------------------------------------------------------
(* Garbage collector: GarbageCollectorTask._deleteArchivedSourceData reads the
   metadata, deletes the locations it names, and only then clears them.  Which
   archive the entry is about is not in the entry, and not compared; an entry
   delivered again after a restore deletes the restored copy.                  *)

SourceGetsMetadata(m) ==
    /\ m.type = "archivedSource" /\ Idle(m)
    /\ IF md = NoObject
       THEN NotCommitted(Task("archivedSource", "get", m, md)) /\ UNCHANGED stale
       ELSE /\ tasks' = tasks \union {Task("archivedSource", "delete", m, md)}
            /\ stale' = (stale \/ md.at # m.at \/ md.done)
            /\ UNCHANGED <<msgs, held, used>>
    /\ UNCHANGED <<md, data, cold, clock, log, bucket, lost, early, thrown>>

DeleteArchivedSourceData(t) ==
    /\ t.kind = "archivedSource" /\ t.pc = "delete"
    /\ data' = Without(t.seen.loc)
    /\ Go(t, "put", t.seen)
    /\ UNCHANGED <<md, cold, clock, log, msgs, held, bucket, used, history>>

ClearArchivedSource(t) ==
    /\ t.kind = "archivedSource" /\ t.pc = "put"
    /\ IF md = NoObject THEN NotCommitted(t) /\ UNCHANGED <<md, stale>>
       ELSE /\ PutMetadata(t.seen, [t.seen EXCEPT !.loc = NoId, !.store = "cold",
                                                  !.class = "cold", !.tip = FALSE])
            /\ Done(t, {})
    /\ UNCHANGED <<data, cold, clock, log, bucket, lost, early, thrown>>

(* GarbageCollectorTask._executeDeleteData, without a condition. *)
ExecuteDeleteData(m) ==
    /\ m.type = "deleteData"
    /\ data' = Without(m.loc)
    /\ Done(Task("deleteData", "delete", m, NoObject), {})
    /\ UNCHANGED <<md, cold, clock, log, bucket, history>>

-----------------------------------------------------------------------------
(* Transition processor: LifecycleUpdateExpirationTask on a restored copy whose
   time is over.                                                               *)

(* Faulty variant: the expiration is not confirmed. *)
RestoreExpiredAlways(o) == TRUE

(* Without a date nothing is in the future. *)
RestoreExpired(o) == ~o.done \/ o.past

ExpirationGetsMetadata(m) ==
    /\ m.type = "gc" /\ Idle(m)
    /\ LET t == Task("gc", "put", m, md) IN
       IF md = NoObject
       THEN Done(t, {}) /\ UNCHANGED thrown
       ELSE IF md.arch = NoId     \* no archive to read the date from
       THEN /\ thrown' = TRUE
            /\ held' = held \union {m} /\ UNCHANGED <<tasks, msgs, used>>
       ELSE IF RestoreExpired(md)
       THEN tasks' = tasks \union {t} /\ UNCHANGED <<msgs, held, used, thrown>>
       ELSE Done(t, {}) /\ UNCHANGED thrown
    /\ UNCHANGED <<md, data, cold, clock, log, bucket, stale, lost, early>>

(* Faulty variant: the archive is cleared with the rest of the restore. *)
ResetArchiveForgetsInfo(t) ==
    /\ t.kind = "gc" /\ t.pc = "put"
    /\ IF md = NoObject THEN Done(t, {}) /\ UNCHANGED <<md, stale>>
       ELSE /\ PutMetadata(t.seen,
                  [t.seen EXCEPT !.arch = NoId, !.req = FALSE, !.done = FALSE, !.past = FALSE,
                                 !.store = "cold", !.class = "cold", !.tip = FALSE])
            /\ Go(t, "gc", t.seen) /\ UNCHANGED <<msgs, held, used>>
    /\ UNCHANGED <<data, cold, clock, log, bucket, lost, early, thrown>>

ResetArchive(t) ==
    /\ t.kind = "gc" /\ t.pc = "put"
    /\ IF md = NoObject THEN Done(t, {}) /\ UNCHANGED <<md, stale>>
       ELSE /\ PutMetadata(t.seen,
                  [t.seen EXCEPT !.req = FALSE, !.done = FALSE, !.past = FALSE, !.store = "cold",
                                 !.class = "cold", !.tip = FALSE])
            /\ Go(t, "gc", t.seen) /\ UNCHANGED <<msgs, held, used>>
    /\ UNCHANGED <<data, cold, clock, log, bucket, lost, early, thrown>>

(* Faulty variant: the entry is committed and the task goes on. *)
GarbageCollectLocationGoesOn(t) ==
    /\ t.kind = "gc" /\ t.pc = "gc"
    /\ msgs' = (msgs \ {t.msg}) \union {[type |-> "deleteData", loc |-> t.seen.loc]}
    /\ UNCHANGED <<md, data, cold, clock, log, held, tasks, bucket, used, history>>

GarbageCollectLocation(t) ==
    /\ t.kind = "gc" /\ t.pc = "gc"
    /\ \/ Done(t, {[type |-> "deleteData", loc |-> t.seen.loc]}) /\ UNCHANGED lost
       \/ /\ Fault /\ lost' = TRUE
          /\ tasks' = tasks \ {t} /\ msgs' = msgs \ {t.msg} /\ UNCHANGED held
    /\ UNCHANGED <<md, data, cold, clock, log, bucket, stale, early, thrown>>

-----------------------------------------------------------------------------
(* Transition processor: LifecycleRequeueTask.requeueObjectVersion. *)

(* Faulty variant: the ETag is not compared. *)
ResetAppliesToAnyObject(m) == md.tip

(* LifecycleResetTransitionInProgressTask: a transition of these contents. *)
ResetApplies(m) == md.etag = m.etag /\ md.tip

(* LifecycleRetriggerRestoreTask: a restore that is still wanted. *)
RetriggerApplies == md.arch # NoId /\ ~md.done /\ ~md.past /\ md.req

(* The object was written again with the same contents, which the ETag does not
   tell.                                                                       *)
OtherWrite(m) == m.type = "requeueTransition" /\ m.etag = md.etag /\ m.at # md.at

RequeueGetsMetadata(m) ==
    /\ m.type \in {"requeueTransition", "requeueRestore"} /\ Idle(m)
    /\ LET t == Task("requeue", "put", m, md) IN
       IF /\ md # NoObject
          /\ IF m.type = "requeueTransition" THEN ResetApplies(m) ELSE RetriggerApplies
       THEN /\ tasks' = tasks \union {t}
            /\ stale' = (stale \/ OtherWrite(m))
            /\ UNCHANGED <<msgs, held, used>>
       ELSE Done(t, {}) /\ UNCHANGED stale
    /\ UNCHANGED <<md, data, cold, clock, log, bucket, lost, early, thrown>>

RequeuePutsMetadata(t) ==
    /\ t.kind = "requeue"
    /\ Done(t, {})
    /\ IF md = NoObject THEN UNCHANGED <<md, stale, log>>
       ELSE IF t.msg.type = "requeueTransition"
       THEN PutMetadata(t.seen, [t.seen EXCEPT !.tip = FALSE]) /\ UNCHANGED log
       ELSE PutMetadata(t.seen, t.seen) /\ log' = LoggedPut("retry", t.seen)
    /\ UNCHANGED <<data, cold, clock, bucket, lost, early, thrown>>

-----------------------------------------------------------------------------
Step ==
    \/ \E c \in Contents : UserPut(c)
    \/ UserDelete \/ UserRestore \/ UserSetsLifecycle \/ RestoreExpires
    \/ ColdExpires \/ Filter \/ Restart \/ ApplyTransitionRule
    \/ \E m \in msgs :
         \/ ColdArchives(m) \/ ColdRestores(m) \/ ColdDeletes(m)
         \/ ArchiveGetsMetadata(m) \/ SourceGetsMetadata(m) \/ ExecuteDeleteData(m)
         \/ ExpirationGetsMetadata(m) \/ RequeueGetsMetadata(m)
    \/ \E t \in tasks :
         \/ RefreshObjectMD(t) \/ SetTransitionInProgress(t)
         \/ ArchivePutsMetadata(t) \/ GarbageCollectArchivedSource(t)
         \/ DeleteArchivedSourceData(t) \/ ClearArchivedSource(t)
         \/ ResetArchive(t) \/ GarbageCollectLocation(t)
         \/ RequeuePutsMetadata(t) \/ TaskFails(t)

(* Nothing is claimed of what follows a stale put, and a behaviour ends there. *)
Next == ~stale /\ Step /\ UNCHANGED versioned

Spec == Init /\ [][Next]_vars

-----------------------------------------------------------------------------
(* The contents of the object can be had: its metadata points at stored data, or
   at an archive the cold backend has, of these contents.  No crash, requeue or
   early expiration breaks this, and no entry delivered again to the object it is
   about.  Named exceptions (stale), in which the code does lose contents: a task
   wrote back metadata that had changed since it read it, or an entry was applied to
   an object written again or restored since
   (GarbageCollectorTask._deleteArchivedSourceData,
   LifecycleUpdateExpirationTask.processActionEntry).                          *)
Recoverable ==
    md # NoObject /\ ~stale =>
        \/ \E d \in data : d.loc = md.loc /\ d.etag = md.etag
        \/ \E c \in cold : c.id = md.arch /\ c.etag = md.etag

(* A restored copy stays until its date, however early and however often the cold
   backend sends the entry that ends it, whatever fails, and whatever else is done
   to the object: more days asked for, a requeue, an application of the rule.
   Named exceptions (stale): a status or archivedSource entry that is delivered
   again after the restore wipes the copy
   (LifecycleColdStatusArchiveTask.js:85, GarbageCollectorTask.js:186), and so does
   a task that writes back metadata it read before the restore
   (LifecycleUpdateExpirationTask.processActionEntry).                         *)
RestoredUntilExpired ==
    [][md # NoObject /\ md' # NoObject /\ md.at = md'.at /\ md.done /\ ~md.past /\ ~stale' =>
           md'.done /\ md'.loc = md.loc /\ \E d \in data' : d.loc = md'.loc]_vars

(* What was begun goes on: an archived object whose source data still counts as
   its storage has an entry that will collect it, and a restore that was asked for
   and not done has a log entry or an entry for it.  Named exceptions: an error
   dropped an entry (lost), a task wrote back metadata that had changed, or applied
   an entry to an object written again or restored since (stale)
   (LifecycleColdStatusArchiveTask.processEntry, LifecycleQueuePopulator).     *)
NothingForgotten ==
    md # NoObject /\ ~stale /\ ~lost =>
        /\ md.arch # NoId /\ md.store = "warm" /\ ~md.done =>
               \E m \in msgs : m.type \in {"status", "archivedSource"}
        /\ md.req /\ ~md.done =>
               \/ \E i \in DOMAIN log : log[i].type = "put" /\ ~log[i].value.done
               \/ \E m \in msgs : m.type \in {"restore", "requeueRestore"}

(* At rest after a run without failed calls, crashes and repeated entries, nothing
   is stored that the object does not use: no source data, restored copy or
   archive, and the Zookeeper node of the bucket is there exactly when it has a
   lifecycle configuration.  Named exceptions: a task wrote back changed metadata
   (stale) or died on an exception (thrown).  An object deleted between the recording of its
   archive and the collection of its source keeps its archive, and its entry for
   the collector fails for ever (LifecycleQueuePopulator._handleDeleteOp,
   LifecycleResetTransitionInProgressTask, GarbageCollectorTask).              *)
NoLeftovers ==
    used.faults = 0 /\ ~stale /\ ~thrown /\ tasks = {} /\ log = << >>
    /\ (\A m \in msgs : m.type = "archivedSource" /\ md = NoObject) =>
        /\ \A d \in data : md # NoObject /\ d.loc = md.loc
        /\ \A c \in cold : c.id \in early \/ (md # NoObject /\ c.id = md.arch)
        /\ zkNode = config
=============================================================================
