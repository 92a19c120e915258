------------------------- MODULE LifecycleTransition -------------------------
(* Lifecycle actions on one object (or one version): the bucket processor applies
   a transition or an expiration rule to it, the data mover copies its data to
   the location "warm", the transition processor points the metadata at the copy,
   the garbage collector deletes the data that is no longer used, and the
   expiration processor deletes the object.  They share nothing but the object's
   metadata, which each of them reads and writes back without a condition, and
   Kafka topics that deliver an entry again after a crash.  Users overwrite and
   delete the object at any time.

   A stored copy is [loc, etag, at]: its location, its contents, when it was
   written.  A location is [store, id]: id is new for every write to a local or
   versioned store, and always 0 in an unversioned one, which overwrites.      *)
EXTENDS MultipartRanges, FiniteSets

CONSTANTS
    Contents,       \* the contents users write; two writes may have the same
    InitialContents,    \* what the object has at first
    Length,         \* the length of each of them
    MpuUploaded,    \* the contents that were written by a multipart upload
    MinMPUSize,     \* queueProcessor.minMPUSizeMB, in bytes
    StoreModes,     \* which stores may be unversioned cloud locations: sets of
                    \* stores
    MaxWrites,      \* overwrites and deletions by users (bound)
    MaxScans,       \* applications of a rule to the object (bound)
    MaxFaults,      \* failed calls, crashes, repeated deliveries (bound)
    MaxEvents       \* these three together (bound)

ASSUME TransitionAssumption ==
    /\ InitialContents \in Contents
    /\ Length \in [Contents -> Nat] /\ MpuUploaded \subseteq Contents
    /\ MinMPUSize \in Nat /\ StoreModes \subseteq SUBSET {"hot", "warm"}
    /\ MaxWrites \in Nat /\ MaxScans \in Nat /\ MaxFaults \in Nat /\ MaxEvents \in Nat

VARIABLES
    unversioned,  \* the stores that are unversioned, fixed
    md,         \* the object's metadata, or NoObject
    data,       \* the stored copies
    clock,      \* writes of data so far
    msgs,       \* entries in the topics whose offset is not committed
    tasks,      \* rules being applied, and entries being processed
    scans, writes, faults,
    replaced,   \* history: locations that a transition replaced by a newer copy
    stale,      \* history: a put or a delete hit metadata that had changed since
                \* its task read it, or a put set a location already replaced
    thrown      \* history: the data mover died on an uncaught exception

vars == <<unversioned, md, data, clock, msgs, tasks, scans, writes, faults, replaced, stale, thrown>>

NoObject == [etag |-> "none"]
NoLoc == [store |-> "none", id |-> 0]
NoCond == -1
Mixed == "mixed"

Loc(store, at) == [store |-> store, id |-> IF store \in unversioned THEN 0 ELSE at]
Locs == {NoLoc} \union [store : {"hot", "warm"}, id : Nat]
Metadata == [etag : Contents, at : Nat, loc : Locs, store : {"hot", "warm"},
             tip : BOOLEAN, repl : {"PENDING", "COMPLETED"}]
Messages ==
    [type : {"copyLocation"}, n : Nat, etag : Contents, at : Nat, cond : Int]
    \union [type : {"result"}, n : Nat, ok : BOOLEAN, etag : Contents, at : Nat,
            cond : Int, loc : Locs]
    \union [type : {"deleteData"}, n : Nat, cond : Int, loc : Locs]
    \union [type : {"deleteObject"}, n : Nat, at : Nat]
NoMsg == [type |-> "none"]

TypeOK ==
    /\ unversioned \in StoreModes
    /\ md \in Metadata \union {NoObject}
    /\ \A d \in data : d.loc \in Locs /\ d.at \in 1 .. clock
                       /\ d.etag \in Contents \union {Mixed}
    /\ clock \in Nat /\ msgs \subseteq Messages
    /\ \A t \in tasks :
         /\ t.kind \in {"scan", "mover", "update", "delete"}
         /\ t.kind # "scan" => t.msg \in msgs
         /\ t.seen \in Metadata \union {NoObject}
    /\ scans \in 0 .. MaxScans /\ writes \in 0 .. MaxWrites /\ faults \in 0 .. MaxFaults
    /\ replaced \subseteq Locs /\ stale \in BOOLEAN /\ thrown \in BOOLEAN

Copy(loc, etag) == [loc |-> loc, etag |-> etag, at |-> clock + 1]
Without(loc) == {d \in data : d.loc # loc}
Bounded == writes + scans + faults < MaxEvents
Fault == Bounded /\ faults < MaxFaults /\ faults' = faults + 1

Init ==
    /\ unversioned \in StoreModes
    /\ md = [etag |-> InitialContents, at |-> 1, loc |-> Loc("hot", 1), store |-> "hot",
             tip |-> FALSE, repl |-> "PENDING"]
    /\ data = {[loc |-> Loc("hot", 1), etag |-> InitialContents, at |-> 1]}
    /\ clock = 1 /\ msgs = {} /\ tasks = {}
    /\ scans = 0 /\ writes = 0 /\ faults = 0
    /\ replaced = {} /\ stale = FALSE /\ thrown = FALSE

-----------------------------------------------------------------------------
(* Users, through the S3 connector, which is not part of this repository: it
   writes new data, puts new metadata and deletes the data replaced.           *)

UserPut(c) ==
    /\ md # NoObject /\ Bounded /\ writes < MaxWrites
    /\ writes' = writes + 1 /\ clock' = clock + 1
    /\ LET loc == Loc("hot", clock + 1) IN
         /\ data' = {d \in Without(md.loc) : d.loc # loc} \union {Copy(loc, c)}
         /\ md' = [etag |-> c, at |-> clock + 1, loc |-> loc, store |-> "hot",
                   tip |-> FALSE, repl |-> "COMPLETED"]
    /\ UNCHANGED <<msgs, tasks, scans, faults, replaced, stale, thrown>>

RemoveObject == md' = NoObject /\ data' = Without(md.loc)

UserDelete ==
    /\ md # NoObject /\ Bounded /\ writes < MaxWrites
    /\ writes' = writes + 1
    /\ RemoveObject
    /\ UNCHANGED <<clock, msgs, tasks, scans, faults, replaced, stale, thrown>>

(* The replication of the object, seen from here. *)
ReplicationCompleted ==
    /\ md # NoObject /\ md.repl = "PENDING"
    /\ md' = [md EXCEPT !.repl = "COMPLETED"]
    /\ UNCHANGED <<data, clock, msgs, tasks, scans, writes, faults, replaced, stale, thrown>>

-----------------------------------------------------------------------------
(* Putting metadata back.  The put has no condition: what was written since the
   task read the metadata is overwritten.  An object deleted meanwhile is not
   created again: the put fails with ObjNotFound.                              *)
PutMetadata(seen, new) ==
    /\ md' = new
    /\ stale' = (stale \/ md # seen \/ new.loc \in replaced)

(* The end of a task on an entry: its offset is committed, or the consumer
   stops before and the entry is delivered again.  `sent' are the entries the
   task published.                                                             *)
Done(t, sent) ==
    /\ tasks' = tasks \ {t}
    /\ \/ msgs' = (msgs \ {t.msg}) \union sent /\ UNCHANGED faults
       \/ msgs' = msgs \union sent /\ Fault

(* A process stops, or a call fails for good, in the middle of a task.  A
   consumer's process that stops has its entry delivered again; an error is
   logged and the entry committed.                                             *)
TaskFails(t) ==
    /\ Fault
    /\ tasks' = tasks \ {t}
    /\ msgs' \in {msgs, msgs \ {t.msg}}
    /\ UNCHANGED <<md, data, clock, scans, writes, replaced, stale, thrown>>

Idle(m) == \A t \in tasks : t.msg # m

-----------------------------------------------------------------------------
(* Bucket processor: LifecycleTask._applyTransitionRule.  The object was listed
   with an ETag and a date, and may have changed since.                        *)

ListForTransition ==
    /\ Bounded /\ scans < MaxScans /\ md # NoObject /\ md.store = "hot"
    /\ scans' = scans + 1
    /\ tasks' = tasks \union {[kind |-> "scan", n |-> scans + 1, pc |-> "check", msg |-> NoMsg,
                               etag |-> md.etag, at |-> md.at, seen |-> NoObject]}
    /\ UNCHANGED <<md, data, clock, msgs, writes, faults, replaced, stale, thrown>>

TransitionAllowed == md.repl # "PENDING" /\ ~md.tip

CheckObjectMD(t) ==
    /\ t.kind = "scan" /\ t.pc = "check"
    /\ tasks' = IF md # NoObject /\ TransitionAllowed
                THEN (tasks \ {t}) \union {[t EXCEPT !.pc = "send", !.seen = md]}
                ELSE tasks \ {t}
    /\ UNCHANGED <<md, data, clock, msgs, scans, writes, faults, replaced, stale, thrown>>

(* _getTransitionActionEntry: the date of the source, when deleting it later has
   to depend on it.                                                            *)
SourceDate(seen) ==
    IF seen.store \in unversioned
    THEN (CHOOSE d \in data : d.loc = seen.loc).at
    ELSE NoCond

SendDataMoverAction(t) ==
    /\ t.kind = "scan" /\ t.pc = "send"
    /\ IF t.seen.store \in unversioned /\ ~ \E d \in data : d.loc = t.seen.loc
       THEN tasks' = tasks \ {t} /\ UNCHANGED msgs
       ELSE /\ msgs' = msgs \union {[type |-> "copyLocation", n |-> t.n, etag |-> t.etag,
                                     at |-> t.at, cond |-> SourceDate(t.seen)]}
            /\ tasks' = (tasks \ {t}) \union {[t EXCEPT !.pc = "refresh", !.seen = NoObject]}
    /\ UNCHANGED <<md, data, clock, scans, writes, faults, replaced, stale, thrown>>

RefreshObjectMD(t) ==
    /\ t.kind = "scan" /\ t.pc = "refresh"
    /\ tasks' = IF md = NoObject THEN tasks \ {t}
                ELSE (tasks \ {t}) \union {[t EXCEPT !.pc = "flag", !.seen = md]}
    /\ UNCHANGED <<md, data, clock, msgs, scans, writes, faults, replaced, stale, thrown>>

SetTransitionInProgress(t) ==
    /\ t.kind = "scan" /\ t.pc = "flag"
    /\ tasks' = tasks \ {t}
    /\ IF md = NoObject THEN UNCHANGED <<md, stale>>
       ELSE PutMetadata(t.seen, [t.seen EXCEPT !.tip = TRUE])
    /\ UNCHANGED <<data, clock, msgs, scans, writes, faults, replaced, thrown>>

-----------------------------------------------------------------------------
(* Data mover: QueueProcessor.processDataMoverEntry, CopyLocationTask.         *)

Result(m, ok, loc) ==
    [type |-> "result", n |-> m.n, ok |-> ok, etag |-> m.etag, at |-> m.at,
     cond |-> m.cond, loc |-> loc]

UsesMPU(c) == Length[c] >= MinMPUSize \/ c \in MpuUploaded

CheckObjectState(m) == md.etag = m.etag

MoverTask(m, pc) ==
    [kind |-> "mover", pc |-> pc, msg |-> m, seen |-> NoObject, parts |-> {}, loc |-> NoLoc]

MoverFailed(t) == [t EXCEPT !.pc = "error", !.parts = {}]

MoverReadsSource(m) ==
    /\ m.type = "copyLocation" /\ Idle(m)
    /\ tasks' = tasks \union
         {MoverTask(m, IF md # NoObject /\ CheckObjectState(m)
                       THEN IF UsesMPU(md.etag) THEN "parts" ELSE "put"
                       ELSE "error")}
    /\ UNCHANGED <<md, data, clock, msgs, scans, writes, faults, replaced, stale, thrown>>

(* What reading the object returns now: its data is found through its current
   metadata.                                                                   *)
Readable == md # NoObject /\ \E d \in data : d.loc = md.loc
CurrentContents == (CHOOSE d \in data : d.loc = md.loc).etag

StoreCopy(t, etag, next) ==
    LET loc == Loc("warm", clock + 1) IN
    /\ clock' = clock + 1
    /\ data' = Without(loc) \union {Copy(loc, etag)}
    /\ tasks' = (tasks \ {t}) \union {[t EXCEPT !.pc = next, !.loc = loc, !.parts = {}]}

(* One PUT, which the target refuses when the data does not have the ETag it is
   sent with.  The answer to a PUT that succeeded may be lost.                 *)
GetAndPutObject(t) ==
    /\ t.kind = "mover" /\ t.pc = "put"
    /\ IF Readable /\ CurrentContents = t.msg.etag
       THEN \/ StoreCopy(t, t.msg.etag, "publish") /\ UNCHANGED faults
            \/ StoreCopy(t, t.msg.etag, "error") /\ Fault
       ELSE /\ tasks' = (tasks \ {t}) \union {MoverFailed(t)}
            /\ UNCHANGED <<data, clock, faults>>
    /\ UNCHANGED <<md, msgs, scans, writes, replaced, stale, thrown>>

Ranges(t) == GetRanges(Length[t.msg.etag], FALSE)

(* The parts of a multipart upload, in any order.  Nothing checks the contents of
   a part.  The part of an empty object has no range, and building its entry for
   the completion dereferences it.                                             *)
PutMPUPart(t, i) ==
    /\ t.kind = "mover" /\ t.pc = "parts"
    /\ i \in 1 .. Len(Ranges(t)) /\ \A p \in t.parts : p.i # i
    /\ IF Ranges(t)[i] = NoRange
       THEN /\ thrown' = TRUE
            /\ tasks' = {u \in tasks : u.kind # "mover"}
       ELSE /\ tasks' = (tasks \ {t}) \union
                 {IF Readable
                  THEN [t EXCEPT !.parts = @ \union {[i |-> i, etag |-> CurrentContents]}]
                  ELSE MoverFailed(t)}
            /\ UNCHANGED thrown
    /\ UNCHANGED <<md, data, clock, msgs, scans, writes, faults, replaced, stale>>

(* The contents of the completed upload. *)
Assembled(t) ==
    LET etags == {p.etag : p \in t.parts} IN
    IF Cardinality(etags) = 1 /\ Tile(Ranges(t), Length[t.msg.etag]) THEN CHOOSE e \in etags : TRUE ELSE Mixed

CompleteMPU(t) ==
    /\ t.kind = "mover" /\ t.pc = "parts"
    /\ {p.i : p \in t.parts} = 1 .. Len(Ranges(t))
    /\ \/ StoreCopy(t, Assembled(t), "publish") /\ UNCHANGED faults
       \/ StoreCopy(t, Assembled(t), "error") /\ Fault
       \/ /\ tasks' = (tasks \ {t}) \union {MoverFailed(t)}    \* aborted
          /\ UNCHANGED <<data, clock>> /\ Fault
    /\ UNCHANGED <<md, msgs, scans, writes, replaced, stale, thrown>>

(* The outcome goes to the results topic.  Whether it could be delivered or not,
   the action is then committed.                                               *)
PublishCopyLocationStatus(t) ==
    /\ t.kind = "mover"
    /\ \/ t.pc = "publish" /\ Done(t, {Result(t.msg, TRUE, t.loc)})
       \/ t.pc = "error" /\ Done(t, {Result(t.msg, FALSE, NoLoc)})
       \/ /\ t.pc \in {"publish", "error"}
          /\ Fault /\ tasks' = tasks \ {t} /\ msgs' = msgs \ {t.msg}
    /\ UNCHANGED <<md, data, clock, scans, writes, replaced, stale, thrown>>

-----------------------------------------------------------------------------
(* Transition processor: LifecycleUpdateTransitionTask on the outcome of a copy. *)

(* The object was written since it was listed. *)
WasObjectModified(m) == m.at # md.at \/ m.etag # md.etag

UpdateTask(m, pc, seen, gc) ==
    [kind |-> "update", pc |-> pc, msg |-> m, seen |-> seen, gc |-> gc]

(* Faulty variant: a location that is already the object's is updated again. *)
UpdateReadsNoDuplicateCheck(m) ==
    /\ m.type = "result" /\ Idle(m)
    /\ IF ~m.ok \/ md = NoObject
       THEN Done([msg |-> m], {})
       ELSE /\ tasks' = tasks \union
                 {IF WasObjectModified(m) THEN UpdateTask(m, "gc", NoObject, m.loc)
                  ELSE UpdateTask(m, "put", md, md.loc)}
            /\ UNCHANGED <<msgs, faults>>
    /\ UNCHANGED <<md, data, clock, scans, writes, replaced, stale, thrown>>

(* Faulty variant: the copy of an object modified meanwhile is left where it is. *)
UpdateReadsNoRollback(m) ==
    /\ m.type = "result" /\ Idle(m)
    /\ IF ~m.ok \/ md = NoObject \/ WasObjectModified(m) \/ md.loc = m.loc
       THEN Done([msg |-> m], {})
       ELSE /\ tasks' = tasks \union {UpdateTask(m, "put", md, md.loc)}
            /\ UNCHANGED <<msgs, faults>>
    /\ UNCHANGED <<md, data, clock, scans, writes, replaced, stale, thrown>>

(* The copy is for nothing when the object was modified, and is then collected;
   an outcome delivered again finds its location in place.  A failed copy
   leaves everything as it is, and so does an object that is gone.             *)
UpdateReads(m) ==
    /\ m.type = "result" /\ Idle(m)
    /\ IF ~m.ok \/ md = NoObject \/ (~WasObjectModified(m) /\ md.loc = m.loc)
       THEN Done([msg |-> m], {})
       ELSE /\ tasks' = tasks \union
                 {IF WasObjectModified(m) THEN UpdateTask(m, "gc", NoObject, m.loc)
                  ELSE UpdateTask(m, "put", md, md.loc)}
            /\ UNCHANGED <<msgs, faults>>
    /\ UNCHANGED <<md, data, clock, scans, writes, replaced, stale, thrown>>

UpdateMdWithTransition(t) ==
    /\ t.kind = "update" /\ t.pc = "put"
    /\ IF md = NoObject
       THEN Done(t, {}) /\ UNCHANGED <<md, replaced, stale>>
       ELSE /\ PutMetadata(t.seen, [t.seen EXCEPT !.loc = t.msg.loc, !.store = "warm",
                                                  !.tip = FALSE])
            /\ replaced' = replaced \union {t.gc}
            /\ tasks' = (tasks \ {t}) \union {[t EXCEPT !.pc = "gc", !.seen = NoObject]}
            /\ UNCHANGED <<msgs, faults>>
    /\ UNCHANGED <<data, clock, scans, writes, thrown>>

(* Faulty variant: the outcome is committed and the task goes on. *)
GarbageCollectLocationGoesOn(t) ==
    /\ t.kind = "update" /\ t.pc = "gc"
    /\ msgs' = (msgs \ {t.msg}) \union
          {[type |-> "deleteData", n |-> t.msg.n, cond |-> t.msg.cond, loc |-> t.gc]}
    /\ UNCHANGED <<tasks, faults, md, data, clock, scans, writes, replaced, stale, thrown>>

(* The entry for the garbage collector is sent and not waited for: it may be
   lost, and the outcome is committed all the same.                            *)
GarbageCollectLocation(t) ==
    /\ t.kind = "update" /\ t.pc = "gc"
    /\ \/ Done(t, {[type |-> "deleteData", n |-> t.msg.n, cond |-> t.msg.cond, loc |-> t.gc]})
       \/ Fault /\ tasks' = tasks \ {t} /\ msgs' = msgs \ {t.msg}
    /\ UNCHANGED <<md, data, clock, scans, writes, replaced, stale, thrown>>

-----------------------------------------------------------------------------
(* Garbage collector: GarbageCollectorTask._executeDeleteData. *)

(* IfUnmodifiedSince, evaluated on the object as the source location has it. *)
SourceUnmodified(m) ==
    \/ m.cond = NoCond
    \/ ~ \E d \in data : d.loc.store = "hot" /\ d.at > m.cond

ExecuteDeleteData(m) ==
    /\ m.type = "deleteData"
    /\ data' = IF SourceUnmodified(m) THEN Without(m.loc) ELSE data
    /\ Done([msg |-> m], {})
    /\ UNCHANGED <<md, clock, scans, writes, replaced, stale, thrown>>

-----------------------------------------------------------------------------
(* Expiration: the bucket processor queues the deletion of the object as listed,
   LifecycleDeleteObjectTask checks that it is still that object, then deletes it. *)

ListForExpiration ==
    /\ Bounded /\ scans < MaxScans /\ md # NoObject
    /\ scans' = scans + 1
    /\ msgs' = msgs \union {[type |-> "deleteObject", n |-> scans + 1, at |-> md.at]}
    /\ UNCHANGED <<md, data, clock, tasks, writes, faults, replaced, stale, thrown>>

(* Faulty variant: the condition on the date is not sent. *)
UnmodifiedSinceAlways(m) == TRUE

UnmodifiedSince(m) == md.at <= m.at

CheckDate(m) ==
    /\ m.type = "deleteObject" /\ Idle(m)
    /\ IF md # NoObject /\ UnmodifiedSince(m)
       THEN /\ tasks' = tasks \union {[kind |-> "delete", pc |-> "status", msg |-> m, seen |-> md]}
            /\ UNCHANGED <<msgs, faults>>
       ELSE Done([msg |-> m], {})
    /\ UNCHANGED <<md, data, clock, scans, writes, replaced, stale, thrown>>

CheckReplicationStatus(t) ==
    /\ t.kind = "delete" /\ t.pc = "status"
    /\ IF md # NoObject /\ md.repl = "COMPLETED"
       THEN /\ tasks' = (tasks \ {t}) \union {[t EXCEPT !.pc = "delete"]}
            /\ UNCHANGED <<msgs, faults>>
       ELSE Done(t, {})
    /\ UNCHANGED <<md, data, clock, scans, writes, replaced, stale, thrown>>

(* The request has no condition, and deletes the object as it is now. *)
ExecuteDelete(t) ==
    /\ t.kind = "delete" /\ t.pc = "delete"
    /\ IF md = NoObject THEN UNCHANGED <<md, data, stale>>
       ELSE RemoveObject /\ stale' = (stale \/ md.at # t.seen.at)
    /\ Done(t, {})
    /\ UNCHANGED <<clock, scans, writes, replaced, thrown>>

-----------------------------------------------------------------------------
Step ==
    \/ \E c \in Contents : UserPut(c)
    \/ UserDelete
    \/ ReplicationCompleted
    \/ ListForTransition
    \/ ListForExpiration
    \/ \E t \in tasks :
         \/ CheckObjectMD(t) \/ SendDataMoverAction(t) \/ RefreshObjectMD(t)
         \/ SetTransitionInProgress(t)
         \/ GetAndPutObject(t) \/ CompleteMPU(t) \/ PublishCopyLocationStatus(t)
         \/ \E i \in 1 .. HardPartLimit : PutMPUPart(t, i)
         \/ UpdateMdWithTransition(t) \/ GarbageCollectLocation(t)
         \/ CheckReplicationStatus(t) \/ ExecuteDelete(t)
         \/ TaskFails(t)
    \/ \E m \in msgs :
         \/ MoverReadsSource(m) \/ UpdateReads(m) \/ ExecuteDeleteData(m) \/ CheckDate(m)

Next == Step /\ UNCHANGED unversioned

Spec == Init /\ [][Next]_vars

-----------------------------------------------------------------------------
(* The data of the object.  As long as no task wrote back metadata that had
   changed since it read it, the object's metadata points at stored data, and
   that data is what its ETag says: no crash, repeated or reordered entry,
   overwrite or late collection takes the data of a live object
   (LifecycleUpdateTransitionTask.processActionEntry,
   GarbageCollectorTask._executeDeleteData, CopyLocationTask).                 *)
DataAvailable ==
    md # NoObject /\ ~stale =>
        \E d \in data : d.loc = md.loc /\ d.etag = md.etag

(* At rest nothing is left behind: without failures and without stale writes,
   and while the object lives, its data is the only data stored
   (LifecycleUpdateTransitionTask._garbageCollectLocation).  A conditional
   collection that was refused keeps the copy it was for; the exception on an
   empty object is a failure like another, it ends the movers of other copies. *)
NoOrphanCopies ==
    md # NoObject /\ ~stale /\ faults = 0 /\ ~thrown /\ tasks = {} /\ msgs = {}
    /\ unversioned = {} =>
        \A d \in data : d.loc = md.loc

(* Expiration deletes the object that was listed, and only once replicated: any
   other deletion is that of an object written between the checks and the
   request (LifecycleDeleteObjectTask.processActionEntry).                     *)
ExpiresListedObject ==
    [][\A t \in tasks :
         t.kind = "delete" /\ t.pc = "delete" /\ t \notin tasks' /\ md # NoObject
         /\ md' = NoObject /\ ~stale' /\ writes' = writes =>
            md.at = t.msg.at /\ md.repl = "COMPLETED"]_vars
=============================================================================
