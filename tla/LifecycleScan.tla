---------------------------- MODULE LifecycleScan ----------------------------
(* The periodic scan of the buckets: the conductor lists the buckets and queues a
   task for each, bucket processors list the versions of a bucket page by page,
   each page queueing the next one, and ask for the actions the rules call for.

   A partition of the bucket tasks topic belongs to one bucket processor, and a
   continuation may go to any of them.  Bucket 1 has the versions, the others
   are empty.                                                                  *)
EXTENDS LifecycleRules

CONSTANTS
    Scenarios,      \* the set-ups checked: [rules, versioned, versions, uploads,
                    \*   abort, source, indexed, backlog, procs, buckets,
                    \*   faults, taskFaults, writes, deletes]; backlog bounds the entries that
                    \*   wait when the cron job fires, faults and writes what
                    \*   goes wrong (taskFaults: in bucket tasks too) and what
                    \*   users do (deletes: whether versions are deleted)
    PageSize,       \* MAX_KEYS
    Concurrency,    \* entries a bucket processor has in progress (bound)
    CheckpointEvery,    \* buckets between two checkpoints
    MaxInFlight,    \* buckets waiting to be sent before the listing waits
    IndexLimit      \* conductor.concurrentIndexesBuildLimit

ASSUME ScanAssumption ==
    /\ PageSize \in Nat \ {0} /\ Concurrency \in Nat \ {0}
    /\ CheckpointEvery \in Nat \ {0} /\ MaxInFlight \in Nat
    /\ IndexLimit \in Nat

VARIABLES
    setup,      \* the scenario, fixed
    versions,   \* the versions in bucket 1
    con,        \* the conductor
    checkpoint, \* the last bucket queued, in zookeeper
    index,      \* the state of the lifecycle indexes of each bucket
    queue,      \* entries of each partition that are not consumed
    flight,     \* entries in progress at each processor
    heap,       \* each processor's latest noncurrent versions, by key
    published,  \* whether each partition lags, as last published in zookeeper
    acts,       \* the actions asked for
    scanned,    \* history: a batch has ended
    noncurrent, \* history: versions that have been noncurrent
    disturbed,  \* history: a listing that counts versions in a heap did not go page by
                \* page through one processor up to a last page that clears it
    faults, writes

vars == <<setup, versions, con, checkpoint, index, queue, flight, heap, published,
          acts, scanned, noncurrent, disturbed, faults, writes>>
history == <<noncurrent, disturbed>>
conductorVars == <<con, checkpoint, index>>
processorVars == <<flight, heap, acts>>

Procs == 1 .. setup.procs
Buckets == 1 .. setup.buckets
Keys == {v.key : v \in setup.versions}
NoNode == -1
Outdated == -2
Newer == Greatest({r.newer : r \in setup.rules} \union {0})   \* NewerNoncurrentVersions
NoList == [type |-> "none"]

Entry(b, tv, mpu, list, at, prev) ==
    [b |-> b, tv |-> tv, mpu |-> mpu, list |-> list, at |-> at, prev |-> prev]
StartEntry(b, tv) == Entry(b, tv, None, NoList, None, None)
Started(e) == e.mpu = None /\ e.list = NoList /\ e.at = None

Idle == [pc |-> "idle", marker |-> 0, n |-> 0, cargo |-> <<>>, sending |-> <<>>,
         jobs |-> None]
Noncurrent(V) == {v.id : v \in {w \in V : ~Current(V, w)}}

TypeOK ==
    /\ con.pc \in {"idle", "starting", "listing", "waiting", "stuck"}
    /\ con.marker \in Buckets \union {0} /\ con.n \in Nat
    /\ con.cargo \in Seq(Buckets) /\ (con.jobs = None \/ con.jobs \subseteq Buckets)
    /\ checkpoint \in Buckets \union {0}
    /\ index \in [Buckets -> {"none", "building", "built"}]
    /\ published \in [Procs -> {NoNode, Outdated, 0, 1}]
    /\ \A p \in Procs :
         /\ \A t \in flight[p] : t.pc \in {"mpu", "list", "compare"} /\ t.nb \in Nat
         /\ \A k \in Keys : IsABag(heap[p][k]) /\ BagCardinality(heap[p][k]) <= Newer
    /\ disturbed \in BOOLEAN /\ faults \in 0 .. setup.faults /\ writes \in 0 .. setup.writes

EmptyHeap == [k \in Keys |-> EmptyBag]
Fault == faults < setup.faults /\ faults' = faults + 1
ProcessorFault == setup.taskFaults /\ Fault

Init ==
    /\ setup \in Scenarios
    /\ versions = setup.versions
    /\ con = Idle /\ checkpoint = 0
    /\ index = [b \in Buckets |-> IF b \in setup.indexed THEN "built" ELSE "none"]
    /\ queue = [p \in Procs |-> <<>>] /\ flight = [p \in Procs |-> {}]
    /\ heap = [p \in Procs |-> EmptyHeap]
    /\ published = [p \in Procs |-> NoNode]
    /\ acts = {} /\ scanned = FALSE
    /\ noncurrent = Noncurrent(setup.versions) /\ disturbed = FALSE
    /\ faults = 0 /\ writes = 0

-----------------------------------------------------------------------------
(* Backlog metrics.  A processor publishes how far it has read its partition,
   which is further than what it has processed, with the end of the partition. *)

PublishConsumerBacklog(p) ==
    /\ published' = [published EXCEPT ![p] = IF queue[p] = <<>> THEN 0 ELSE 1]
    /\ UNCHANGED <<setup, versions, conductorVars, queue, processorVars, scanned, history,
                   faults, writes>>

(* The node was not written for two intervals. *)
OffsetOutdated(p) ==
    /\ published[p] \in Nat /\ Fault
    /\ published' = [published EXCEPT ![p] = Outdated]
    /\ UNCHANGED <<setup, versions, conductorVars, queue, processorVars, scanned, history, writes>>

(* _checkConsumerOffsetsGeneric: the partitions are read one after the other.  The
   first that lags ends the check, and so does the first that was never
   published, which satisfies it.  Outdated nodes are skipped and removed.     *)
Stops == {p \in Procs : published[p] = NoNode \/ (published[p] \in Nat /\ published[p] > 0)}
CheckConsumerLag == Stops = {} \/ published[Least(Stops)] = NoNode
VisitedPartitions == IF Stops = {} THEN Procs ELSE 1 .. Least(Stops)
RemoveOutdated ==
    [p \in Procs |-> IF p \in VisitedPartitions /\ published[p] = Outdated THEN NoNode
                     ELSE published[p]]

-----------------------------------------------------------------------------
(* Conductor. *)

Backlog ==
    Len(con.sending) + Len(con.cargo)
    + MapThenSumSet(LAMBDA p : Len(queue[p]) + Cardinality(flight[p]), Procs)
Quiet == Backlog = 0

(* The cron job fires; _controlBacklog.  A batch in progress or a lag leaves the
   round out.  The checks on the other topics only leave out more rounds.      *)
ControlBacklog ==
    /\ con.pc = "idle" /\ Backlog <= setup.backlog
    /\ published' = RemoveOutdated
    /\ con' = IF CheckConsumerLag THEN [con EXCEPT !.pc = "starting"] ELSE con
    /\ UNCHANGED <<setup, versions, checkpoint, index, queue, processorVars, scanned,
                   history, faults, writes>>

Building == {b \in Buckets : index[b] = "building"}

(* The marker the listing of the buckets starts after. *)
RestoreBucketCheckpoint == IF setup.source = "zookeeper" THEN 0 ELSE checkpoint

EndBatch(ok) ==
    /\ con' = [con EXCEPT !.pc = "idle", !.marker = 0, !.n = 0, !.jobs = None]
    /\ scanned' = (scanned \/ ok)

(* The indexing jobs in progress are read, or not, and the batch starts; it fails
   at once when zookeeper does.                                                *)
StartBatch ==
    /\ con.pc = "starting"
    /\ \/ \E j \in {Building, None} :
            /\ IF j = None THEN Fault ELSE UNCHANGED faults
            /\ con' = [con EXCEPT !.pc = "listing", !.n = 0, !.jobs = j,
                                  !.marker = RestoreBucketCheckpoint]
            /\ UNCHANGED scanned
       \/ Fault /\ EndBatch(FALSE)
    /\ UNCHANGED <<setup, versions, checkpoint, index, queue, processorVars, published,
                   history, writes>>

(* listZookeeperBuckets: all of them at once. *)
ListZookeeperBuckets ==
    /\ con.pc = "listing" /\ setup.source = "zookeeper"
    /\ con' = [con EXCEPT !.pc = "waiting", !.marker = setup.buckets, !.n = setup.buckets,
                          !.cargo = @ \o [b \in Buckets |-> b]]
    /\ UNCHANGED <<setup, versions, checkpoint, index, queue, processorVars, published, scanned,
                   history, faults, writes>>

(* Faulty variant: the progress is kept when the listing is complete. *)
ListingCompleteKeepsProgress ==
    /\ con.pc = "listing" /\ setup.source # "zookeeper" /\ con.marker = setup.buckets
    /\ con' = [con EXCEPT !.pc = "waiting"]
    /\ UNCHANGED <<setup, versions, checkpoint, index, queue, processorVars, published, scanned,
                   history, faults, writes>>

(* All the buckets were listed: the progress is cleared.  When zookeeper refuses,
   the batch has failed.                                                       *)
ListingComplete ==
    /\ con.pc = "listing" /\ setup.source # "zookeeper" /\ con.marker = setup.buckets
    /\ \/ /\ con' = [con EXCEPT !.pc = "waiting"]
          /\ checkpoint' = 0 /\ UNCHANGED <<scanned, faults>>
       \/ Fault /\ EndBatch(FALSE) /\ UNCHANGED checkpoint
    /\ UNCHANGED <<setup, versions, index, queue, processorVars, published, history, writes>>

(* The next bucket is queued, and the progress saved every so often. *)
CanListNext == con.pc = "listing" /\ con.marker < setup.buckets /\ Len(con.cargo) <= MaxInFlight
Pushed == [con EXCEPT !.marker = @ + 1, !.n = @ + 1, !.cargo = Append(@, con.marker + 1)]
Saves == (con.n + 1) % CheckpointEvery = 0
CheckpointBucket == checkpoint' = IF Saves THEN con.marker + 1 ELSE checkpoint

(* listBucketdBuckets, with pages of one bucket: an error is retried, and fails
   the batch in the end.                                                       *)
ListBucketdBuckets ==
    /\ CanListNext /\ setup.source = "bucketd"
    /\ \/ con' = Pushed /\ CheckpointBucket /\ UNCHANGED <<scanned, faults>>
       \/ Fault /\ EndBatch(FALSE) /\ UNCHANGED checkpoint
    /\ UNCHANGED <<setup, versions, index, queue, processorVars, published, history, writes>>

(* listMongodbBuckets: an error of the cursor's hasNext, or of the checkpoint,
   ends the loop without calling back: the batch stays in progress.            *)
ListMongodbBuckets ==
    /\ CanListNext /\ setup.source = "mongodb"
    /\ \/ con' = Pushed /\ CheckpointBucket /\ UNCHANGED faults
       \/ Fault /\ con' = [con EXCEPT !.pc = "stuck"] /\ UNCHANGED checkpoint
       \/ Saves /\ Fault /\ con' = [Pushed EXCEPT !.pc = "stuck"] /\ UNCHANGED checkpoint
    /\ UNCHANGED <<setup, versions, index, queue, processorVars, published, scanned, history,
                   writes>>

(* Too many buckets wait to be sent, or the circuit breaker has tripped: the
   progress is saved meanwhile.                                                *)
DelayBucketPull ==
    /\ con.pc = "listing" /\ setup.source # "zookeeper" /\ con.marker # 0
    /\ checkpoint' = con.marker
    /\ UNCHANGED <<setup, versions, con, index, queue, processorVars, published, scanned,
                   history, faults, writes>>

(* Every bucket listed has been taken from the cargo. *)
BatchDone ==
    /\ con.pc = "waiting" /\ con.cargo = <<>>
    /\ EndBatch(TRUE)
    /\ UNCHANGED <<setup, versions, checkpoint, index, queue, processorVars, published,
                   history, faults, writes>>

(* _indexesGetOrCreate: which task version a bucket is ready for, and whether to
   ask for its indexes.  s is [jobs, index, messages].                         *)
MayCreateIndexes(s, b) ==
    /\ s.index[b] # "built"
    /\ s.jobs # None /\ b \notin s.jobs /\ Cardinality(s.jobs) < IndexLimit

(* Faulty variant: the job started is not counted. *)
IndexesGetOrCreateUncounted(s, b) ==
    [s EXCEPT
       !.messages = Append(@, StartEntry(b, IF s.index[b] = "built" THEN 2 ELSE 1)),
       !.index[b] = IF MayCreateIndexes(s, b) THEN "building" ELSE @]

IndexesGetOrCreate(s, b) ==
    [s EXCEPT
       !.messages = Append(@, StartEntry(b, IF s.index[b] = "built" THEN 2 ELSE 1)),
       !.jobs = IF MayCreateIndexes(s, b) THEN @ \union {b} ELSE @,
       !.index[b] = IF MayCreateIndexes(s, b) THEN "building" ELSE @]

(* The buckets whose owner's account is found, in the cache or at vault. *)
GetAccountIds(buckets, unknown) == SelectSeq(buckets, LAMBDA b : b \notin unknown)

(* The worker of the cargo: the buckets whose owner's account is known get a
   message.                                                                    *)
CreateBucketTaskMessages ==
    /\ con.cargo # <<>> /\ con.sending = <<>>
    /\ \E unknown \in SUBSET {con.cargo[i] : i \in 1 .. Len(con.cargo)} :
         /\ IF unknown = {} THEN UNCHANGED faults ELSE Fault
         /\ LET known == GetAccountIds(con.cargo, unknown)
                none == [jobs |-> con.jobs, index |-> index, messages |-> <<>>]
                s == IF setup.source = "mongodb"
                     THEN FoldLeft(IndexesGetOrCreate, none, known)
                     ELSE [none EXCEPT !.messages =
                             [i \in 1 .. Len(known) |-> StartEntry(known[i], 1)]] IN
            /\ con' = [con EXCEPT !.cargo = <<>>, !.jobs = s.jobs, !.sending = s.messages]
            /\ index' = s.index
    /\ UNCHANGED <<setup, versions, checkpoint, queue, processorVars, published, scanned,
                   history, writes>>

(* Entries are appended to partitions the producer chooses. *)
Deliver(q, entries, to) ==
    [p \in Procs |-> q[p] \o SelectSeq(entries, LAMBDA e : to[e] = p)]
Entries(s) == {s[i] : i \in 1 .. Len(s)}

(* producer.send; an error is reported and the buckets are left to the next batch. *)
SendBucketTasks ==
    /\ con.sending # <<>>
    /\ con' = [con EXCEPT !.sending = <<>>]
    /\ \/ /\ \E to \in [Entries(con.sending) -> Procs] : queue' = Deliver(queue, con.sending, to)
          /\ UNCHANGED faults
       \/ Fault /\ UNCHANGED queue
    /\ UNCHANGED <<setup, versions, checkpoint, index, processorVars, published, scanned,
                   history, writes>>

ConductorCrash ==
    /\ con # Idle /\ Fault
    /\ con' = Idle
    /\ UNCHANGED <<setup, versions, checkpoint, index, queue, processorVars, published, scanned,
                   history, writes>>

IndexBuilt(b) ==
    /\ index[b] = "building"
    /\ index' = [index EXCEPT ![b] = "built"]
    /\ UNCHANGED <<setup, versions, con, checkpoint, queue, processorVars, published, scanned,
                   history, faults, writes>>

-----------------------------------------------------------------------------
(* Bucket processors. *)

Task(e) == [e |-> e, pc |-> "mpu", nb |-> 0, page |-> <<>>, cut |-> FALSE]

(* _processBucketEntry, up to the start of the task. *)
Consume(p) ==
    /\ queue[p] # <<>> /\ Cardinality(flight[p]) < Concurrency
    /\ Task(Head(queue[p])) \notin flight[p]
    /\ queue' = [queue EXCEPT ![p] = Tail(@)]
    /\ flight' = [flight EXCEPT ![p] = @ \union {Task(Head(queue[p]))}]
    /\ UNCHANGED <<setup, versions, conductorVars, heap, published, acts, scanned, history,
                   faults, writes>>

Ask(op, id, store) == [op |-> op, id |-> id, store |-> store]
Step(p, t, new) == flight' = [flight EXCEPT ![p] = (@ \ {t}) \union new]

Disturbs(condition) == disturbed' = (disturbed \/ (Newer > 0 /\ condition))

(* What a task of processor p publishes to the bucket tasks topic is not waited
   for: it may be lost and the task goes on.                                   *)
SendEntries(p, entries) ==
    \/ /\ \E to \in [Entries(entries) -> Procs] :
            /\ queue' = Deliver(queue, entries, to)
            /\ Disturbs(\E e \in Entries(entries) : e.at # None /\ to[e] # p)
       /\ UNCHANGED faults
    \/ /\ entries # <<>> /\ ProcessorFault
       /\ Disturbs(\E e \in Entries(entries) : e.at # None)
       /\ UNCHANGED queue

FirstPage(s) == SubSeq(s, 1, IF Len(s) < PageSize THEN Len(s) ELSE PageSize)
IsTruncated(s) == Len(s) > PageSize

(* _getMPUs, unless the entry continues a listing of objects: a page of uploads
   in the order of their listing.  The first entry of every listing of version 2
   does it too.                                                                *)
UploadsAfter(e) ==
    IF e.b # 1 \/ e.at # None THEN <<>>
    ELSE SetToSortSeq({u \in setup.uploads : e.mpu = None \/ u > e.mpu}, LAMBDA a, b : a < b)

(* _compareMPUUploads. *)
UploadsDue(page) == {u \in Entries(page) : Reached(Age[u], setup.abort)}

GetMPUs(p, t) ==
    /\ t \in flight[p] /\ t.pc = "mpu"
    /\ LET all == UploadsAfter(t.e)
           page == FirstPage(all)
           next == IF IsTruncated(all) /\ t.nb = 0
                   THEN <<Entry(t.e.b, t.e.tv, Last(page), NoList, None, None)>> ELSE <<>> IN
       /\ acts' = acts \union {Ask("abort", u, None) : u \in UploadsDue(page)}
       /\ SendEntries(p, next)
    /\ Step(p, t, IF t.e.mpu # None THEN {} ELSE {[t EXCEPT !.pc = "list"]})
    /\ UNCHANGED <<setup, versions, conductorVars, heap, published, scanned, noncurrent, writes>>

VersionsIn(b) == IF b = 1 THEN versions ELSE {}

(* A version as the task sees it from now on. *)
Seen(e, list, i) ==
    [v |-> list[i], latest |-> Current(versions, list[i]),
     stale |-> IF e.tv = 1 THEN AddStaleDate(versions, list, i, e)
               ELSE StaleOf(versions, list[i])]

(* One page of the versions V.  The next page and the other listings are queued
   at once, but not when the task is a retry.                                  *)
ReadPage(p, t, list, V, others) ==
    LET all == InOrder({v \in V : t.e.at = None \/ ListedBefore(t.e.at, v)})
        page == FirstPage(all)
        next == IF IsTruncated(all)
                THEN <<Entry(t.e.b, t.e.tv, None, list, Last(page), Age[Last(page).id])>>
                ELSE <<>> IN
    /\ SendEntries(p, IF t.nb = 0 THEN others \o next ELSE <<>>)
    /\ Step(p, t, {[t EXCEPT !.pc = "compare", !.cut = IsTruncated(all),
                      !.page = [i \in 1 .. Len(page) |-> Seen(t.e, page, i)]]})

(* Version 1's _getObjectList and _getObjectVersions. *)
GetObjectList(p, t) ==
    /\ ~setup.versioned
    /\ LET V == VersionsIn(t.e.b) IN ReadPage(p, t, NoList, {v \in V : Current(V, v)}, <<>>)

GetObjectVersions(p, t) == setup.versioned /\ ReadPage(p, t, NoList, VersionsIn(t.e.b), <<>>)

(* rulesToParams: the listing an entry names, or all those of the rules.  The
   first is done now, the others are queued by _handleRemainingListings.       *)
RulesToParams(e) ==
    IF e.list # NoList THEN <<e.list>> ELSE ToListings(setup.rules, setup.versioned)
Remainings(e) ==
    LET listings == RulesToParams(e) IN
    [i \in 1 .. Len(listings) - 1 |-> Entry(e.b, e.tv, None, listings[i + 1], None, None)]

(* Version 2's _getObjectList and _getObjectVersions. *)
ListLifecycle(p, t) ==
    LET listings == RulesToParams(t.e) IN
    IF listings = <<>> THEN Step(p, t, {}) /\ UNCHANGED <<queue, disturbed, faults>>
    ELSE ReadPage(p, t, Head(listings), Listed(VersionsIn(t.e.b), Head(listings)), Remainings(t.e))

ListPage(p, t) ==
    /\ t \in flight[p] /\ t.pc = "list"
    /\ IF t.e.tv = 2 THEN ListLifecycle(p, t) ELSE GetObjectList(p, t) \/ GetObjectVersions(p, t)
    /\ UNCHANGED <<setup, versions, conductorVars, heap, published, acts, scanned, noncurrent,
                   writes>>

(* A listing fails, and the task is tried again, or given up.  Version 2 has queued
   its other listings before.                                                  *)
RetryTask(p, t) ==
    /\ t \in flight[p] /\ t.pc \in {"mpu", "list"}
    /\ ProcessorFault
    /\ LET sent == IF t.pc = "list" /\ t.e.tv = 2 /\ t.nb = 0 THEN Remainings(t.e) ELSE <<>> IN
       \E to \in [Entries(sent) -> Procs] : queue' = Deliver(queue, sent, to)
    /\ \/ Step(p, t, {[Task(t.e) EXCEPT !.nb = t.nb + 1]})
       \/ Step(p, t, {})
    /\ Disturbs(TRUE)
    /\ UNCHANGED <<setup, versions, conductorVars, heap, published, acts, scanned, noncurrent,
                   writes>>

-----------------------------------------------------------------------------
(* The rules compared with one version.  s is [heap, acts]. *)

CheckAndApplyExpirationRule(a, v) ==
    IF Reached(Age[v.id], a.exp) THEN {Ask("delete", v.id, None)} ELSE {}

CompareObject(s, a, v) ==
    LET expired == CheckAndApplyExpirationRule(a, v) IN
    [s EXCEPT !.acts = @ \union
        (IF expired = {} /\ a.trans # None THEN {Ask("transition", v.id, a.trans)} ELSE expired)]

(* _checkAndApplyEODMRule.  Version 1 looks for other versions in the page, or
   lists them when the marker is the last of the page; version 2's listing only
   has markers that are alone.                                                 *)
MarkerDue(a, v) == Reached(Age[v.id], a.exp) \/ a.eodm
DeleteMarker(s, a, v) ==
    [s EXCEPT !.acts = @ \union
        (IF MarkerDue(a, v) THEN {Ask("deleteMarker", v.id, None)} ELSE {})]

CheckAndApplyEODMRule(s, a, t, x) ==
    LET V == IF x = Last(t.page) THEN versions ELSE {y.v : y \in Entries(t.page)} IN
    IF \E w \in V : w.key = x.v.key /\ w.id < x.v.id THEN s ELSE DeleteMarker(s, a, x.v)

CompareIsLatestVersion(s, a, t, x) ==
    IF x.v.dm THEN CheckAndApplyEODMRule(s, a, t, x) ELSE CompareObject(s, a, x.v)

(* The heap after the version, and the version to expire, if any. *)
CheckAndApplyNCVExpirationRule(s, a, x) ==
    LET due == Reached(x.stale, a.ncve) IN
    IF due /\ a.newer > 0 THEN NcvHeapAdd(s.heap[x.v.key], x.v.id, a.newer)
    ELSE [heap |-> s.heap[x.v.key], expire |-> IF due THEN x.v.id ELSE None]

CheckAndApplyNCVTransitionRule(a, x) ==
    IF a.ncvt # None THEN {Ask("transition", x.v.id, a.ncvt)} ELSE {}

CompareNonCurrent(s, a, x) ==
    LET h == CheckAndApplyNCVExpirationRule(s, a, x) IN
    IF x.stale = None THEN s
    ELSE [s EXCEPT !.heap[x.v.key] = h.heap,
                   !.acts = @ \union (IF h.expire # None THEN {Ask("expire", h.expire, None)}
                                      ELSE CheckAndApplyNCVTransitionRule(a, x))]

CompareVersion(s, a, t, x) ==
    IF x.latest THEN CompareIsLatestVersion(s, a, t, x) ELSE CompareNonCurrent(s, a, x)

(* Version 2's _compare: by the kind of the listing. *)
Compare(s, a, x) ==
    IF ~x.latest THEN CompareNonCurrent(s, a, x)
    ELSE IF x.v.dm THEN DeleteMarker(s, a, x.v) ELSE CompareObject(s, a, x.v)

CompareEntry(t, s, x) ==
    LET a == ApplicableRules(setup.rules, x.v, x.stale) IN
    IF t.e.tv = 2 THEN Compare(s, a, x)
    ELSE IF ~IsEntityEligible(setup.rules, x.v, x.latest, x.stale) THEN s
    ELSE IF setup.versioned THEN CompareVersion(s, a, t, x) ELSE CompareObject(s, a, x.v)

(* Faulty variant: the end of the listing does not clear the bucket's heaps. *)
NcvHeapClearKeysOnly(t, h) ==
    [k \in Keys |-> IF t.page # <<>> /\ k # Last(t.page).v.key
                       /\ \E x \in Entries(t.page) : x.v.key = k
                    THEN EmptyBag ELSE h[k]]

(* _ncvHeapBucketClear at the end of the listing, _ncvHeapObjectsClear after the
   other pages: the key the next page starts with is kept.  Version 1 leaves an
   empty page at once.                                                         *)
NcvHeapClear(t, h) ==
    IF t.page = <<>> THEN IF t.e.tv = 1 THEN h ELSE EmptyHeap
    ELSE IF ~t.cut THEN EmptyHeap
    ELSE [k \in Keys |-> IF k # Last(t.page).v.key /\ \E x \in Entries(t.page) : x.v.key = k
                         THEN EmptyBag ELSE h[k]]

(* _compareRulesToList over the page; the comparison of a version may fail, and
   is then left to the next batch.  The task has ended and its offset is
   committed.                                                                  *)
CompareRulesToList(p, t) ==
    /\ t \in flight[p] /\ t.pc = "compare"
    /\ \E failed \in SUBSET Entries(t.page) :
         /\ IF failed = {} THEN UNCHANGED faults ELSE Cardinality(failed) = 1 /\ ProcessorFault
         /\ LET s == FoldLeft(LAMBDA acc, x : CompareEntry(t, acc, x),
                              [heap |-> heap[p], acts |-> acts],
                              SelectSeq(t.page, LAMBDA x : x \notin failed)) IN
            /\ acts' = s.acts
            /\ heap' = [heap EXCEPT ![p] = NcvHeapClear(t, s.heap)]
    /\ Step(p, t, {})
    /\ Disturbs(t.page = <<>> /\ t.e.at # None /\ t.e.tv = 1)
    /\ UNCHANGED <<setup, versions, conductorVars, queue, published, scanned, noncurrent, writes>>

(* A bucket processor stops: its heaps are gone, and the entries it had in progress
   are delivered again.                                                        *)
ProcessorCrash(p) ==
    /\ flight[p] # {} /\ ProcessorFault
    /\ heap' = [heap EXCEPT ![p] = EmptyHeap]
    /\ \E s \in SetToSeqs({t.e : t \in flight[p]}) : queue' = [queue EXCEPT ![p] = s \o @]
    /\ flight' = [flight EXCEPT ![p] = {}]
    /\ Disturbs(\E t \in flight[p] : t.pc = "compare")
    /\ UNCHANGED <<setup, versions, conductorVars, published, acts, scanned, noncurrent, writes>>

-----------------------------------------------------------------------------
(* Users and the object processors: a version is put, or deleted by its id. *)

ChangeVersions(V) ==
    /\ versions' = V
    /\ noncurrent' = noncurrent \union Noncurrent(V)
    /\ UNCHANGED <<setup, conductorVars, queue, processorVars, published, scanned, disturbed,
                   faults>>

UserPut(k) ==
    /\ ~setup.deletes /\ writes < setup.writes /\ writes' = writes + 1
    /\ ChangeVersions(versions \union
         {[key |-> k, id |-> Greatest({v.id : v \in versions} \union {0}) + 1, dm |-> FALSE,
           store |-> "hot"]})

UserDelete(v) ==
    /\ setup.deletes /\ writes < setup.writes /\ writes' = writes + 1
    /\ ChangeVersions(versions \ {v})

ObjectTaskDone(a) ==
    /\ a.op \in {"expire", "deleteMarker"} /\ setup.deletes
    /\ \E v \in versions : v.id = a.id /\ ChangeVersions(versions \ {v})
    /\ UNCHANGED writes

-----------------------------------------------------------------------------
Conductor ==
    \/ ControlBacklog \/ StartBatch
    \/ ListZookeeperBuckets \/ ListBucketdBuckets \/ ListMongodbBuckets \/ ListingComplete
    \/ CreateBucketTaskMessages \/ SendBucketTasks \/ BatchDone

Processor(p) ==
    \/ Consume(p)
    \/ \E t \in flight[p] :
         GetMPUs(p, t) \/ ListPage(p, t) \/ CompareRulesToList(p, t)

Next ==
    \/ Conductor \/ DelayBucketPull \/ ConductorCrash
    \/ \E b \in Buckets : IndexBuilt(b)
    \/ \E p \in Procs :
         \/ Processor(p) \/ PublishConsumerBacklog(p) \/ OffsetOutdated(p) \/ ProcessorCrash(p)
         \/ \E t \in flight[p] : RetryTask(p, t)
    \/ \E k \in Keys : UserPut(k)
    \/ \E v \in versions : UserDelete(v)
    \/ \E a \in acts : ObjectTaskDone(a)

(* The cron job fires again and again, the conductor's steps and the processors'
   do not wait for ever, and the backlog is published every minute.            *)
Fairness ==
    /\ WF_vars(Conductor)
    /\ \A p \in 1 .. 2 :
         WF_vars(p \in Procs /\ Processor(p)) /\ WF_vars(p \in Procs /\ PublishConsumerBacklog(p))

Spec == Init /\ [][Next]_vars /\ Fairness

-----------------------------------------------------------------------------
(* What the rules ask for, said without listings, pages, days before which to
   list or stores to leave out.                                                *)
DueActions ==
    LET V == setup.versions
        Match(v) == {r \in setup.rules : r.enabled /\ IsPrefix(r.prefix, v.key)}
        Expires(v) == \E r \in Match(v) : Reached(Age[v.id], r.exp)
        Trans(v) == DueTransition(UNION {r.trans : r \in Match(v)}, Age[v.id], v.store)
        NcvExpires(v) == \E r \in Match(v) : Reached(StaleOf(V, v), r.ncve)
        NcvTrans(v) == DueTransition(UNION {r.ncvt : r \in Match(v)}, StaleOf(V, v), v.store)
        cur == {v \in V : Current(V, v) /\ ~v.dm}
        alone == {v \in V : v.dm /\ {w \in V : w.key = v.key} = {v}}
        non == IF setup.versioned THEN {v \in V : ~Current(V, v)} ELSE {} IN
    {Ask("abort", u, None) : u \in {w \in setup.uploads : Reached(Age[w], setup.abort)}}
    \union {Ask("delete", v.id, None) : v \in {w \in cur : Expires(w)}}
    \union {Ask("transition", v.id, Trans(v)) : v \in {w \in cur : ~Expires(w) /\ Trans(w) # None}}
    \union {Ask("deleteMarker", v.id, None) :
              v \in {w \in alone : Expires(w) \/ \E r \in Match(w) : r.eodm}}
    \union {Ask("expire", v.id, None) : v \in {w \in non : NcvExpires(w)}}
    \union {Ask("transition", v.id, NcvTrans(v)) :
              v \in {w \in non : ~NcvExpires(w) /\ NcvTrans(w) # None}}


(* Version 2 lists the noncurrent versions of a rule with a single transition
   without those that are in its store, although the rule expires them as well
   (RulesReducer.js:222-224): these are never expired.                         *)
NeverListed ==
    {v \in setup.versions :
       /\ ~Current(setup.versions, v) /\ index[1] = "built"
       /\ \E r \in FilterRules(setup.rules, v) : r.ncve # None /\ OnlyStore(r.ncvt) = v.store}

(* Every version and upload gets the action its bucket's rules call for, and no
   other, whichever task version scans it and however its listing is cut into
   pages and listings: nothing is asked for that is not due, and after a batch
   without faults everything due has been asked for, but for the expiration of
   versions that version 2 never lists (NeverListed)
   (LifecycleTask._compareVersion, RulesReducer.toListings, rulesToParams).    *)
RulesApplied ==
    writes = 0 /\ Newer = 0 =>
        /\ acts \subseteq DueActions
        /\ scanned /\ faults = 0 /\ Quiet =>
             DueActions \ {Ask("expire", v.id, None) : v \in NeverListed} \subseteq acts

(* The conductor never has more index builds in progress than allowed
   (LifecycleConductor._indexesGetOrCreate).                                   *)
IndexBuildsBounded == Cardinality(Building) <= IndexLimit

(* The scan keeps as many noncurrent versions as the rule says, over pages,
   batches on either processor, versions that fail to be compared, crashes before a
   page is listed and changes by users (LifecycleTask._ncvHeapAdd), until the heaps
   are wrong for good (disturbed): a page went to another processor, was lost, tried
   again or given up, was delivered again after it had sent the next one, or was an
   empty last one for version 1.                                               *)
Expired == IF Newer > 0 THEN {a.id : a \in {b \in acts : b.op = "expire"}} ELSE {}
Retention == INSTANCE NoncurrentRetention WITH newer <- Newer, expired <- Expired
ImplementsRetention ==
    Retention!Init /\ [][Retention!Next \/ disturbed']_<<Newer, noncurrent, Expired>>

(* The heaps track "the latest x noncurrent versions of an object"
   (LifecycleBucketProcessor.js:111-113), so these are kept.  It does not hold when
   a listing ends without a last page that has versions.                       *)
KeepsLatestNoncurrent ==
    \A v \in Expired : Cardinality({w \in noncurrent : w > v}) >= Newer

(* Every bucket is scanned again and again, whatever was lost, unless the listing
   of mongo's buckets is stuck on an error (LifecycleConductor.processBuckets,
   checkpointBucket).                                                          *)
ScannedForEver ==
    \A b \in 1 .. 2 :
      []<>(b \in Buckets => \E p \in Procs : \E t \in flight[p] : t.e.b = b /\ Started(t.e))
      \/ <>[](con.pc = "stuck")
=============================================================================
