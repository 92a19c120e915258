--------------------------- MODULE BackbeatConsumer ---------------------------
(***************************************************************************)
(* lib/BackbeatConsumer.js: the consumers of one consumer group, over one  *)
(* partition of one topic.                                                 *)
(*                                                                         *)
(* A consumer asks librdkafka for messages when its pipeline has free      *)
(* slots, records each of them in its offset ledger, processes them        *)
(* concurrently in an async.queue, and stores the ledger's committable     *)
(* offset, which librdkafka commits in the background.  On a rebalance it  *)
(* drains the queue, commits and gives the partition up.  It may be        *)
(* paused, resumed, closed, and its process may crash.                     *)
(*                                                                         *)
(* Kafka and librdkafka (assignment, fetching, background commits) are     *)
(* external and modelled from how the code uses them.  The circuit breaker *)
(* only delays TryConsume: a tripped breaker re-arms the timer, which is a *)
(* stuttering step here.                                                   *)
(***************************************************************************)
EXTENDS OffsetLedger, Sequences, FiniteSetsExt

CONSTANTS
    Consumers,          \* members of the consumer group
    None,               \* "no consumer"
    MaxOffset,          \* the partition holds the messages 0 .. MaxOffset-1
    Concurrency,        \* size of the processing pipeline
    MaxAssigns,         \* bound: number of times the partition is assigned
    MaxRestarts,        \* bound: number of process restarts
    BacklogMetrics      \* TRUE when the offsets are published before unassign

ASSUME ConsumerAssumption ==
    /\ None \notin Consumers
    /\ MaxOffset \in Nat /\ Concurrency \in Nat \ {0}
    /\ MaxAssigns \in Nat /\ MaxRestarts \in Nat
    /\ BacklogMetrics \in BOOLEAN

VARIABLES
    \* Kafka: the group coordinator and the committed offset
    committed, owner, assigns,
    \* librdkafka, per consumer
    status,             \* "connected", "disconnected" or "down"
    subscribed,         \* the subscription is not empty
    position,           \* next offset to fetch
    fetched,            \* messages popped by the outstanding consume() calls
    stored,             \* offset stored for the next commit, or NoOffset
    \* the JavaScript object, per consumer
    sizes,              \* size of each outstanding consume() call, oldest first
    npending,           \* _nConsumePendingRequests
    iter,               \* messages of the running consume() callback: the
                        \* first "iter" ones of fetched are still to be visited
    kick,               \* a call of _tryConsume is scheduled (nextTick or timer)
    tasks,              \* _processingQueue: how many tasks it holds per offset
    deferred,           \* completed with {committable: false}, per offset
    ledger,             \* _offsetLedger
    rebalance,          \* "none", "revoking" (event on its way), "draining"
                        \* or "publishing"
    closing,            \* close() waits for the 'unassign' event
    \* history
    done,               \* offsets some consumer has declared committable
    restarts,
    reordered           \* parallel consume() calls have handed a message over
                        \* before an earlier one

kafka == <<committed, owner, assigns>>
client == <<status, subscribed, position, fetched, stored>>
pipeline == <<sizes, npending, iter, kick, tasks, deferred, ledger>>
control == <<rebalance, closing>>
vars == <<kafka, client, pipeline, control, done, restarts, reordered>>

Offsets == 0 .. MaxOffset - 1

NoTasks == [o \in Offsets |-> 0]

(* Every message below offset k has been processed *)
DoneBelow(k) == \A o \in Offsets : o < k => o \in done

TypeOK ==
    /\ committed \in 0 .. MaxOffset
    /\ owner \in Consumers \cup {None}
    /\ assigns \in 0 .. MaxAssigns
    /\ status \in [Consumers -> {"connected", "disconnected", "down"}]
    /\ subscribed \in [Consumers -> BOOLEAN]
    /\ position \in [Consumers -> 0 .. MaxOffset]
    /\ fetched \in [Consumers -> Seq(Offsets)]
    /\ stored \in [Consumers -> (0 .. MaxOffset) \cup {NoOffset}]
    /\ sizes \in [Consumers -> Seq(1 .. Concurrency)]
    /\ npending \in [Consumers -> Int]
    /\ iter \in [Consumers -> Nat]
    /\ kick \in [Consumers -> BOOLEAN]
    /\ tasks \in [Consumers -> [Offsets -> Nat]]
    /\ deferred \in [Consumers -> [Offsets -> Nat]]
    /\ ledger \in [Consumers -> [processing : SUBSET Offsets,
                                 latestConsumed : Offsets \cup {NoOffset}]]
    /\ rebalance \in [Consumers -> {"none", "revoking", "draining", "publishing"}]
    /\ closing \in [Consumers -> BOOLEAN]
    /\ done \in SUBSET Offsets
    /\ restarts \in 0 .. MaxRestarts
    /\ reordered \in BOOLEAN

Init ==
    /\ committed = 0 /\ owner = None /\ assigns = 0
    /\ status = [c \in Consumers |-> "connected"]
    /\ subscribed \in [Consumers -> BOOLEAN]
    /\ position = [c \in Consumers |-> 0]
    /\ fetched = [c \in Consumers |-> <<>>]
    /\ stored = [c \in Consumers |-> NoOffset]
    /\ sizes = [c \in Consumers |-> <<>>]
    /\ npending = [c \in Consumers |-> 0]
    /\ iter = [c \in Consumers |-> 0]
    /\ kick = [c \in Consumers |-> TRUE]
    /\ tasks = [c \in Consumers |-> NoTasks]
    /\ deferred = [c \in Consumers |-> NoTasks]
    /\ ledger = [c \in Consumers |-> NewLedger]
    /\ rebalance = [c \in Consumers |-> "none"]
    /\ closing = [c \in Consumers |-> FALSE]
    /\ done = {}
    /\ restarts = 0 /\ reordered = FALSE

-----------------------------------------------------------------------------
(* The group coordinator and librdkafka *)

(* ERR__ASSIGN_PARTITIONS: consumption starts from the committed offset *)
Assign(c) ==
    /\ owner = None
    /\ assigns < MaxAssigns
    /\ status[c] = "connected" /\ subscribed[c] /\ rebalance[c] = "none"
    /\ iter[c] = 0
    /\ owner' = c
    /\ assigns' = assigns + 1
    /\ position' = [position EXCEPT ![c] = committed]
    /\ stored' = [stored EXCEPT ![c] = NoOffset]
    /\ UNCHANGED <<committed, status, subscribed, fetched, pipeline, control,
                   done, restarts, reordered>>

(* A consume() call in a worker thread pops the next message.  Fetching is *)
(* paused from the revocation to the next assignment.  The calls share the *)
(* queue: when several are outstanding, a later message may be handed over *)
(* before an earlier one                                                   *)
Fetch(c) ==
    /\ owner = c /\ status[c] = "connected" /\ rebalance[c] = "none"
    /\ position[c] < MaxOffset
    /\ Len(fetched[c]) - iter[c] < npending[c]
    /\ \/ /\ fetched' = [fetched EXCEPT ![c] = Append(@, position[c])]
          /\ UNCHANGED reordered
       \/ /\ Len(sizes[c]) > 1
          /\ \E at \in iter[c] .. Len(fetched[c]) - 1 :
                fetched' = [fetched EXCEPT ![c] =
                    SubSeq(@, 1, at) \o <<position[c]>> \o SubSeq(@, at + 1, Len(@))]
          /\ reordered' = TRUE
    /\ position' = [position EXCEPT ![c] = @ + 1]
    /\ UNCHANGED <<kafka, status, subscribed, stored, pipeline, control, done,
                   restarts>>

(* enable.auto.commit: stored offsets are committed in the background *)
AutoCommit(c) ==
    /\ owner = c /\ status[c] = "connected"
    /\ stored[c] > committed
    /\ committed' = stored[c]
    /\ UNCHANGED <<owner, assigns, client, pipeline, control, done, restarts, reordered>>

-----------------------------------------------------------------------------
(* The consumption loop.  JavaScript handlers of a consumer exclude each   *)
(* other: none runs while a consume() callback iterates over its messages  *)

JsIdle(c) == status[c] # "down" /\ iter[c] = 0

(* _processingQueue.running() + _processingQueue.length() *)
Load(c) == MapThenSumSet(LAMBDA o : tasks[c][o], Offsets)

(* Faulty variant: outstanding consume() calls are not counted *)
AvailableSlotsIgnoringPending(c) == Concurrency - Load(c)

AvailableSlots(c) == Concurrency - Load(c) - npending[c]

(* _processingQueue.idle() *)
QueueIdle(t) == \A o \in Offsets : t[o] = 0

TryConsume(c) ==
    /\ JsIdle(c) /\ kick[c]
    /\ kick' = [kick EXCEPT ![c] = FALSE]
    /\ \/ \E n \in 1 .. Concurrency :
            /\ n = AvailableSlots(c)
            /\ sizes' = [sizes EXCEPT ![c] = Append(@, n)]
            /\ npending' = [npending EXCEPT ![c] = @ + n]
       \/ AvailableSlots(c) <= 0 /\ UNCHANGED <<sizes, npending>>
    /\ UNCHANGED <<kafka, client, iter, tasks, deferred, ledger, control, done,
                   restarts, reordered>>

(* Faulty variant: an incomplete batch does not arm the timer *)
ConsumeCallbackWithoutTimer(c) ==
    /\ JsIdle(c) /\ sizes[c] # <<>>
    /\ LET n == Head(sizes[c])
           k == IF Len(fetched[c]) < n THEN Len(fetched[c]) ELSE n
       IN  /\ iter' = [iter EXCEPT ![c] = k]
           /\ npending' = [npending EXCEPT ![c] = @ - n]
    /\ sizes' = [sizes EXCEPT ![c] = Tail(@)]
    /\ UNCHANGED <<kafka, client, kick, tasks, deferred, ledger, control, done, restarts, reordered>>

(* The oldest consume() call, of size n, returns the messages popped so    *)
(* far; fewer than n (its timeout, or an error) arms the one second timer  *)
ConsumeCallback(c) ==
    /\ JsIdle(c) /\ sizes[c] # <<>>
    /\ LET n == Head(sizes[c])
           k == IF Len(fetched[c]) < n THEN Len(fetched[c]) ELSE n
       IN  /\ iter' = [iter EXCEPT ![c] = k]
           /\ npending' = [npending EXCEPT ![c] = @ - n]
           /\ kick' = [kick EXCEPT ![c] = @ \/ k < n]
    /\ sizes' = [sizes EXCEPT ![c] = Tail(@)]
    /\ UNCHANGED <<kafka, client, tasks, deferred, ledger, control, done, restarts, reordered>>

(* One turn of the callback's forEach: the ledger, then the queue *)
ConsumeEntry(c) ==
    /\ iter[c] > 0
    /\ LET o == Head(fetched[c]) IN
       /\ ledger' = [ledger EXCEPT ![c] = onOffsetConsumed(@, o)]
       /\ tasks' = [tasks EXCEPT ![c][o] = @ + 1]
    /\ fetched' = [fetched EXCEPT ![c] = Tail(@)]
    /\ iter' = [iter EXCEPT ![c] = @ - 1]
    /\ UNCHANGED <<kafka, status, subscribed, position, stored, sizes, npending,
                   kick, deferred, control, done, restarts, reordered>>

(* Faulty variant: the committable offset is computed and not stored *)
CommittableWithoutStore(c, o) ==
    /\ done' = done \cup {o}
    /\ ledger' = [ledger EXCEPT ![c] = onOffsetProcessed(@, o)]
    /\ UNCHANGED stored

(* onEntryCommittable: the ledger, then offsetsStore() unless paused.      *)
(* librdkafka ignores a store for a partition that is not assigned         *)
Committable(c, o) ==
    /\ done' = done \cup {o}
    /\ ledger' = [ledger EXCEPT ![c] = onOffsetProcessed(@, o)]
    /\ stored' = [stored EXCEPT ![c] =
                    IF subscribed[c] /\ owner = c /\ status[c] = "connected"
                    THEN getCommittableOffset(ledger'[c]) ELSE @]

(* Faulty variant: a stored offset behind the committed one is committed *)
CommitAnyStored(k) == committed' = IF k # NoOffset THEN k ELSE committed

(* The commit() of _onRebalance: a stored offset that is ahead of the      *)
(* committed one                                                           *)
CommitStored(k) == committed' = IF k > committed THEN k ELSE committed

(* unassign() then the 'unassign' event, on which close() disconnects *)
DoUnassign(c) ==
    /\ owner' = IF owner = c THEN None ELSE owner
    /\ rebalance' = [rebalance EXCEPT ![c] = "none"]
    /\ IF closing[c]
       THEN /\ status' = [status EXCEPT ![c] = "disconnected"]
            /\ closing' = [closing EXCEPT ![c] = FALSE]
       ELSE UNCHANGED <<status, closing>>

(* The unassign closure of _onRebalance, "k" being the stored offset *)
Unassign(c, k) ==
    /\ CommitStored(k)
    /\ IF BacklogMetrics
       THEN /\ rebalance' = [rebalance EXCEPT ![c] = "publishing"]
            /\ UNCHANGED <<owner, status, closing>>
       ELSE DoUnassign(c)

(* Faulty variant: the drain callback is not installed *)
AfterTaskWithoutDrain(c) == UNCHANGED <<committed, owner, rebalance, status, closing>>

(* A task's callback.  The last one of a queue being drained runs the      *)
(* drain callback before anything else happens                             *)
AfterTask(c) ==
    IF rebalance[c] = "draining" /\ QueueIdle(tasks'[c])
    THEN Unassign(c, stored'[c])
    ELSE UNCHANGED <<committed, owner, rebalance, status, closing>>

TaskDone(c, o) ==
    /\ JsIdle(c) /\ tasks[c][o] > 0
    /\ tasks' = [tasks EXCEPT ![c][o] = @ - 1]
    /\ kick' = [kick EXCEPT ![c] = TRUE]
    /\ Committable(c, o)
    /\ AfterTask(c)
    /\ UNCHANGED <<assigns, subscribed, position, fetched, sizes, npending, iter,
                   deferred, restarts, reordered>>

(* done(null, { committable: false }) *)
TaskDoneDeferred(c, o) ==
    /\ JsIdle(c) /\ tasks[c][o] > 0
    /\ tasks' = [tasks EXCEPT ![c][o] = @ - 1]
    /\ kick' = [kick EXCEPT ![c] = TRUE]
    /\ deferred' = [deferred EXCEPT ![c][o] = @ + 1]
    /\ UNCHANGED <<ledger, stored, done>>
    /\ AfterTask(c)
    /\ UNCHANGED <<assigns, subscribed, position, fetched, sizes, npending, iter,
                   restarts, reordered>>

(* The later call of onEntryCommittable for such an entry *)
EntryCommittable(c, o) ==
    /\ JsIdle(c) /\ deferred[c][o] > 0
    /\ deferred' = [deferred EXCEPT ![c][o] = @ - 1]
    /\ Committable(c, o)
    /\ UNCHANGED <<kafka, status, subscribed, position, fetched, sizes, npending,
                   iter, kick, tasks, control, restarts, reordered>>

-----------------------------------------------------------------------------
(* Rebalance, pause, resume, close, crash *)

(* Faulty variant: the unassign closure runs without waiting for the queue *)
RevokeAtOnce(c) ==
    /\ JsIdle(c) /\ status[c] = "connected"
    /\ \/ rebalance[c] = "revoking"
       \/ rebalance[c] = "none" /\ owner = c /\ assigns < MaxAssigns
    /\ Unassign(c, stored[c])
    /\ UNCHANGED <<assigns, subscribed, position, fetched, stored, pipeline, done,
                   restarts, reordered>>

(* ERR__REVOKE_PARTITIONS, because the consumer has unsubscribed or        *)
(* because the group rebalances (counted by the assignment that follows)   *)
Revoke(c) ==
    /\ JsIdle(c) /\ status[c] = "connected"
    /\ \/ rebalance[c] = "revoking"
       \/ rebalance[c] = "none" /\ owner = c /\ assigns < MaxAssigns
    /\ IF QueueIdle(tasks[c])
       THEN Unassign(c, stored[c])
       ELSE /\ rebalance' = [rebalance EXCEPT ![c] = "draining"]
            /\ UNCHANGED <<committed, owner, status, closing>>
    /\ UNCHANGED <<assigns, subscribed, position, fetched, stored, pipeline, done,
                   restarts, reordered>>

(* The offsets are published to zookeeper, then the partition is given up *)
PublishedOffsets(c) ==
    /\ JsIdle(c) /\ rebalance[c] = "publishing"
    /\ DoUnassign(c)
    /\ UNCHANGED <<committed, assigns, subscribed, position, fetched, stored,
                   pipeline, done, restarts, reordered>>

(* A stuck task: the drain timeout commits, unassigns and disconnects *)
DrainTimeout(c) ==
    /\ JsIdle(c) /\ rebalance[c] = "draining"
    /\ CommitStored(stored[c])
    /\ owner' = IF owner = c THEN None ELSE owner
    /\ rebalance' = [rebalance EXCEPT ![c] = "none"]
    /\ status' = [status EXCEPT ![c] = "disconnected"]
    /\ closing' = [closing EXCEPT ![c] = FALSE]
    /\ UNCHANGED <<assigns, subscribed, position, fetched, stored, pipeline, done,
                   restarts, reordered>>

(* unsubscribe() makes librdkafka revoke what is assigned *)
Pause(c) ==
    /\ JsIdle(c) /\ status[c] = "connected" /\ subscribed[c]
    /\ subscribed' = [subscribed EXCEPT ![c] = FALSE]
    /\ rebalance' = [rebalance EXCEPT ![c] =
                        IF @ = "none" /\ owner = c THEN "revoking" ELSE @]
    /\ UNCHANGED <<kafka, status, position, fetched, stored, pipeline, closing,
                   done, restarts, reordered>>

Resume(c) ==
    /\ JsIdle(c) /\ status[c] = "connected" /\ ~subscribed[c] /\ ~closing[c]
    /\ subscribed' = [subscribed EXCEPT ![c] = TRUE]
    /\ UNCHANGED <<kafka, status, position, fetched, stored, pipeline, control,
                   done, restarts, reordered>>

(* close(): retried while offsets are being published; unsubscribe and     *)
(* wait for 'unassign', or disconnect at once when there is no subscription *)
Close(c) ==
    /\ JsIdle(c) /\ status[c] = "connected" /\ ~closing[c]
    /\ rebalance[c] # "publishing"
    /\ IF subscribed[c]
       THEN /\ subscribed' = [subscribed EXCEPT ![c] = FALSE]
            /\ closing' = [closing EXCEPT ![c] = TRUE]
            /\ rebalance' = [rebalance EXCEPT ![c] =
                                IF @ = "none" THEN "revoking" ELSE @]
            /\ UNCHANGED <<owner, status>>
       ELSE /\ owner' = IF owner = c THEN None ELSE owner
            /\ status' = [status EXCEPT ![c] = "disconnected"]
            /\ rebalance' = [rebalance EXCEPT ![c] = "none"]
            /\ UNCHANGED <<subscribed, closing>>
    /\ UNCHANGED <<committed, assigns, position, fetched, stored, pipeline, done,
                   restarts, reordered>>

(* The process dies, or exits once it is disconnected *)
Crash(c) ==
    /\ status[c] # "down"
    /\ restarts < MaxRestarts
    /\ status' = [status EXCEPT ![c] = "down"]
    /\ subscribed' = [subscribed EXCEPT ![c] = FALSE]
    /\ position' = [position EXCEPT ![c] = 0]
    /\ fetched' = [fetched EXCEPT ![c] = <<>>]
    /\ stored' = [stored EXCEPT ![c] = NoOffset]
    /\ sizes' = [sizes EXCEPT ![c] = <<>>]
    /\ npending' = [npending EXCEPT ![c] = 0]
    /\ iter' = [iter EXCEPT ![c] = 0]
    /\ kick' = [kick EXCEPT ![c] = FALSE]
    /\ tasks' = [tasks EXCEPT ![c] = NoTasks]
    /\ deferred' = [deferred EXCEPT ![c] = NoTasks]
    /\ ledger' = [ledger EXCEPT ![c] = NewLedger]
    /\ rebalance' = [rebalance EXCEPT ![c] = "none"]
    /\ closing' = [closing EXCEPT ![c] = FALSE]
    /\ restarts' = restarts + 1
    /\ UNCHANGED <<kafka, done, reordered>>

(* The coordinator notices that the owner's session is over *)
SessionExpired(c) ==
    /\ owner = c /\ status[c] = "down"
    /\ owner' = None
    /\ UNCHANGED <<committed, assigns, client, pipeline, control, done, restarts, reordered>>

(* A new process: _init, then subscribe(paused) and its first _tryConsume *)
Start(c) ==
    /\ status[c] = "down" /\ owner # c
    /\ status' = [status EXCEPT ![c] = "connected"]
    /\ \E paused \in BOOLEAN : subscribed' = [subscribed EXCEPT ![c] = ~paused]
    /\ kick' = [kick EXCEPT ![c] = TRUE]
    /\ UNCHANGED <<kafka, position, fetched, stored, sizes, npending, iter, tasks,
                   deferred, ledger, control, done, restarts, reordered>>

Next == \E c \in Consumers :
    \/ Assign(c) \/ Fetch(c) \/ AutoCommit(c)
    \/ TryConsume(c) \/ ConsumeCallback(c) \/ ConsumeEntry(c)
    \/ \E o \in Offsets : TaskDone(c, o) \/ TaskDoneDeferred(c, o) \/ EntryCommittable(c, o)
    \/ Revoke(c) \/ PublishedOffsets(c) \/ DrainTimeout(c)
    \/ Pause(c) \/ Resume(c) \/ Close(c)
    \/ Crash(c) \/ SessionExpired(c) \/ Start(c)

(* The event loop runs what is ready, tasks end, stored offsets get        *)
(* committed; librdkafka prefetches, so that a message that is there is    *)
(* handed to one of the repeated consume() calls (strong fairness)         *)
Fairness == \A c \in Consumers :
    /\ SF_vars(Fetch(c)) /\ WF_vars(AutoCommit(c))
    /\ WF_vars(TryConsume(c)) /\ WF_vars(ConsumeCallback(c)) /\ WF_vars(ConsumeEntry(c))
    /\ \A o \in Offsets : /\ WF_vars(TaskDone(c, o) \/ TaskDoneDeferred(c, o))
                          /\ WF_vars(EntryCommittable(c, o))
    /\ WF_vars(rebalance[c] = "revoking" /\ Revoke(c)) /\ WF_vars(PublishedOffsets(c))

Spec == Init /\ [][Next]_vars
FairSpec == Spec /\ Fairness

-----------------------------------------------------------------------------
(* Properties *)

(* At-least-once: no message below the committed offset is unprocessed,    *)
(* whatever rebalances, pauses, drain timeouts and crashes happened while  *)
(* tasks, deferred entries and stale consume() answers were around.  It is *)
(* what _initConsumer states of the offsets left to auto-commit.  Named    *)
(* exception: parallel consume() calls handed messages over in another     *)
(* order than the log's (reordered), which the ledger takes for a replay   *)
AtLeastOnce == reordered \/ DoneBelow(committed)

(* The pipeline never holds more messages than its concurrency, those of   *)
(* the outstanding consume() calls included (_getAvailableSlotsInPipeline) *)
PipelineBound == \A c \in Consumers :
    /\ Load(c) + npending[c] + iter[c] <= Concurrency
    /\ npending[c] >= 0

(* The consumption loop never stalls: a process that is up has a scheduled *)
(* _tryConsume, or something in flight whose end schedules one             *)
NoLostWakeup == \A c \in Consumers :
    status[c] # "down" =>
        kick[c] \/ sizes[c] # <<>> \/ iter[c] > 0 \/ ~QueueIdle(tasks[c])

(* A rebalance begins to give the partition up, by publishing the offsets  *)
(* or by unassigning at once, only when no task is left: it waits for the  *)
(* queue to drain.  Left out are the ends of an ownership that do not wait *)
(* by design: the drain time-out and close(), which disconnect, and a      *)
(* session that expires.  The last task's own end counts: the drain        *)
(* callback runs in its turn                                               *)
DrainBeforeUnassign == [][\A c \in Consumers :
    (/\ rebalance[c] # "publishing"
     /\ \/ rebalance'[c] = "publishing"
        \/ owner = c /\ owner' = None /\ status'[c] = "connected")
        => QueueIdle(tasks'[c])]_vars

(* A consumer that keeps its assignment ends up committing every message,  *)
(* however often the partition changed hands before.  Same exception: a    *)
(* ledger whose latest offset is not the highest stops short of the end    *)
EventuallyAllCommitted == \A c \in Consumers :
    <>[](/\ owner = c /\ status[c] = "connected" /\ subscribed[c]
         /\ rebalance[c] = "none" /\ ~reordered)
        => <>(committed = MaxOffset)

(* Every rebalance, and every close(), ends: the queue drains or times out *)
(* and the 'unassign' event that close() waits for is emitted              *)
RebalanceEnds == \A c \in Consumers :
    (rebalance[c] # "none") ~> (rebalance[c] = "none" /\ ~closing[c])

(* The group's promise, implemented by the consumers' handlers: the        *)
(* committed offset never goes back and, unless messages were handed over  *)
(* out of order, moves over processed messages only                        *)
Delivery == INSTANCE AtLeastOnceDelivery
ImplementsDelivery == Delivery!Spec
=============================================================================
