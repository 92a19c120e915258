----------------------- MODULE BackbeatConsumerProofs -----------------------
(***************************************************************************)
(* Proofs about BackbeatConsumer, for every group, partition length,       *)
(* concurrency and number of reassignments and crashes: the consumers      *)
(* never commit over an unprocessed message as long as no message has been *)
(* handed over before an earlier one, and so implement                     *)
(* AtLeastOnceDelivery, whose promise has the same exception.              *)
(***************************************************************************)
EXTENDS BackbeatConsumer, ProofLemmas

-----------------------------------------------------------------------------
(* The offset ledger *)

(* A non-empty set of offsets has a lowest member, and Lowest is it: the   *)
(* processing[0] of the code's ascending array                             *)
LEMMA LowestIsLowest ==
    ASSUME NEW S \in SUBSET Nat, S # {}
    PROVE  Lowest(S) \in S /\ \A p \in S : Lowest(S) <= p
<1>1. PICK m \in S : \A p \in S : ~ (<<p, m>> \in OpToRel(<, Nat))
  BY NatLessThanWellFounded, WFMin
<1>2. ASSUME NEW p \in S, p < m PROVE FALSE
  <2>1. <<p, m>> \in {ss \in Nat \X Nat : ss[1] < ss[2]}
    BY <1>2
  <2> QED BY <1>1, <2>1 DEF OpToRel
<1>3. \A p \in S : m <= p
  BY <1>2
<1> QED BY <1>3 DEF Lowest

(* What makes a ledger safe to commit from: every offset up to the latest  *)
(* consumed one is processed or still in the ledger                        *)
LedgerSafe(l) ==
    /\ \A p \in l.processing : p <= l.latestConsumed
    /\ \A o \in Offsets : o <= l.latestConsumed => o \in done \/ o \in l.processing

PartitionLedgers == [processing : SUBSET Offsets,
                     latestConsumed : Offsets \cup {NoOffset}]

(* Message o may be consumed right after x *)
Link(x, o) == o = x + 1 \/ DoneBelow(o)

(* When every offset up to the latest consumed one is in D or in the       *)
(* ledger, all those below the committable offset are in D: the contract   *)
(* of getCommittableOffset()                                               *)
LEMMA CommittableOver ==
    ASSUME NEW l \in PartitionLedgers, NEW D, MaxOffset \in Nat,
           \A p \in l.processing : p <= l.latestConsumed,
           \A o \in Offsets : o <= l.latestConsumed => o \in D \/ o \in l.processing
    PROVE  /\ getCommittableOffset(l) \in (0 .. MaxOffset) \cup {NoOffset}
           /\ \A o \in Offsets : o < getCommittableOffset(l) => o \in D
<1>1. CASE l.processing # {}
  <2>1. l.processing \in SUBSET Nat
    BY DEF PartitionLedgers, Offsets
  <2> DEFINE m == Lowest(l.processing)
  <2>2. m \in l.processing /\ \A p \in l.processing : m <= p
    BY <1>1, <2>1, LowestIsLowest
  <2>3. m \in Offsets /\ getCommittableOffset(l) = m
    BY <1>1, <2>2 DEF getCommittableOffset, PartitionLedgers
  <2>4. \A o \in Offsets : o < m => o \in D
    <3> SUFFICES ASSUME NEW o \in Offsets, o < m PROVE o \in D
      OBVIOUS
    <3> HIDE DEF m
    <3>1. l.latestConsumed \in Int /\ m \in Int /\ o \in Int
      BY <2>3 DEF PartitionLedgers, Offsets, NoOffset
    <3>2. o <= l.latestConsumed /\ o \notin l.processing
      BY <2>1, <2>2, <3>1
    <3> QED BY <3>2
  <2>5. m \in 0 .. MaxOffset
    BY <2>3 DEF Offsets
  <2> QED BY <2>3, <2>4, <2>5
<1>2. CASE l.processing = {} /\ l.latestConsumed # NoOffset
  <2>1. l.latestConsumed \in Offsets /\ getCommittableOffset(l) = l.latestConsumed + 1
    BY <1>2 DEF getCommittableOffset, PartitionLedgers
  <2>2. \A o \in Offsets : o < l.latestConsumed + 1 => o \in D
    BY <1>2, <2>1 DEF Offsets
  <2> QED BY <2>1, <2>2 DEF Offsets
<1>3. CASE l.processing = {} /\ l.latestConsumed = NoOffset
  BY <1>3 DEF getCommittableOffset, NoOffset, Offsets
<1> QED BY <1>1, <1>2, <1>3

(* Consuming a message that links to the latest consumed one keeps the     *)
(* ledger safe, a replay included: what it forgets is processed or comes   *)
(* again                                                                   *)
LEMMA ConsumedKeepsSafe ==
    ASSUME NEW l \in PartitionLedgers, LedgerSafe(l), NEW o \in Offsets,
           Link(l.latestConsumed, o), MaxOffset \in Nat
    PROVE  /\ onOffsetConsumed(l, o) \in PartitionLedgers
           /\ LedgerSafe(onOffsetConsumed(l, o))
<1> DEFINE n == onOffsetConsumed(l, o)
<1>1. /\ l.latestConsumed \in Int /\ o \in Int /\ NoOffset = -1
      /\ l.processing \subseteq Offsets /\ Offsets \subseteq Int
      /\ \A p \in Offsets : 0 <= p
  BY DEF PartitionLedgers, Offsets, NoOffset
<1>2. n.latestConsumed = o /\ o \in n.processing /\ n \in PartitionLedgers
  BY DEF onOffsetConsumed, PartitionLedgers
<1>3. CASE o = l.latestConsumed + 1 \/ l.latestConsumed = NoOffset
  <2>1. n.processing = l.processing \cup {o}
    BY <1>3 DEF onOffsetConsumed
  <2> HIDE DEF n
  <2>2. \A p \in l.processing : p <= l.latestConsumed /\ p \in Int
    BY <1>1 DEF LedgerSafe
  <2>3. \A p \in n.processing : p <= o
    BY <1>1, <1>3, <2>1, <2>2
  <2>4. ASSUME NEW p \in Offsets, p <= o PROVE p \in done \/ p \in n.processing
    <3>1. CASE p = o
      BY <3>1, <1>2
    <3>2. CASE p < o /\ o = l.latestConsumed + 1
      BY <3>2, <1>1, <2>1 DEF LedgerSafe
    <3>3. CASE p < o /\ o # l.latestConsumed + 1
      BY <3>3 DEF Link, DoneBelow
    <3> QED BY <3>1, <3>2, <3>3, <2>4, <1>1
  <2> QED BY <1>2, <2>3, <2>4 DEF LedgerSafe, n
<1>4. CASE ~ (o = l.latestConsumed + 1 \/ l.latestConsumed = NoOffset)
  <2>1. n.processing = {p \in l.processing : p < o} \cup {o}
    BY <1>4 DEF onOffsetConsumed
  <2> HIDE DEF n
  <2>2. \A p \in n.processing : p <= o
    <3> SUFFICES ASSUME NEW p \in n.processing PROVE p <= o
      OBVIOUS
    <3>1. (p = o \/ p < o) /\ p \in Offsets
      BY <1>1, <2>1
    <3> QED BY <1>1, <3>1
  <2>3. ASSUME NEW p \in Offsets, p <= o PROVE p \in done \/ p \in n.processing
    BY <1>1, <1>2, <1>4, <2>3 DEF Link, DoneBelow
  <2> QED BY <1>2, <2>2, <2>3 DEF LedgerSafe, n
<1> QED BY <1>2, <1>3, <1>4

-----------------------------------------------------------------------------
(* The types *)

(* What the ledger's operations return, for the offsets of the partition *)
LEMMA LedgerTypes ==
    ASSUME NEW l \in PartitionLedgers, NEW o \in Offsets, MaxOffset \in Nat
    PROVE  /\ onOffsetConsumed(l, o) \in PartitionLedgers
           /\ onOffsetProcessed(l, o) \in PartitionLedgers
           /\ getCommittableOffset(l) \in (0 .. MaxOffset) \cup {NoOffset}
<1>1. onOffsetConsumed(l, o) \in PartitionLedgers
  BY DEF onOffsetConsumed, PartitionLedgers
<1>2. onOffsetProcessed(l, o) \in PartitionLedgers
  BY DEF onOffsetProcessed, PartitionLedgers
<1>3. CASE l.processing # {}
  <2>1. l.processing \in SUBSET Nat /\ l.processing \in SUBSET Offsets
    BY DEF PartitionLedgers, Offsets
  <2>2. Lowest(l.processing) \in Offsets
    BY <1>3, <2>1, LowestIsLowest
  <2> QED BY <1>1, <1>2, <1>3, <2>2 DEF getCommittableOffset, Offsets
<1>4. CASE l.processing = {}
  <2>1. getCommittableOffset(l) \in (0 .. MaxOffset) \cup {NoOffset}
    BY <1>4 DEF getCommittableOffset, PartitionLedgers, Offsets
  <2> QED BY <1>1, <1>2, <2>1
<1> QED BY <1>3, <1>4

(* onEntryCommittable keeps the types of the ledger and the stored offset *)
LEMMA CommittableTypes ==
    ASSUME TypeOK, NEW c \in Consumers, NEW o \in Offsets, Committable(c, o)
    PROVE  /\ done' \in SUBSET Offsets
           /\ ledger' \in [Consumers -> PartitionLedgers]
           /\ stored' \in [Consumers -> (0 .. MaxOffset) \cup {NoOffset}]
<1> USE ConsumerAssumption
<1>1. ledger \in [Consumers -> PartitionLedgers]
  BY DEF TypeOK, PartitionLedgers
<1>2. ledger' \in [Consumers -> PartitionLedgers]
  <2>1. onOffsetProcessed(ledger[c], o) \in PartitionLedgers
    BY <1>1, LedgerTypes
  <2> QED BY <1>1, <2>1 DEF Committable
<1>3. getCommittableOffset(ledger'[c]) \in (0 .. MaxOffset) \cup {NoOffset}
  <2>1. \A l \in PartitionLedgers : getCommittableOffset(l) \in (0 .. MaxOffset) \cup {NoOffset}
    BY LedgerTypes
  <2> QED BY <1>2, <2>1
<1>4. stored' \in [Consumers -> (0 .. MaxOffset) \cup {NoOffset}]
  BY <1>3 DEF Committable, TypeOK
<1> QED BY <1>2, <1>4 DEF Committable, TypeOK

(* The unassign closure commits a safe offset and may give the partition up *)
LEMMA UnassignEffect ==
    ASSUME TypeOK, NEW c \in Consumers, Unassign(c, stored'[c]), MaxOffset \in Nat,
           stored'[c] \in (0 .. MaxOffset) \cup {NoOffset}
    PROVE  /\ committed' \in {committed, stored'[c]} /\ committed' \in 0 .. MaxOffset
           /\ owner' \in {owner, None}
           /\ rebalance' \in [Consumers -> {"none", "revoking", "draining", "publishing"}]
           /\ status' \in [Consumers -> {"connected", "disconnected", "down"}]
           /\ closing' \in [Consumers -> BOOLEAN]
<1>1. committed' \in {committed, stored'[c]} /\ committed' \in 0 .. MaxOffset
  BY DEF TypeOK, Unassign, CommitStored, NoOffset
<1>2. CASE BacklogMetrics
  BY <1>1, <1>2 DEF TypeOK, Unassign
<1>3. CASE ~BacklogMetrics
  <2>1. DoUnassign(c)
    BY <1>3 DEF Unassign
  <2>2. owner' \in {owner, None}
    BY <2>1 DEF DoUnassign
  <2>3. rebalance' \in [Consumers -> {"none", "revoking", "draining", "publishing"}]
    BY <2>1 DEF DoUnassign, TypeOK
  <2>4. /\ status' \in [Consumers -> {"connected", "disconnected", "down"}]
        /\ closing' \in [Consumers -> BOOLEAN]
    BY <2>1 DEF DoUnassign, TypeOK
  <2> QED BY <1>1, <2>2, <2>3, <2>4
<1> QED BY <1>2, <1>3

(* What AfterTask may change, the drain callback's unassign included *)
LEMMA AfterTaskEffect ==
    ASSUME TypeOK, NEW c \in Consumers, AfterTask(c),
           stored'[c] \in (0 .. MaxOffset) \cup {NoOffset}
    PROVE  /\ committed' \in {committed, stored'[c]} /\ committed' \in 0 .. MaxOffset
           /\ owner' \in {owner, None}
           /\ rebalance' \in [Consumers -> {"none", "revoking", "draining", "publishing"}]
           /\ status' \in [Consumers -> {"connected", "disconnected", "down"}]
           /\ closing' \in [Consumers -> BOOLEAN]
<1> USE ConsumerAssumption
<1>1. CASE UNCHANGED <<committed, owner, rebalance, status, closing>>
  BY <1>1 DEF TypeOK
<1>2. CASE Unassign(c, stored'[c])
  BY <1>2, UnassignEffect
<1> QED BY <1>1, <1>2 DEF AfterTask

(* Fetching adds a message of the partition, at the end or, when consume() *)
(* calls run side by side, in between                                      *)
LEMMA FetchTypes ==
    ASSUME TypeOK, NEW c \in Consumers, Fetch(c)
    PROVE  /\ TypeOK'
           /\ Len(fetched'[c]) = Len(fetched[c]) + 1
           /\ \A d \in Consumers \ {c} : fetched'[d] = fetched[d]
<1> USE ConsumerAssumption
<1> DEFINE f == fetched[c]
           x == position[c]
<1>1. /\ f \in Seq(Offsets) /\ Len(f) \in Nat /\ iter[c] \in Nat
      /\ x \in Offsets /\ x + 1 \in 0 .. MaxOffset
  BY DEF TypeOK, Fetch, Offsets
<1>2. Append(f, x) \in Seq(Offsets) /\ Len(Append(f, x)) = Len(f) + 1
  BY <1>1
<1>3. ASSUME NEW at \in iter[c] .. Len(f) - 1
      PROVE  /\ SubSeq(f, 1, at) \o <<x>> \o SubSeq(f, at + 1, Len(f)) \in Seq(Offsets)
             /\ Len(SubSeq(f, 1, at) \o <<x>> \o SubSeq(f, at + 1, Len(f))) = Len(f) + 1
  <2> DEFINE a == SubSeq(f, 1, at)
             b == SubSeq(f, at + 1, Len(f))
  <2>1. at \in Nat /\ at < Len(f)
    BY <1>1
  <2>2. a \in Seq(Offsets) /\ Len(a) = at
    <3>1. \A i \in 1 .. at : f[i] \in Offsets
      BY <1>1, <2>1
    <3> QED BY <1>1, <2>1, <3>1, SubSeqProperties
  <2>3. b \in Seq(Offsets) /\ Len(b) = Len(f) - at
    <3>1. \A i \in at + 1 .. Len(f) : f[i] \in Offsets
      BY <1>1, <2>1
    <3> QED BY <1>1, <2>1, <3>1, SubSeqProperties
  <2>4. <<x>> \in Seq(Offsets) /\ Len(<<x>>) = 1
    BY <1>1
  <2> HIDE DEF a, b
  <2> DEFINE ax == a \o <<x>>
  <2>5. ax \in Seq(Offsets) /\ Len(ax) = at + 1
    BY <2>1, <2>2, <2>4, ConcatProperties
  <2> HIDE DEF ax
  <2>6. ax \o b \in Seq(Offsets) /\ Len(ax \o b) = Len(ax) + Len(b)
    BY <2>3, <2>5, ConcatProperties
  <2>7. Len(ax \o b) = Len(f) + 1
    <3>1. \A n, k \in Nat : k + 1 + (n - k) = n + 1
      OBVIOUS
    <3>2. Len(ax \o b) = at + 1 + (Len(f) - at)
      BY <2>3, <2>5, <2>6, Zenon
    <3> QED BY <1>1, <2>1, <3>1, <3>2, Zenon
  <2> QED BY <2>6, <2>7, Zenon DEF a, b, ax
<1>4. \E g \in Seq(Offsets) : /\ Len(g) = Len(f) + 1
                              /\ fetched' = [fetched EXCEPT ![c] = g]
  BY <1>2, <1>3 DEF Fetch
<1>5. /\ fetched' \in [Consumers -> Seq(Offsets)]
      /\ Len(fetched'[c]) = Len(f) + 1
      /\ \A d \in Consumers \ {c} : fetched'[d] = fetched[d]
  BY <1>4 DEF TypeOK
<1>6. position' \in [Consumers -> 0 .. MaxOffset]
  BY <1>1 DEF TypeOK, Fetch
<1> HIDE DEF f, x
<1>7. TypeOK'
  BY <1>5, <1>6 DEF Fetch, TypeOK, kafka, pipeline, control
<1> QED BY <1>5, <1>7 DEF f

(* A consume() answer leaves what it has not popped yet for the next one *)
LEMMA ConsumeCallbackTypes ==
    ASSUME TypeOK, NEW c \in Consumers, ConsumeCallback(c)
    PROVE  /\ TypeOK'
           /\ Head(sizes[c]) \in 1 .. Concurrency
           /\ iter'[c] <= Len(fetched'[c]) /\ iter'[c] <= Head(sizes[c])
           /\ \A d \in Consumers \ {c} : iter'[d] = iter[d]
<1> USE ConsumerAssumption
<1> DEFINE n == Head(sizes[c])
           k == IF Len(fetched[c]) < n THEN Len(fetched[c]) ELSE n
<1>1. n \in 1 .. Concurrency /\ Tail(sizes[c]) \in Seq(1 .. Concurrency)
  <2>1. sizes[c] \in Seq(1 .. Concurrency) /\ sizes[c] # <<>>
    BY DEF TypeOK, ConsumeCallback
  <2> QED BY <2>1, HeadTailProperties
<1>2. Len(fetched[c]) \in Nat /\ npending[c] \in Int
  BY DEF TypeOK
<1>3. k \in Nat /\ k <= Len(fetched[c]) /\ k <= n
  BY <1>1, <1>2
<1>4. /\ iter' = [iter EXCEPT ![c] = k]
      /\ npending' = [npending EXCEPT ![c] = @ - n]
      /\ kick' = [kick EXCEPT ![c] = @ \/ k < n]
      /\ sizes' = [sizes EXCEPT ![c] = Tail(@)]
      /\ UNCHANGED <<kafka, client, tasks, deferred, ledger, control, done, restarts, reordered>>
  BY DEF ConsumeCallback
<1> HIDE DEF n, k
<1>5. iter' \in [Consumers -> Nat] /\ sizes' \in [Consumers -> Seq(1 .. Concurrency)]
  BY <1>1, <1>3, <1>4 DEF TypeOK
<1>6. npending' \in [Consumers -> Int] /\ kick' \in [Consumers -> BOOLEAN]
  <2>1. npending[c] - n \in Int /\ npending' = [npending EXCEPT ![c] = npending[c] - n]
    BY <1>1, <1>2, <1>4
  <2>2. npending' \in [Consumers -> Int]
    BY <2>1 DEF TypeOK
  <2>3. kick' \in [Consumers -> BOOLEAN]
    BY <1>4 DEF TypeOK
  <2> QED BY <2>2, <2>3
<1>7. TypeOK'
  BY <1>4, <1>5, <1>6 DEF TypeOK, kafka, client, control
<1>8. iter'[c] = k /\ fetched' = fetched /\ \A d \in Consumers \ {c} : iter'[d] = iter[d]
  BY <1>4 DEF TypeOK, client
<1> QED BY <1>1, <1>3, <1>7, <1>8 DEF n

(* A message goes from the answer to the ledger and the queue *)
LEMMA ConsumeEntryTypes ==
    ASSUME TypeOK, NEW c \in Consumers, ConsumeEntry(c), iter[c] <= Len(fetched[c])
    PROVE  /\ TypeOK'
           /\ Head(fetched[c]) \in Offsets
           /\ iter'[c] <= Len(fetched'[c])
           /\ \A d \in Consumers \ {c} : iter'[d] = iter[d] /\ fetched'[d] = fetched[d]
<1> USE ConsumerAssumption
<1> DEFINE f == fetched[c]
           o == Head(f)
           m == onOffsetConsumed(ledger[c], o)
<1>1. /\ f \in Seq(Offsets) /\ iter[c] \in Nat /\ Len(f) \in Nat /\ iter[c] > 0
      /\ iter[c] - 1 \in Nat
  BY DEF TypeOK, ConsumeEntry
<1>2. f # <<>> /\ o \in Offsets /\ Tail(f) \in Seq(Offsets) /\ Len(Tail(f)) = Len(f) - 1
  <2>1. f # <<>>
    BY <1>1
  <2> QED BY <1>1, <2>1, HeadTailProperties
<1>3. ledger \in [Consumers -> PartitionLedgers] /\ m \in PartitionLedgers
  <2>1. ledger \in [Consumers -> PartitionLedgers]
    BY DEF TypeOK, PartitionLedgers
  <2> QED BY <1>2, <2>1, LedgerTypes
<1>4. /\ ledger' = [ledger EXCEPT ![c] = m]
      /\ tasks' = [tasks EXCEPT ![c][o] = @ + 1]
      /\ fetched' = [fetched EXCEPT ![c] = Tail(f)]
      /\ iter' = [iter EXCEPT ![c] = iter[c] - 1]
      /\ UNCHANGED <<kafka, status, subscribed, position, stored, sizes, npending,
                     kick, deferred, control, done, restarts, reordered>>
  BY DEF ConsumeEntry
<1> HIDE DEF f, o, m
<1>5. ledger' \in [Consumers -> PartitionLedgers]
  BY <1>3, <1>4
<1>6. tasks' \in [Consumers -> [Offsets -> Nat]]
  BY <1>2, <1>4 DEF TypeOK
<1>7. /\ fetched' \in [Consumers -> Seq(Offsets)] /\ iter' \in [Consumers -> Nat]
      /\ fetched'[c] = Tail(f) /\ iter'[c] = iter[c] - 1
      /\ \A d \in Consumers \ {c} : iter'[d] = iter[d] /\ fetched'[d] = fetched[d]
  BY <1>1, <1>2, <1>4 DEF TypeOK
<1>8. TypeOK'
  BY <1>4, <1>5, <1>6, <1>7 DEF TypeOK, PartitionLedgers, kafka, control
<1> QED BY <1>1, <1>2, <1>7, <1>8 DEF f, o

(* Every step keeps the types, whatever the order of consume() answers *)
LEMMA TypesKept ==
    ASSUME TypeOK, [Next]_vars, \A d \in Consumers : iter[d] <= Len(fetched[d])
    PROVE  TypeOK'
<1> USE ConsumerAssumption
<1>0. CASE UNCHANGED vars
  BY <1>0 DEF TypeOK, vars, kafka, client, pipeline, control
<1> SUFFICES ASSUME NEW c \in Consumers,
        \/ Assign(c) \/ Fetch(c) \/ AutoCommit(c)
        \/ TryConsume(c) \/ ConsumeCallback(c) \/ ConsumeEntry(c)
        \/ \E o \in Offsets : TaskDone(c, o) \/ TaskDoneDeferred(c, o) \/ EntryCommittable(c, o)
        \/ Revoke(c) \/ PublishedOffsets(c) \/ DrainTimeout(c)
        \/ Pause(c) \/ Resume(c) \/ Close(c)
        \/ Crash(c) \/ SessionExpired(c) \/ Start(c)
    PROVE  TypeOK'
  BY <1>0 DEF Next
<1>1. CASE Assign(c)
  BY <1>1 DEF Assign, TypeOK, NoOffset, pipeline, control
<1>2. CASE AutoCommit(c)
  BY <1>2 DEF AutoCommit, TypeOK, NoOffset, client, pipeline, control
<1>3. CASE TryConsume(c)
  <2>1. sizes' \in [Consumers -> Seq(1 .. Concurrency)] /\ npending' \in [Consumers -> Int]
    <3>1. CASE UNCHANGED <<sizes, npending>>
      BY <3>1 DEF TypeOK
    <3>2. ASSUME NEW n \in 1 .. Concurrency,
                 sizes' = [sizes EXCEPT ![c] = Append(@, n)],
                 npending' = [npending EXCEPT ![c] = @ + n]
          PROVE  sizes' \in [Consumers -> Seq(1 .. Concurrency)] /\ npending' \in [Consumers -> Int]
      <4>1. sizes \in [Consumers -> Seq(1 .. Concurrency)] /\ npending \in [Consumers -> Int]
        BY DEF TypeOK
      <4>2. Append(sizes[c], n) \in Seq(1 .. Concurrency)
        BY <4>1
      <4>3. npending[c] + n \in Int
        BY <4>1
      <4> QED BY <3>2, <4>1, <4>2, <4>3
    <3> QED BY <1>3, <3>1, <3>2 DEF TryConsume
  <2>2. kick' \in [Consumers -> BOOLEAN]
    BY <1>3 DEF TryConsume, TypeOK
  <2> QED BY <1>3, <2>1, <2>2 DEF TryConsume, TypeOK, kafka, client, control
<1>4. CASE PublishedOffsets(c)
  BY <1>4 DEF PublishedOffsets, DoUnassign, TypeOK, pipeline
<1>5. CASE Pause(c) \/ Resume(c)
  BY <1>5 DEF Pause, Resume, TypeOK, kafka, pipeline, control
<1>6. CASE Close(c)
  <2>1. closing' \in [Consumers -> BOOLEAN] /\ subscribed' \in [Consumers -> BOOLEAN]
    BY <1>6 DEF Close, TypeOK
  <2>2. /\ owner' \in Consumers \cup {None}
        /\ status' \in [Consumers -> {"connected", "disconnected", "down"}]
    BY <1>6 DEF Close, TypeOK
  <2>3. rebalance' \in [Consumers -> {"none", "revoking", "draining", "publishing"}]
    <3>1. \E r \in {"none", "revoking", "draining", "publishing"} :
              rebalance' = [rebalance EXCEPT ![c] = r]
      BY <1>6 DEF Close, TypeOK
    <3>2. rebalance \in [Consumers -> {"none", "revoking", "draining", "publishing"}]
      BY DEF TypeOK
    <3> QED BY <3>1, <3>2
  <2>4. UNCHANGED <<committed, assigns, position, fetched, stored, pipeline, done,
                    restarts, reordered>>
    BY <1>6 DEF Close
  <2> QED BY <2>1, <2>2, <2>3, <2>4 DEF TypeOK, pipeline
<1>7. CASE SessionExpired(c) \/ Start(c)
  BY <1>7 DEF SessionExpired, Start, TypeOK, kafka, client, pipeline, control
<1>8. CASE DrainTimeout(c)
  <2>1. committed' \in 0 .. MaxOffset
    BY <1>8 DEF DrainTimeout, CommitStored, TypeOK, NoOffset
  <2>2. owner' \in Consumers \cup {None} /\ status' \in [Consumers -> {"connected", "disconnected", "down"}]
    BY <1>8 DEF DrainTimeout, TypeOK
  <2>3. /\ rebalance' \in [Consumers -> {"none", "revoking", "draining", "publishing"}]
        /\ closing' \in [Consumers -> BOOLEAN]
    BY <1>8 DEF DrainTimeout, TypeOK
  <2> QED BY <1>8, <2>1, <2>2, <2>3 DEF DrainTimeout, TypeOK, pipeline
<1>9. CASE Revoke(c)
  <2>1. CASE Unassign(c, stored[c])
    <3>1. stored' = stored /\ Unassign(c, stored'[c]) /\ stored'[c] \in (0 .. MaxOffset) \cup {NoOffset}
      BY <1>9, <2>1 DEF Revoke, TypeOK
    <3> QED BY <1>9, <3>1, UnassignEffect DEF Revoke, TypeOK, pipeline
  <2>2. CASE /\ rebalance' = [rebalance EXCEPT ![c] = "draining"]
             /\ UNCHANGED <<committed, owner, status, closing>>
    BY <1>9, <2>2 DEF Revoke, TypeOK, pipeline
  <2> QED BY <1>9, <2>1, <2>2 DEF Revoke
<1>10. CASE Crash(c)
  <2>1. /\ status' \in [Consumers -> {"connected", "disconnected", "down"}]
        /\ subscribed' \in [Consumers -> BOOLEAN]
        /\ position' \in [Consumers -> 0 .. MaxOffset]
        /\ stored' \in [Consumers -> (0 .. MaxOffset) \cup {NoOffset}]
    BY <1>10 DEF Crash, TypeOK
  <2>2. /\ fetched' \in [Consumers -> Seq(Offsets)]
        /\ sizes' \in [Consumers -> Seq(1 .. Concurrency)]
    BY <1>10 DEF Crash, TypeOK
  <2>3. /\ npending' \in [Consumers -> Int] /\ iter' \in [Consumers -> Nat]
        /\ kick' \in [Consumers -> BOOLEAN]
    BY <1>10 DEF Crash, TypeOK
  <2>4. /\ tasks' \in [Consumers -> [Offsets -> Nat]]
        /\ deferred' \in [Consumers -> [Offsets -> Nat]]
    BY <1>10 DEF Crash, TypeOK, NoTasks
  <2>5. ledger' \in [Consumers -> PartitionLedgers]
    <3>1. NewLedger \in PartitionLedgers
      BY DEF NewLedger, PartitionLedgers
    <3> QED BY <1>10, <3>1 DEF Crash, TypeOK, PartitionLedgers
  <2>6. /\ rebalance' \in [Consumers -> {"none", "revoking", "draining", "publishing"}]
        /\ closing' \in [Consumers -> BOOLEAN]
        /\ restarts' \in 0 .. MaxRestarts
    BY <1>10 DEF Crash, TypeOK
  <2> QED BY <1>10, <2>1, <2>2, <2>3, <2>4, <2>5, <2>6 DEF Crash, TypeOK, PartitionLedgers, kafka
<1>11. ASSUME NEW o \in Offsets, TaskDone(c, o) \/ TaskDoneDeferred(c, o)
       PROVE  TypeOK'
  <2>1. tasks' \in [Consumers -> [Offsets -> Nat]] /\ kick' \in [Consumers -> BOOLEAN]
    <3>1. tasks[c][o] \in Nat /\ tasks[c][o] > 0
      BY <1>11 DEF TaskDone, TaskDoneDeferred, TypeOK
    <3>2. tasks' = [tasks EXCEPT ![c][o] = tasks[c][o] - 1] /\ tasks[c][o] - 1 \in Nat
      BY <1>11, <3>1 DEF TaskDone, TaskDoneDeferred
    <3>3. kick' \in [Consumers -> BOOLEAN]
      BY <1>11 DEF TaskDone, TaskDoneDeferred, TypeOK
    <3>4. tasks \in [Consumers -> [Offsets -> Nat]]
      BY DEF TypeOK
    <3> QED BY <3>2, <3>3, <3>4
  <2>2. /\ done' \in SUBSET Offsets
        /\ ledger' \in [Consumers -> PartitionLedgers]
        /\ stored' \in [Consumers -> (0 .. MaxOffset) \cup {NoOffset}]
    <3>1. CASE TaskDone(c, o)
      BY <3>1, CommittableTypes DEF TaskDone
    <3>2. CASE TaskDoneDeferred(c, o)
      BY <3>2 DEF TaskDoneDeferred, TypeOK, PartitionLedgers
    <3> QED BY <1>11, <3>1, <3>2
  <2>3. /\ committed' \in 0 .. MaxOffset /\ owner' \in {owner, None}
        /\ rebalance' \in [Consumers -> {"none", "revoking", "draining", "publishing"}]
        /\ status' \in [Consumers -> {"connected", "disconnected", "down"}]
        /\ closing' \in [Consumers -> BOOLEAN]
    BY <1>11, <2>2, AfterTaskEffect DEF TaskDone, TaskDoneDeferred
  <2>4. owner' \in Consumers \cup {None}
    BY <2>3 DEF TypeOK
  <2>5. deferred' \in [Consumers -> [Offsets -> Nat]]
    <3>1. deferred \in [Consumers -> [Offsets -> Nat]]
      BY DEF TypeOK
    <3>2. deferred[c][o] + 1 \in Nat
      BY <3>1
    <3>3. CASE deferred' = deferred
      BY <3>1, <3>3
    <3>4. CASE deferred' = [deferred EXCEPT ![c][o] = deferred[c][o] + 1]
      BY <3>1, <3>2, <3>4
    <3> QED BY <1>11, <3>3, <3>4 DEF TaskDone, TaskDoneDeferred
  <2>6. UNCHANGED <<assigns, subscribed, position, fetched, sizes, npending, iter, restarts, reordered>>
    BY <1>11 DEF TaskDone, TaskDoneDeferred
  <2> QED BY <2>1, <2>2, <2>3, <2>4, <2>5, <2>6 DEF TypeOK, PartitionLedgers
<1>12. ASSUME NEW o \in Offsets, EntryCommittable(c, o)
       PROVE  TypeOK'
  <2>1. deferred' \in [Consumers -> [Offsets -> Nat]]
    <3>1. deferred[c][o] \in Nat /\ deferred[c][o] > 0
      BY <1>12 DEF EntryCommittable, TypeOK
    <3>2. deferred' = [deferred EXCEPT ![c][o] = deferred[c][o] - 1] /\ deferred[c][o] - 1 \in Nat
      BY <1>12, <3>1 DEF EntryCommittable
    <3>3. deferred \in [Consumers -> [Offsets -> Nat]]
      BY DEF TypeOK
    <3> QED BY <3>2, <3>3
  <2> QED BY <1>12, <2>1, CommittableTypes
          DEF EntryCommittable, TypeOK, PartitionLedgers, kafka, control
<1> QED BY <1>1, <1>2, <1>3, <1>4, <1>5, <1>6, <1>7, <1>8, <1>9, <1>10, <1>11, <1>12,
           FetchTypes, ConsumeCallbackTypes, ConsumeEntryTypes

-----------------------------------------------------------------------------
(* The inductive invariant *)

(* The messages a consumer holds form a chain from its ledger to the next  *)
(* message to fetch: each follows the previous one, or starts a replay or  *)
(* a jump at a point below which everything is processed                   *)
Chain(c) ==
    /\ Len(fetched[c]) > 0 => Link(ledger[c].latestConsumed, fetched[c][1])
    /\ \A i \in 1 .. Len(fetched[c]) - 1 : Link(fetched[c][i], fetched[c][i + 1])
    /\ owner = c =>
        Link(IF Len(fetched[c]) = 0 THEN ledger[c].latestConsumed
                                    ELSE fetched[c][Len(fetched[c])], position[c])

SafeConsumer(c) ==
    /\ LedgerSafe(ledger[c])
    /\ DoneBelow(stored[c])
    /\ iter[c] <= Len(fetched[c])
    /\ Chain(c)

(* Every message below the committed offset is processed *)
CommittedDone == DoneBelow(committed)

Inv == TypeOK /\ CommittedDone /\ \A c \in Consumers : SafeConsumer(c)

(* Nothing is ever unprocessed again, so what is below a point stays done *)
LEMMA DoneGrows ==
    ASSUME done \subseteq done'
    PROVE  /\ \A k : DoneBelow(k) => DoneBelow(k)'
           /\ \A l : LedgerSafe(l) => LedgerSafe(l)'
<1>1. \A o \in Offsets : o \in done => o \in done'
  OBVIOUS
<1> QED BY <1>1 DEF DoneBelow, LedgerSafe, Offsets

(* A consumer whose own data a step leaves alone stays safe *)
LEMMA Frame ==
    ASSUME NEW c \in Consumers, SafeConsumer(c), done \subseteq done',
           ledger'[c] = ledger[c], stored'[c] = stored[c], iter'[c] = iter[c],
           fetched'[c] = fetched[c], position'[c] = position[c],
           owner' = c => owner = c
    PROVE  SafeConsumer(c)'
<1>1. LedgerSafe(ledger[c])' /\ DoneBelow(stored[c])'
  <2>1. LedgerSafe(ledger[c]) /\ DoneBelow(stored[c])
    BY DEF SafeConsumer
  <2>2. \A o \in Offsets : o \in done => o \in done'
    OBVIOUS
  <2> QED BY <2>1, <2>2 DEF LedgerSafe, DoneBelow, Offsets
<1>2. \A x, o : Link(x, o) => Link(x, o)'
  BY DoneGrows DEF Link
<1>3. Chain(c)'
  <2>1. Chain(c)
    BY DEF SafeConsumer
  <2>2. (Len(fetched[c]) > 0 => Link(ledger[c].latestConsumed, fetched[c][1]))'
    BY <1>2, <2>1 DEF Chain, Link, DoneBelow, Offsets
  <2>3. (\A i \in 1 .. Len(fetched[c]) - 1 : Link(fetched[c][i], fetched[c][i + 1]))'
    BY <1>2, <2>1 DEF Chain, Link, DoneBelow, Offsets
  <2>4. (owner = c =>
        Link(IF Len(fetched[c]) = 0 THEN ledger[c].latestConsumed
                                    ELSE fetched[c][Len(fetched[c])], position[c]))'
    BY <1>2, <2>1 DEF Chain, Link, DoneBelow, Offsets
  <2> QED BY <2>2, <2>3, <2>4 DEF Chain
<1> QED BY <1>1, <1>3 DEF SafeConsumer

-----------------------------------------------------------------------------
(* Every action preserves the invariant *)

(* Actions that leave the messages, ledgers and stored offsets alone and   *)
(* take no ownership: only TypeOK and the committed offset are at stake    *)
LEMMA QuietStep ==
    ASSUME Inv, TypeOK', CommittedDone', done' = done, owner' \in {owner, None},
           UNCHANGED <<ledger, stored, iter, fetched, position>>, None \notin Consumers
    PROVE  Inv'
<1>1. ASSUME NEW c \in Consumers PROVE SafeConsumer(c)'
  BY Frame DEF Inv
<1> QED BY <1>1 DEF Inv

(* They are: background commits, _tryConsume, the rebalance, pause, resume *)
(* and close handlers, the end of a session and the start of a process     *)
LEMMA QuietActions ==
    ASSUME Inv, TypeOK', NEW c \in Consumers,
           \/ AutoCommit(c) \/ TryConsume(c) \/ PublishedOffsets(c)
           \/ Pause(c) \/ Resume(c) \/ Close(c) \/ SessionExpired(c) \/ Start(c)
           \/ DrainTimeout(c) \/ Revoke(c)
    PROVE  Inv'
<1> USE ConsumerAssumption
<1>0. TypeOK /\ CommittedDone /\ SafeConsumer(c) /\ stored[c] \in (0 .. MaxOffset) \cup {NoOffset}
  BY DEF Inv, TypeOK
<1>1. CASE AutoCommit(c)
  <2>2. DoneBelow(stored[c])
    BY <1>0 DEF SafeConsumer
  <2>3. CommittedDone'
    BY <1>1, <2>2 DEF AutoCommit, CommittedDone, DoneBelow
  <2> QED BY <1>1, <2>3, QuietStep DEF AutoCommit, client, pipeline
<1>2. CASE TryConsume(c)
  <2>2. CommittedDone'
    BY <1>0, <1>2 DEF TryConsume, CommittedDone, DoneBelow, kafka
  <2> QED BY <1>2, <2>2, QuietStep DEF TryConsume, client, kafka
<1>3. CASE PublishedOffsets(c)
  <2>2. CommittedDone'
    BY <1>0, <1>3 DEF PublishedOffsets, CommittedDone, DoneBelow
  <2> QED BY <1>3, <2>2, QuietStep DEF PublishedOffsets, DoUnassign, pipeline
<1>4. CASE Pause(c) \/ Resume(c)
  <2>2. CommittedDone'
    BY <1>0, <1>4 DEF Pause, Resume, CommittedDone, DoneBelow, kafka
  <2> QED BY <1>4, <2>2, QuietStep DEF Pause, Resume, kafka, pipeline
<1>5. CASE Close(c)
  <2>2. CommittedDone'
    BY <1>0, <1>5 DEF Close, CommittedDone, DoneBelow
  <2> QED BY <1>5, <2>2, QuietStep DEF Close, pipeline
<1>6. CASE SessionExpired(c)
  <2>2. CommittedDone'
    BY <1>0, <1>6 DEF SessionExpired, CommittedDone, DoneBelow
  <2> QED BY <1>6, <2>2, QuietStep DEF SessionExpired, client, pipeline
<1>7. CASE Start(c)
  <2>2. CommittedDone'
    BY <1>0, <1>7 DEF Start, CommittedDone, DoneBelow, kafka
  <2> QED BY <1>7, <2>2, QuietStep DEF Start, kafka
<1>8. CASE DrainTimeout(c)
  <2>2. CommittedDone'
    BY <1>0, <1>8 DEF DrainTimeout, CommitStored, SafeConsumer, CommittedDone, DoneBelow
  <2> QED BY <1>8, <2>2, QuietStep DEF DrainTimeout, pipeline
<1>9. CASE Revoke(c)
  <2>1. CASE Unassign(c, stored[c])
    <3>0. stored' = stored /\ Unassign(c, stored'[c])
      BY <1>9, <2>1 DEF Revoke
    <3>2. CommittedDone'
      BY <1>0, <1>9, <3>0, UnassignEffect DEF Revoke, SafeConsumer, CommittedDone, DoneBelow
    <3> QED BY <1>0, <1>9, <3>0, <3>2, UnassignEffect, QuietStep DEF Revoke, pipeline
  <2>2. CASE /\ rebalance' = [rebalance EXCEPT ![c] = "draining"]
             /\ UNCHANGED <<committed, owner, status, closing>>
    <3>2. CommittedDone'
      BY <1>0, <1>9, <2>2 DEF Revoke, CommittedDone, DoneBelow
    <3> QED BY <1>9, <2>2, <3>2, QuietStep DEF Revoke, pipeline
  <2> QED BY <1>9, <2>1, <2>2 DEF Revoke
<1> QED BY <1>1, <1>2, <1>3, <1>4, <1>5, <1>6, <1>7, <1>8, <1>9

(* Consumption starts at the committed offset, below which all is done *)
LEMMA AssignStep ==
    ASSUME Inv, TypeOK', NEW c \in Consumers, Assign(c)
    PROVE  Inv'
<1> USE ConsumerAssumption
<1>0. TypeOK /\ CommittedDone
  BY DEF Inv
<1>2. CommittedDone'
  BY <1>0 DEF Assign, CommittedDone, DoneBelow
<1>3. ASSUME NEW d \in Consumers, d # c PROVE SafeConsumer(d)'
  BY <1>0, <1>3, Frame DEF Inv, Assign, TypeOK, pipeline
<1>4. SafeConsumer(c)'
  <2>1. SafeConsumer(c) /\ position'[c] = committed /\ stored'[c] = NoOffset
    BY <1>0 DEF Inv, Assign, TypeOK
  <2>2. /\ UNCHANGED <<ledger, iter, fetched, done>>
    BY DEF Assign, pipeline
  <2>3. LedgerSafe(ledger[c])' /\ (iter[c] <= Len(fetched[c]))'
    BY <2>1, <2>2 DEF SafeConsumer, LedgerSafe
  <2>4. DoneBelow(stored[c])'
    BY <2>1 DEF DoneBelow, NoOffset, Offsets
  <2>5. \A x : Link(x, committed)'
    BY <1>2, <1>0, <2>2 DEF Link, CommittedDone, DoneBelow, Assign
  <2>6. Chain(c)'
    <3>1. Chain(c)
      BY <2>1 DEF SafeConsumer
    <3>2. (position[c] = committed)'
      BY <2>1 DEF Assign
    <3> QED BY <2>2, <2>5, <3>1, <3>2 DEF Chain, Link, DoneBelow, Offsets
  <2> QED BY <2>3, <2>4, <2>6 DEF SafeConsumer
<1> QED BY <1>2, <1>3, <1>4 DEF Inv

(* In order, the next message goes to the end of the chain *)
LEMMA FetchStep ==
    ASSUME Inv, TypeOK', NEW c \in Consumers, Fetch(c), ~reordered'
    PROVE  Inv'
<1> USE ConsumerAssumption
<1> DEFINE f == fetched[c]
           x == position[c]
<1>0. TypeOK /\ CommittedDone /\ SafeConsumer(c)
  BY DEF Inv
<1>1. /\ fetched' = [fetched EXCEPT ![c] = Append(f, x)]
      /\ position' = [position EXCEPT ![c] = x + 1]
      /\ owner = c /\ x < MaxOffset
      /\ UNCHANGED <<kafka, ledger, stored, iter, done>>
  BY DEF Fetch, pipeline
<1>2. f \in Seq(Offsets) /\ x \in Offsets /\ x \in Int /\ iter[c] \in Nat
  BY <1>0, <1>1 DEF TypeOK, Offsets
<1>3. /\ fetched'[c] = Append(f, x) /\ position'[c] = x + 1
      /\ Append(f, x) \in Seq(Offsets) /\ x + 1 \in 0 .. MaxOffset
  <2>1. fetched'[c] = Append(f, x) /\ position'[c] = x + 1
    BY <1>0, <1>1 DEF TypeOK
  <2>2. Append(f, x) \in Seq(Offsets)
    BY <1>2
  <2>3. x + 1 \in 0 .. MaxOffset
    BY <1>1, <1>2, ConsumerAssumption DEF Offsets, ConsumerAssumption
  <2> QED BY <2>1, <2>2, <2>3
<1>4. /\ Len(Append(f, x)) = Len(f) + 1 /\ Append(f, x)[Len(f) + 1] = x
      /\ \A i \in 1 .. Len(f) : Append(f, x)[i] = f[i]
      /\ Len(f) \in Nat
  BY <1>2
<1>6. CommittedDone'
  BY <1>0, <1>1 DEF CommittedDone, DoneBelow, kafka
<1>7. ASSUME NEW d \in Consumers, d # c PROVE SafeConsumer(d)'
  BY <1>0, <1>1, <1>7, Frame DEF Inv, TypeOK, kafka
<1>8. SafeConsumer(c)'
  <2>1. LedgerSafe(ledger[c])' /\ DoneBelow(stored[c])'
    BY <1>0, <1>1 DEF SafeConsumer, LedgerSafe, DoneBelow
  <2>2. (iter[c] <= Len(fetched[c]))'
    BY <1>0, <1>1, <1>2, <1>3, <1>4 DEF SafeConsumer
  <2>3. Chain(c)'
    <3> HIDE DEF f, x
    <3>0. \A y, o : Link(y, o)' <=> Link(y, o)
      BY <1>1 DEF Link, DoneBelow
    <3>1. /\ Len(f) > 0 => Link(ledger[c].latestConsumed, f[1])
          /\ \A i \in 1 .. Len(f) - 1 : Link(f[i], f[i + 1])
          /\ Link(IF Len(f) = 0 THEN ledger[c].latestConsumed ELSE f[Len(f)], x)
      BY <1>0, <1>1 DEF SafeConsumer, Chain, f, x
    <3> DEFINE g == Append(f, x)
    <3>2. Link(ledger[c].latestConsumed, g[1])
      BY <1>4, <3>1
    <3>3. ASSUME NEW i \in 1 .. Len(g) - 1 PROVE Link(g[i], g[i + 1])
      <4>1. CASE i = Len(f)
        BY <1>4, <3>1, <4>1
      <4>2. CASE i # Len(f)
        <5>1. i \in 1 .. Len(f) - 1
          BY <1>4, <4>2
        <5>2. g[i] = f[i] /\ g[i + 1] = f[i + 1]
          BY <1>4, <5>1
        <5> QED BY <3>1, <5>1, <5>2
      <4> QED BY <4>1, <4>2
    <3>4. Link(g[Len(g)], x + 1)
      BY <1>4 DEF Link
    <3>5. Len(g) # 0
      BY <1>4
    <3>6. fetched'[c] = g /\ position'[c] = x + 1 /\ ledger' = ledger
      BY <1>1, <1>3
    <3> HIDE DEF g
    <3>7. (Len(fetched[c]) > 0 => Link(ledger[c].latestConsumed, fetched[c][1]))'
      BY <3>0, <3>2, <3>6 DEF Link, DoneBelow, Offsets
    <3>8. (\A i \in 1 .. Len(fetched[c]) - 1 : Link(fetched[c][i], fetched[c][i + 1]))'
      BY <3>0, <3>3, <3>6, <1>1 DEF Link, DoneBelow, Offsets
    <3>9. (Link(IF Len(fetched[c]) = 0 THEN ledger[c].latestConsumed
                                    ELSE fetched[c][Len(fetched[c])], position[c]))'
      BY <3>0, <3>4, <3>5, <3>6, <1>1 DEF Link, DoneBelow, Offsets
    <3> QED BY <3>7, <3>8, <3>9 DEF Chain
  <2> QED BY <2>1, <2>2, <2>3 DEF SafeConsumer
<1> QED BY <1>6, <1>7, <1>8 DEF Inv

(* The answer of consume() hands over messages that are already chained *)
LEMMA ConsumeCallbackStep ==
    ASSUME Inv, TypeOK', NEW c \in Consumers, ConsumeCallback(c)
    PROVE  Inv'
<1> USE ConsumerAssumption
<1> DEFINE n == Head(sizes[c])
           k == IF Len(fetched[c]) < n THEN Len(fetched[c]) ELSE n
<1>0. TypeOK /\ CommittedDone /\ SafeConsumer(c)
  BY DEF Inv
<1>1. n \in 1 .. Concurrency /\ Tail(sizes[c]) \in Seq(1 .. Concurrency)
  <2>1. sizes[c] \in Seq(1 .. Concurrency) /\ sizes[c] # <<>>
    BY <1>0 DEF TypeOK, ConsumeCallback
  <2> QED BY <2>1, HeadTailProperties
<1>2. Len(fetched[c]) \in Nat /\ npending[c] \in Int
  BY <1>0 DEF TypeOK
<1>3. k \in Nat /\ k <= Len(fetched[c])
  BY <1>1, <1>2
<1>4. /\ iter' = [iter EXCEPT ![c] = k]
      /\ npending' = [npending EXCEPT ![c] = @ - n]
      /\ kick' = [kick EXCEPT ![c] = @ \/ k < n]
      /\ sizes' = [sizes EXCEPT ![c] = Tail(@)]
      /\ UNCHANGED <<kafka, client, tasks, deferred, ledger, control, done, restarts, reordered>>
  BY DEF ConsumeCallback
<1> HIDE DEF n, k
<1>6. CommittedDone'
  BY <1>0, <1>4 DEF CommittedDone, DoneBelow, kafka
<1>7. ASSUME NEW d \in Consumers, d # c PROVE SafeConsumer(d)'
  BY <1>0, <1>4, <1>7, Frame DEF Inv, TypeOK, kafka, client
<1>8. SafeConsumer(c)'
  <2>1. LedgerSafe(ledger[c])' /\ DoneBelow(stored[c])' /\ Chain(c)'
    BY <1>0, <1>4 DEF SafeConsumer, LedgerSafe, DoneBelow, Chain, Link, kafka, client
  <2>2. (iter[c] <= Len(fetched[c]))'
    BY <1>0, <1>3, <1>4 DEF TypeOK, client
  <2> QED BY <2>1, <2>2 DEF SafeConsumer
<1> QED BY <1>6, <1>7, <1>8 DEF Inv

(* The head of the chain moves into the ledger *)
LEMMA ConsumeEntryStep ==
    ASSUME Inv, TypeOK', NEW c \in Consumers, ConsumeEntry(c)
    PROVE  Inv'
<1> USE ConsumerAssumption
<1> DEFINE f == fetched[c]
           o == Head(f)
           l == ledger[c]
           m == onOffsetConsumed(l, o)
<1>0. TypeOK /\ CommittedDone /\ SafeConsumer(c)
  BY DEF Inv
<1>1. /\ f \in Seq(Offsets) /\ iter[c] \in Nat /\ Len(f) \in Nat
      /\ iter[c] > 0 /\ iter[c] <= Len(f)
  BY <1>0 DEF TypeOK, SafeConsumer, ConsumeEntry
<1>2. f # <<>> /\ Len(f) > 0 /\ o = f[1] /\ o \in Offsets
  BY <1>1
<1>3. /\ Tail(f) \in Seq(Offsets) /\ Len(Tail(f)) = Len(f) - 1
      /\ \A i \in 1 .. Len(f) - 1 : Tail(f)[i] = f[i + 1]
  BY <1>1, <1>2
<1>4. l \in PartitionLedgers /\ LedgerSafe(l) /\ Link(l.latestConsumed, o)
  BY <1>0, <1>2 DEF TypeOK, PartitionLedgers, SafeConsumer, Chain
<1>5. m \in PartitionLedgers /\ LedgerSafe(m) /\ m.latestConsumed = o
  BY <1>2, <1>4, ConsumedKeepsSafe DEF onOffsetConsumed
<1>6. /\ ledger' = [ledger EXCEPT ![c] = m]
      /\ tasks' = [tasks EXCEPT ![c][o] = @ + 1]
      /\ fetched' = [fetched EXCEPT ![c] = Tail(f)]
      /\ iter' = [iter EXCEPT ![c] = @ - 1]
      /\ UNCHANGED <<kafka, status, subscribed, position, stored, sizes, npending,
                     kick, deferred, control, done, restarts, reordered>>
  BY DEF ConsumeEntry
<1>7. ledger'[c] = m /\ fetched'[c] = Tail(f) /\ iter'[c] = iter[c] - 1
  BY <1>0, <1>6 DEF TypeOK
<1> HIDE DEF f, o, l, m
<1>9. CommittedDone'
  BY <1>0, <1>6 DEF CommittedDone, DoneBelow, kafka
<1>10. ASSUME NEW d \in Consumers, d # c PROVE SafeConsumer(d)'
  BY <1>0, <1>6, <1>10, Frame DEF Inv, TypeOK, kafka
<1>11. SafeConsumer(c)'
  <2>1. LedgerSafe(ledger[c])'
    BY <1>5, <1>6, <1>7 DEF LedgerSafe
  <2>2. DoneBelow(stored[c])'
    BY <1>0, <1>6 DEF SafeConsumer, DoneBelow
  <2>3. (iter[c] <= Len(fetched[c]))'
    BY <1>1, <1>3, <1>7
  <2>4. Chain(c)'
    <3>1. /\ \A i \in 1 .. Len(f) - 1 : Link(f[i], f[i + 1])
          /\ owner = c => Link(f[Len(f)], position[c])
      BY <1>0, <1>2 DEF SafeConsumer, Chain, f
    <3> DEFINE g == Tail(f)
    <3>2. Len(g) > 0 => Link(o, g[1])
      <4> SUFFICES ASSUME Len(g) > 0 PROVE Link(o, g[1])
        OBVIOUS
      <4>1. 1 \in 1 .. Len(f) - 1
        BY <1>1, <1>3
      <4> QED BY <1>2, <1>3, <3>1, <4>1
    <3>3. ASSUME NEW i \in 1 .. Len(g) - 1 PROVE Link(g[i], g[i + 1])
      <4>1. i \in 1 .. Len(f) - 1 /\ i + 1 \in 1 .. Len(f) - 1
        BY <1>1, <1>3
      <4>2. g[i] = f[i + 1] /\ g[i + 1] = f[i + 2]
        BY <1>3, <4>1
      <4> QED BY <3>1, <4>1, <4>2
    <3>4. owner = c => Link(IF Len(g) = 0 THEN o ELSE g[Len(g)], position[c])
      <4>1. CASE Len(g) = 0
        <5>0. Len(f) - 1 = 0
          BY <1>3, <4>1
        <5>1. Len(f) = 1
          BY <1>1, <5>0
        <5> QED BY <1>2, <3>1, <4>1, <5>1
      <4>2. CASE Len(g) # 0
        <5>1. Len(g) \in 1 .. Len(f) - 1
          BY <1>1, <1>3, <4>2
        <5> QED BY <1>3, <3>1, <4>2, <5>1
      <4> QED BY <4>1, <4>2
    <3>5. fetched'[c] = g /\ ledger'[c].latestConsumed = o
      BY <1>5, <1>7
    <3> HIDE DEF g
    <3>6. (Len(fetched[c]) > 0 => Link(ledger[c].latestConsumed, fetched[c][1]))'
      BY <3>2, <3>5, <1>6 DEF Link, DoneBelow, Offsets
    <3>7. (\A i \in 1 .. Len(fetched[c]) - 1 : Link(fetched[c][i], fetched[c][i + 1]))'
      BY <3>3, <3>5, <1>6 DEF Link, DoneBelow, Offsets
    <3>8. (owner = c => Link(IF Len(fetched[c]) = 0 THEN ledger[c].latestConsumed
                                    ELSE fetched[c][Len(fetched[c])], position[c]))'
      BY <3>4, <3>5, <1>6 DEF Link, DoneBelow, Offsets, kafka
    <3> QED BY <3>6, <3>7, <3>8 DEF Chain
  <2> QED BY <2>1, <2>2, <2>3, <2>4 DEF SafeConsumer
<1> QED BY <1>9, <1>10, <1>11 DEF Inv

(* onEntryCommittable: a message leaves the ledger when it is done, and    *)
(* what is stored is the committable offset of a safe ledger               *)
LEMMA CommittableEffect ==
    ASSUME Inv, NEW c \in Consumers, NEW o \in Offsets, Committable(c, o)
    PROVE  /\ done' \in SUBSET Offsets /\ done \subseteq done'
           /\ ledger' \in [Consumers -> PartitionLedgers]
           /\ stored' \in [Consumers -> (0 .. MaxOffset) \cup {NoOffset}]
           /\ \A d \in Consumers \ {c} : ledger'[d] = ledger[d] /\ stored'[d] = stored[d]
           /\ ledger'[c].latestConsumed = ledger[c].latestConsumed
           /\ LedgerSafe(ledger[c])'
           /\ DoneBelow(stored[c])'
<1> USE ConsumerAssumption
<1> DEFINE l == ledger[c]
           m == onOffsetProcessed(l, o)
<1>0. TypeOK /\ SafeConsumer(c)
  BY DEF Inv
<1>1. l \in PartitionLedgers /\ LedgerSafe(l)
  BY <1>0 DEF TypeOK, PartitionLedgers, SafeConsumer
<1>2. done' = done \cup {o} /\ done' \in SUBSET Offsets
  BY <1>0 DEF Committable, TypeOK
<1>3. /\ m \in PartitionLedgers /\ m.latestConsumed = l.latestConsumed
      /\ m.processing = l.processing \ {o}
  BY <1>1 DEF onOffsetProcessed, PartitionLedgers
<1>4. ledger' = [ledger EXCEPT ![c] = m]
  BY DEF Committable
<1> HIDE DEF m
<1>5. ledger'[c] = m /\ ledger' \in [Consumers -> PartitionLedgers]
  BY <1>0, <1>3, <1>4 DEF TypeOK, PartitionLedgers
<1>6. /\ \A q \in Offsets : q <= m.latestConsumed => q \in done' \/ q \in m.processing
      /\ \A q \in m.processing : q <= m.latestConsumed
  BY <1>1, <1>2, <1>3 DEF LedgerSafe
<1>7. LedgerSafe(ledger[c])'
  BY <1>5, <1>6 DEF LedgerSafe
<1>8. /\ getCommittableOffset(m) \in (0 .. MaxOffset) \cup {NoOffset}
      /\ \A q \in Offsets : q < getCommittableOffset(m) => q \in done'
  BY <1>3, <1>6, CommittableOver
<1>9. /\ stored' \in [Consumers -> (0 .. MaxOffset) \cup {NoOffset}]
      /\ stored'[c] \in {stored[c], getCommittableOffset(m)}
      /\ \A d \in Consumers \ {c} : stored'[d] = stored[d]
  <2>1. stored' = [stored EXCEPT ![c] =
                    IF subscribed[c] /\ owner = c /\ status[c] = "connected"
                    THEN getCommittableOffset(m) ELSE @]
    BY <1>5 DEF Committable
  <2> QED BY <1>0, <1>8, <2>1 DEF TypeOK
<1>10. DoneBelow(stored[c])'
  <2>1. DoneBelow(stored[c])
    BY <1>0 DEF SafeConsumer
  <2> QED BY <1>2, <1>8, <1>9, <2>1 DEF DoneBelow
<1> QED BY <1>0, <1>2, <1>3, <1>4, <1>5, <1>7, <1>9, <1>10 DEF TypeOK

(* A safe ledger with the same latest offset keeps the chain *)
LEMMA ChainKept ==
    ASSUME NEW c \in Consumers, Chain(c), done \subseteq done',
           ledger'[c].latestConsumed = ledger[c].latestConsumed,
           fetched' = fetched, position' = position, owner' = c => owner = c
    PROVE  Chain(c)'
<1>1. \A x, o : Link(x, o) => Link(x, o)'
  BY DoneGrows DEF Link
<1>2. (Len(fetched[c]) > 0 => Link(ledger[c].latestConsumed, fetched[c][1]))'
  BY <1>1 DEF Chain, Link, DoneBelow, Offsets
<1>3. (\A i \in 1 .. Len(fetched[c]) - 1 : Link(fetched[c][i], fetched[c][i + 1]))'
  BY <1>1 DEF Chain, Link, DoneBelow, Offsets
<1>4. (owner = c =>
        Link(IF Len(fetched[c]) = 0 THEN ledger[c].latestConsumed
                                    ELSE fetched[c][Len(fetched[c])], position[c]))'
  BY <1>1 DEF Chain, Link, DoneBelow, Offsets
<1> QED BY <1>2, <1>3, <1>4 DEF Chain

(* A deferred entry becomes committable after its task has ended *)
LEMMA EntryCommittableStep ==
    ASSUME Inv, TypeOK', NEW c \in Consumers, NEW o \in Offsets, EntryCommittable(c, o)
    PROVE  Inv'
<1>0. TypeOK /\ CommittedDone /\ SafeConsumer(c) /\ Committable(c, o)
  BY DEF Inv, EntryCommittable
<1>2. CommittedDone'
  BY <1>0, CommittableEffect DEF EntryCommittable, CommittedDone, DoneBelow, kafka
<1>3. ASSUME NEW d \in Consumers, d # c PROVE SafeConsumer(d)'
  <2>1. done \subseteq done' /\ ledger'[d] = ledger[d] /\ stored'[d] = stored[d]
    BY <1>0, <1>3, CommittableEffect
  <2> QED BY <2>1, Frame DEF Inv, EntryCommittable, kafka
<1>4. SafeConsumer(c)'
  <2>1. Chain(c)'
    BY <1>0, CommittableEffect, ChainKept DEF SafeConsumer, EntryCommittable, kafka
  <2>2. (iter[c] <= Len(fetched[c]))'
    BY <1>0 DEF SafeConsumer, EntryCommittable
  <2> QED BY <1>0, <2>1, <2>2, CommittableEffect DEF SafeConsumer
<1> QED BY <1>2, <1>3, <1>4 DEF Inv

(* A task ends, its message is committable, and the drain may end with it: *)
(* the offset the drain callback commits is the one stored just before     *)
LEMMA TaskDoneStep ==
    ASSUME Inv, TypeOK', NEW c \in Consumers, NEW o \in Offsets, TaskDone(c, o)
    PROVE  Inv'
<1> USE ConsumerAssumption
<1>0. TypeOK /\ CommittedDone /\ SafeConsumer(c) /\ Committable(c, o) /\ AfterTask(c)
  BY DEF Inv, TaskDone
<1>1. /\ done' \in SUBSET Offsets /\ done \subseteq done'
      /\ ledger' \in [Consumers -> PartitionLedgers]
      /\ stored' \in [Consumers -> (0 .. MaxOffset) \cup {NoOffset}]
      /\ \A d \in Consumers \ {c} : ledger'[d] = ledger[d] /\ stored'[d] = stored[d]
      /\ ledger'[c].latestConsumed = ledger[c].latestConsumed
      /\ LedgerSafe(ledger[c])'
      /\ DoneBelow(stored[c])'
  BY <1>0, CommittableEffect
<1>2. /\ committed' \in {committed, stored'[c]} /\ committed' \in 0 .. MaxOffset
      /\ owner' \in {owner, None}
      /\ rebalance' \in [Consumers -> {"none", "revoking", "draining", "publishing"}]
      /\ status' \in [Consumers -> {"connected", "disconnected", "down"}]
      /\ closing' \in [Consumers -> BOOLEAN]
  BY <1>0, <1>1, AfterTaskEffect
<1>4. CommittedDone'
  BY <1>0, <1>1, <1>2 DEF CommittedDone, DoneBelow
<1>5. owner' \in Consumers => owner' = owner
  BY <1>2
<1>6. ASSUME NEW d \in Consumers, d # c PROVE SafeConsumer(d)'
  BY <1>1, <1>5, <1>6, Frame DEF Inv, TaskDone
<1>7. SafeConsumer(c)'
  <2>1. Chain(c)'
    BY <1>0, <1>1, <1>5, ChainKept DEF SafeConsumer, TaskDone
  <2>2. (iter[c] <= Len(fetched[c]))'
    BY <1>0 DEF SafeConsumer, TaskDone
  <2> QED BY <1>1, <2>1, <2>2 DEF SafeConsumer
<1> QED BY <1>4, <1>6, <1>7 DEF Inv

(* A task ends with {committable: false}: its message stays in the ledger *)
LEMMA TaskDoneDeferredStep ==
    ASSUME Inv, TypeOK', NEW c \in Consumers, NEW o \in Offsets, TaskDoneDeferred(c, o)
    PROVE  Inv'
<1> USE ConsumerAssumption
<1>0. TypeOK /\ CommittedDone /\ SafeConsumer(c) /\ AfterTask(c) /\ stored' = stored
  BY DEF Inv, TaskDoneDeferred
<1>1. /\ committed' \in {committed, stored'[c]} /\ committed' \in 0 .. MaxOffset
      /\ owner' \in {owner, None}
      /\ rebalance' \in [Consumers -> {"none", "revoking", "draining", "publishing"}]
      /\ status' \in [Consumers -> {"connected", "disconnected", "down"}]
      /\ closing' \in [Consumers -> BOOLEAN]
  BY <1>0, AfterTaskEffect DEF TypeOK
<1>3. CommittedDone'
  BY <1>0, <1>1 DEF CommittedDone, DoneBelow, SafeConsumer, TaskDoneDeferred
<1> QED BY <1>1, <1>3, QuietStep DEF TaskDoneDeferred

(* A crash loses the pipeline; the new process has an empty ledger *)
LEMMA CrashStep ==
    ASSUME Inv, TypeOK', NEW c \in Consumers, Crash(c)
    PROVE  Inv'
<1> USE ConsumerAssumption
<1>0. TypeOK /\ CommittedDone
  BY DEF Inv
<1>2. CommittedDone'
  BY <1>0 DEF Crash, CommittedDone, DoneBelow, kafka
<1>3. ASSUME NEW d \in Consumers, d # c PROVE SafeConsumer(d)'
  BY <1>0, <1>3, Frame DEF Inv, Crash, TypeOK, kafka
<1>4. SafeConsumer(c)'
  <2>1. /\ ledger'[c] = NewLedger /\ stored'[c] = NoOffset /\ iter'[c] = 0
        /\ fetched'[c] = <<>> /\ position'[c] = 0
    BY <1>0 DEF Crash, TypeOK
  <2>2. LedgerSafe(ledger[c])' /\ DoneBelow(stored[c])'
    BY <2>1 DEF LedgerSafe, DoneBelow, NewLedger, NoOffset, Offsets
  <2>3. Chain(c)' /\ (iter[c] <= Len(fetched[c]))'
    BY <2>1 DEF Chain, Link, NewLedger, NoOffset
  <2> QED BY <2>2, <2>3 DEF SafeConsumer
<1> QED BY <1>2, <1>3, <1>4 DEF Inv

(* Nothing is consumed, stored or committed at first *)
LEMMA InitInv == Init => Inv
<1> SUFFICES ASSUME Init PROVE Inv
  OBVIOUS
<1> USE ConsumerAssumption
<1>1. TypeOK
  <2>1. NewLedger \in PartitionLedgers
    BY DEF NewLedger, PartitionLedgers
  <2>2. reordered \in BOOLEAN /\ done \in SUBSET Offsets
    BY DEF Init
  <2>3. /\ ledger \in [Consumers -> PartitionLedgers]
        /\ fetched \in [Consumers -> Seq(Offsets)]
        /\ sizes \in [Consumers -> Seq(1 .. Concurrency)]
    BY <2>1 DEF Init
  <2> QED BY <2>2, <2>3 DEF Init, TypeOK, PartitionLedgers, NoTasks, NoOffset
<1>2. CommittedDone
  BY DEF Init, CommittedDone, DoneBelow, Offsets
<1>3. ASSUME NEW c \in Consumers PROVE SafeConsumer(c)
  <2>1. /\ ledger[c] = NewLedger /\ stored[c] = NoOffset /\ iter[c] = 0
        /\ fetched[c] = <<>> /\ position[c] = 0
    BY DEF Init
  <2> QED BY <2>1 DEF SafeConsumer, LedgerSafe, Chain, Link, DoneBelow, NewLedger,
                      NoOffset, Offsets
<1> QED BY <1>1, <1>2, <1>3 DEF Inv

(* One step per action of Next: each of the lemmas above is one of them *)
LEMMA NextInv ==
    ASSUME Inv, [Next]_vars, ~reordered'
    PROVE  Inv'
<1>0. TypeOK'
  BY TypesKept DEF Inv, SafeConsumer
<1>1. CASE UNCHANGED vars
  <2>1. CommittedDone'
    BY <1>1 DEF Inv, CommittedDone, DoneBelow, vars, kafka
  <2> QED BY <1>0, <1>1, <2>1, QuietStep, ConsumerAssumption DEF vars, kafka, client, pipeline
<1>2. CASE Next
  <2>1. PICK c \in Consumers :
          \/ Assign(c) \/ Fetch(c) \/ AutoCommit(c)
          \/ TryConsume(c) \/ ConsumeCallback(c) \/ ConsumeEntry(c)
          \/ \E o \in Offsets : TaskDone(c, o) \/ TaskDoneDeferred(c, o)
                                \/ EntryCommittable(c, o)
          \/ Revoke(c) \/ PublishedOffsets(c) \/ DrainTimeout(c)
          \/ Pause(c) \/ Resume(c) \/ Close(c)
          \/ Crash(c) \/ SessionExpired(c) \/ Start(c)
    BY <1>2 DEF Next
  <2> QED BY <1>0, <2>1, AssignStep, FetchStep, ConsumeCallbackStep, ConsumeEntryStep,
             TaskDoneStep, TaskDoneDeferredStep, EntryCommittableStep, CrashStep,
             QuietActions
<1> QED BY <1>1, <1>2

-----------------------------------------------------------------------------
(* The theorems *)

(* Messages stay out of order once they have been *)
LEMMA ReorderedStays ==
    ASSUME [Next]_vars
    PROVE  reordered' = reordered \/ reordered' = TRUE
<1>1. CASE UNCHANGED vars
  BY <1>1 DEF vars
<1>2. ASSUME NEW c \in Consumers, Fetch(c)
      PROVE  reordered' = reordered \/ reordered' = TRUE
  BY <1>2 DEF Fetch
<1>3. ASSUME NEW c \in Consumers,
             \/ Assign(c) \/ AutoCommit(c) \/ TryConsume(c) \/ ConsumeCallback(c)
             \/ ConsumeEntry(c)
             \/ \E o \in Offsets : TaskDone(c, o) \/ TaskDoneDeferred(c, o)
                                   \/ EntryCommittable(c, o)
      PROVE  reordered' = reordered
  BY <1>3 DEF Assign, AutoCommit, TryConsume, ConsumeCallback, ConsumeEntry,
              TaskDone, TaskDoneDeferred, EntryCommittable
<1>4. ASSUME NEW c \in Consumers,
             \/ Revoke(c) \/ PublishedOffsets(c) \/ DrainTimeout(c)
             \/ Pause(c) \/ Resume(c) \/ Close(c)
             \/ Crash(c) \/ SessionExpired(c) \/ Start(c)
      PROVE  reordered' = reordered
  BY <1>4 DEF Revoke, PublishedOffsets, DrainTimeout, Pause, Resume, Close, Crash,
              SessionExpired, Start
<1> QED BY <1>1, <1>2, <1>3, <1>4 DEF Next

(* The inductive invariant holds until consume() calls that run side by    *)
(* side hand a message over before an earlier one: the ledger, the stored  *)
(* offset and the chain of in-flight messages of every consumer are safe   *)
THEOREM ConsumerInvariant == Spec => [](reordered \/ Inv)
<1>1. (reordered \/ Inv) /\ [Next]_vars => (reordered \/ Inv)'
  <2> SUFFICES ASSUME reordered \/ Inv, [Next]_vars, ~reordered' PROVE Inv'
    OBVIOUS
  <2>1. ~reordered
    BY ReorderedStays
  <2> QED BY <2>1, NextInv
<1> QED BY <1>1, InitInv, PTL DEF Spec

(* No message below the committed offset is unprocessed, for any number of *)
(* consumers, messages, slots, rebalances and crashes, unless messages     *)
(* were handed over out of order                                           *)
THEOREM ConsumerAtLeastOnce == Spec => []AtLeastOnce
<1>1. (reordered \/ Inv) => AtLeastOnce
  BY DEF Inv, AtLeastOnce, CommittedDone
<1> QED BY <1>1, ConsumerInvariant, PTL

-----------------------------------------------------------------------------
(* The consumption loop: its bound, and that it never stalls.  The messages *)
(* of the pipeline are those in the queue, those of the running consume()  *)
(* callback and those the outstanding calls ask for                        *)

(* n is the sum of the sizes q: f holds the partial sums, which only grow *)
SumsTo(q, n) == \E f \in [0 .. Len(q) -> Int] :
    /\ f[0] = 0 /\ f[Len(q)] = n
    /\ \A i \in 1 .. Len(q) : f[i] = f[i - 1] + q[i]
    /\ \A i, j \in 0 .. Len(q) : i <= j => f[i] <= f[j]

(* No outstanding call asks for nothing, and no call asks for less *)
LEMMA SumsToNothing ==
    /\ SumsTo(<<>>, 0)
    /\ \A q, n : SumsTo(q, n) => n \in Int /\ (q = <<>> => n = 0)
<1>1. SumsTo(<<>>, 0)
  <2> DEFINE f == [i \in 0 .. 0 |-> 0]
  <2>1. Len(<<>>) = 0 /\ f \in [0 .. 0 -> Int] /\ f[0] = 0
    OBVIOUS
  <2>2. \A q : Len(q) = 0 => SumsTo(q, 0)
    <3> HIDE DEF f
    <3> QED BY <2>1 DEF SumsTo
  <2> QED BY <2>1, <2>2
<1>2. ASSUME NEW n, SumsTo(<<>>, n) PROVE n = 0
  BY <1>2 DEF SumsTo
<1>3. ASSUME NEW q, NEW n, SumsTo(q, n) PROVE n \in Int
  BY <1>3 DEF SumsTo
<1> QED BY <1>1, <1>2, <1>3

(* One more call adds its size *)
LEMMA SumsToAppend ==
    ASSUME NEW q \in Seq(Nat), NEW n, SumsTo(q, n), NEW k \in Nat
    PROVE  SumsTo(Append(q, k), n + k)
<1> DEFINE s == Append(q, k)
<1>1. PICK f \in [0 .. Len(q) -> Int] :
        /\ f[0] = 0 /\ f[Len(q)] = n
        /\ \A i \in 1 .. Len(q) : f[i] = f[i - 1] + q[i]
        /\ \A i, j \in 0 .. Len(q) : i <= j => f[i] <= f[j]
  BY DEF SumsTo
<1>2. /\ Len(q) \in Nat /\ n \in Int /\ Len(s) = Len(q) + 1 /\ s[Len(q) + 1] = k
      /\ \A i \in 1 .. Len(q) : s[i] = q[i]
  BY <1>1
<1> HIDE DEF s
<1> DEFINE g == [i \in 0 .. Len(q) + 1 |-> IF i = Len(q) + 1 THEN n + k ELSE f[i]]
<1>3. g \in [0 .. Len(s) -> Int] /\ g[0] = 0 /\ g[Len(s)] = n + k
  BY <1>1, <1>2
<1>4. ASSUME NEW i \in 1 .. Len(s) PROVE g[i] = g[i - 1] + s[i]
  <2>1. CASE i = Len(q) + 1
    BY <2>1, <1>1, <1>2
  <2>2. CASE i # Len(q) + 1
    <3>1. i \in 1 .. Len(q) /\ i - 1 \in 0 .. Len(q)
      BY <2>2, <1>2
    <3>2. g[i] = f[i] /\ g[i - 1] = f[i - 1] /\ s[i] = q[i]
      BY <3>1, <1>2
    <3> QED BY <3>1, <3>2, <1>1
  <2> QED BY <2>1, <2>2
<1>5. ASSUME NEW i \in 0 .. Len(s), NEW j \in 0 .. Len(s), i <= j PROVE g[i] <= g[j]
  <2>1. CASE j = Len(q) + 1 /\ i # Len(q) + 1
    <3>1. i \in 0 .. Len(q) /\ Len(q) \in 0 .. Len(q) /\ i <= Len(q)
      BY <2>1, <1>2
    <3>2. f[i] <= n /\ f[i] \in Int /\ g[i] = f[i] /\ g[j] = n + k
      BY <2>1, <3>1, <1>1, <1>2
    <3> QED BY <3>2, <1>2
  <2>2. CASE j = Len(q) + 1 /\ i = Len(q) + 1
    BY <2>2, <1>2
  <2>3. CASE j # Len(q) + 1
    <3>1. i \in 0 .. Len(q) /\ j \in 0 .. Len(q)
      BY <2>3, <1>2, <1>5
    <3> QED BY <3>1, <1>1, <1>2, <1>5
  <2> QED BY <2>1, <2>2, <2>3
<1> HIDE DEF g
<1> QED BY <1>3, <1>4, <1>5 DEF SumsTo, s

(* The answer of the oldest call takes its size away *)
LEMMA SumsToTail ==
    ASSUME NEW q \in Seq(Nat), q # <<>>, NEW n, SumsTo(q, n)
    PROVE  SumsTo(Tail(q), n - Head(q)) /\ Head(q) <= n
<1> DEFINE s == Tail(q)
           h == Head(q)
<1>1. PICK f \in [0 .. Len(q) -> Int] :
        /\ f[0] = 0 /\ f[Len(q)] = n
        /\ \A i \in 1 .. Len(q) : f[i] = f[i - 1] + q[i]
        /\ \A i, j \in 0 .. Len(q) : i <= j => f[i] <= f[j]
  BY DEF SumsTo
<1>2. /\ Len(q) \in Nat \ {0} /\ n \in Int /\ Len(s) = Len(q) - 1 /\ h \in Nat /\ h = q[1]
      /\ \A i \in 1 .. Len(q) - 1 : s[i] = q[i + 1]
  <2>1. /\ Len(q) \in Nat /\ Len(q) # 0
    BY EmptySeq
  <2>2. n \in Int
    BY <1>1, <2>1
  <2>3. h \in Nat /\ h = q[1]
    BY <2>1
  <2>4. Len(s) = Len(q) - 1 /\ \A i \in 1 .. Len(q) - 1 : s[i] = q[i + 1]
    BY <2>1, HeadTailProperties
  <2> QED BY <2>1, <2>2, <2>3, <2>4
<1> HIDE DEF s, h
<1>3. f[1] = h /\ h <= n
  <2>1. 1 \in 1 .. Len(q) /\ 1 \in 0 .. Len(q) /\ Len(q) \in 0 .. Len(q)
    BY <1>2
  <2>2. f[1] = h
    BY <2>1, <1>1, <1>2
  <2> QED BY <2>1, <2>2, <1>1, <1>2
<1> DEFINE g == [i \in 0 .. Len(q) - 1 |-> f[i + 1] - h]
<1>4. \A i \in 0 .. Len(q) - 1 : i + 1 \in 0 .. Len(q) /\ f[i + 1] \in Int
  <2>1. \A i \in 0 .. Len(q) : f[i] \in Int
    BY <1>1
  <2>2. \A i \in 0 .. Len(q) - 1 : i + 1 \in 0 .. Len(q)
    BY <1>2
  <2> QED BY <2>1, <2>2
<1>5. g \in [0 .. Len(s) -> Int] /\ g[0] = 0 /\ g[Len(s)] = n - h
  <2>1. g \in [0 .. Len(q) - 1 -> Int]
    BY <1>2, <1>4
  <2>2. 0 \in 0 .. Len(q) - 1 /\ Len(q) - 1 \in 0 .. Len(q) - 1 /\ Len(q) - 1 + 1 = Len(q)
    BY <1>2
  <2>3. g[0] = f[1] - h /\ g[Len(q) - 1] = f[Len(q)] - h
    BY <2>2
  <2>4. g[0] = 0 /\ g[Len(q) - 1] = n - h
    BY <2>3, <1>1, <1>2, <1>3
  <2> QED BY <2>1, <2>4, <1>2, Zenon
<1>6. ASSUME NEW i \in 1 .. Len(s) PROVE g[i] = g[i - 1] + s[i]
  <2>1. i \in 0 .. Len(q) - 1 /\ i - 1 \in 0 .. Len(q) - 1 /\ i + 1 \in 1 .. Len(q)
        /\ i + 1 - 1 = i /\ i - 1 + 1 = i
    BY <1>2
  <2>2. f[i + 1] = f[i] + q[i + 1] /\ s[i] = q[i + 1] /\ f[i] \in Int /\ q[i + 1] \in Int
    <3>1. f[i + 1] = f[i] + q[i + 1]
      <4>1. PICK k \in 1 .. Len(q) : k = i + 1 /\ k - 1 = i
        BY <2>1
      <4>2. f[k] = f[k - 1] + q[k]
        BY <1>1
      <4> QED BY <4>1, <4>2
    <3>2. i \in 1 .. Len(q) - 1 /\ i \in 0 .. Len(q)
      BY <2>1, <1>2
    <3>3. f[i] \in Int /\ s[i] = q[i + 1]
      BY <3>2, <1>1, <1>2
    <3>4. q[i + 1] \in Int
      BY <2>1
    <3> QED BY <2>1, <3>1, <3>3, <3>4
  <2>3. g[i] = f[i + 1] - h /\ g[i - 1] = f[i] - h
    BY <2>1
  <2> QED BY <2>2, <2>3, <1>2
<1>7. ASSUME NEW i \in 0 .. Len(s), NEW j \in 0 .. Len(s), i <= j PROVE g[i] <= g[j]
  <2>1. i + 1 \in 0 .. Len(q) /\ j + 1 \in 0 .. Len(q) /\ i + 1 <= j + 1
    BY <1>2, <1>7
  <2>2. f[i + 1] <= f[j + 1] /\ f[i + 1] \in Int /\ f[j + 1] \in Int
    BY <2>1, <1>1
  <2>3. g[i] = f[i + 1] - h /\ g[j] = f[j + 1] - h
    BY <1>2
  <2> QED BY <2>2, <2>3, <1>2
<1> HIDE DEF g
<1>8. SumsTo(s, n - h)
  BY <1>5, <1>6, <1>7 DEF SumsTo
<1> QED BY <1>3, <1>8 DEF s, h

(* What a consumer holds fits in its pipeline; it knows how much it has    *)
(* asked for; and when it is up something will call _tryConsume            *)
Flow(c) ==
    /\ iter[c] <= Len(fetched[c])
    /\ SumsTo(sizes[c], npending[c])
    /\ Load(c) + npending[c] + iter[c] <= Concurrency
    /\ status[c] # "down" =>
        kick[c] \/ sizes[c] # <<>> \/ iter[c] > 0 \/ ~QueueIdle(tasks[c])

FlowInv == TypeOK /\ \A c \in Consumers : Flow(c)

(* The load is a sum over the offsets, which a task's start or end moves   *)
(* by one                                                                  *)
LEMMA LoadFacts ==
    ASSUME NEW t \in [Offsets -> Nat]
    PROVE  /\ SumOver(t, Offsets) \in Nat
           /\ QueueIdle(t) => SumOver(t, Offsets) = 0
           /\ \A o \in Offsets : SumOver([t EXCEPT ![o] = @ + 1], Offsets) = SumOver(t, Offsets) + 1
           /\ \A o \in Offsets : t[o] > 0 =>
                SumOver([t EXCEPT ![o] = @ - 1], Offsets) = SumOver(t, Offsets) - 1
<1> USE ConsumerAssumption
<1>1. IsFiniteSet(Offsets)
  BY FS_Interval DEF Offsets
<1>2. SumOver(t, Offsets) \in Nat /\ (QueueIdle(t) => SumOver(t, Offsets) = 0)
  BY <1>1, SumOverType, SumOverZero DEF QueueIdle
<1>3. ASSUME NEW o \in Offsets
      PROVE  SumOver([t EXCEPT ![o] = @ + 1], Offsets) = SumOver(t, Offsets) + 1
  <2>1. t[o] + 1 \in Nat /\ 1 \in Int
    OBVIOUS
  <2> QED BY <1>1, <2>1, SumOverUpdate
<1>4. ASSUME NEW o \in Offsets, t[o] > 0
      PROVE  SumOver([t EXCEPT ![o] = @ - 1], Offsets) = SumOver(t, Offsets) - 1
  <2>1. t[o] + (-1) \in Nat /\ -1 \in Int
    BY <1>4
  <2>2. SumOver([t EXCEPT ![o] = @ + (-1)], Offsets) = SumOver(t, Offsets) + (-1)
    BY <1>1, <2>1, SumOverUpdate
  <2>3. [t EXCEPT ![o] = @ + (-1)] = [t EXCEPT ![o] = @ - 1]
    <3>1. t[o] + (-1) = t[o] - 1
      OBVIOUS
    <3> QED BY <3>1
  <2>4. SumOver(t, Offsets) + (-1) = SumOver(t, Offsets) - 1
    BY <1>2
  <2> QED BY <2>2, <2>3, <2>4
<1> QED BY <1>2, <1>3, <1>4

(* The operator of the specification is the sum of those lemmas *)
LEMMA LoadIsSum ==
    ASSUME NEW c \in Consumers
    PROVE  Load(c) = SumOver(tasks[c], Offsets) /\ Load(c)' = SumOver(tasks'[c], Offsets)
<1>1. Load(c) = SumOver(tasks[c], Offsets)
  BY DEF Load, SumOver, MapThenSumSet, MapThenFoldSet
<1>2. Load(c)' = SumOver(tasks'[c], Offsets)
  BY DEF Load, SumOver, MapThenSumSet, MapThenFoldSet, Offsets
<1> QED BY <1>1, <1>2

(* A consumer whose pipeline a step leaves alone still flows, when the     *)
(* step fetches, schedules _tryConsume, or starts or stops a process       *)
LEMMA FlowFrame ==
    ASSUME NEW c \in Consumers, Flow(c), TypeOK, TypeOK',
           iter'[c] = iter[c], sizes'[c] = sizes[c], npending'[c] = npending[c],
           tasks'[c] = tasks[c], Len(fetched[c]) <= Len(fetched'[c]),
           kick[c] => kick'[c],
           status'[c] # "down" => status[c] # "down" \/ kick'[c]
    PROVE  Flow(c)'
<1>1. Load(c)' = Load(c)
  BY LoadIsSum
<1>2. (iter[c] <= Len(fetched[c]))'
  <2>1. iter[c] \in Nat /\ fetched[c] \in Seq(Offsets)
    BY DEF TypeOK
  <2>2. fetched'[c] \in Seq(Offsets)
    BY DEF TypeOK, Offsets
  <2>3. Len(fetched[c]) \in Nat /\ Len(fetched'[c]) \in Nat
    BY <2>1, <2>2, LenProperties
  <2> QED BY <2>1, <2>3 DEF Flow
<1>3. SumsTo(sizes[c], npending[c])'
  BY DEF Flow, SumsTo
<1>4. (status[c] # "down" =>
        kick[c] \/ sizes[c] # <<>> \/ iter[c] > 0 \/ ~QueueIdle(tasks[c]))'
  BY DEF Flow, QueueIdle
<1>5. (Load(c) + npending[c] + iter[c] <= Concurrency)'
  BY <1>1 DEF Flow
<1> QED BY <1>2, <1>3, <1>4, <1>5 DEF Flow

(* Assignment, background commits, deferred completions, rebalances, pause, *)
(* resume, close, the end of a session and the start of a process          *)
LEMMA FlowQuiet ==
    ASSUME FlowInv, TypeOK', NEW c \in Consumers, NEW d \in Consumers,
           \/ Assign(c) \/ AutoCommit(c) \/ Revoke(c) \/ PublishedOffsets(c)
           \/ DrainTimeout(c) \/ Pause(c) \/ Resume(c) \/ Close(c)
           \/ SessionExpired(c) \/ Start(c)
           \/ \E o \in Offsets : EntryCommittable(c, o)
    PROVE  Flow(d)'
<1>0. TypeOK /\ Flow(d)
  BY DEF FlowInv
<1>1. UNCHANGED <<fetched, sizes, npending, iter, tasks>>
  BY DEF Assign, AutoCommit, Revoke, PublishedOffsets, DrainTimeout, Pause, Resume, Close,
         SessionExpired, Start, EntryCommittable, kafka, client, pipeline, control
<1>2. kick[d] => kick'[d]
  BY <1>0 DEF Assign, AutoCommit, Revoke, PublishedOffsets, DrainTimeout, Pause, Resume, Close,
         SessionExpired, Start, EntryCommittable, kafka, client, pipeline, control, TypeOK
<1>3. status'[d] # "down" => status[d] # "down" \/ kick'[d]
  <2>1. CASE Assign(c) \/ AutoCommit(c) \/ Pause(c) \/ Resume(c) \/ SessionExpired(c)
             \/ \E o \in Offsets : EntryCommittable(c, o)
    BY <2>1 DEF Assign, AutoCommit, Pause, Resume, SessionExpired, EntryCommittable, client
  <2>2. CASE Revoke(c) \/ PublishedOffsets(c) \/ DrainTimeout(c) \/ Close(c)
    <3>1. status[c] # "down" /\ \A e \in Consumers \ {c} : status'[e] = status[e]
      BY <1>0, <2>2 DEF Revoke, Unassign, DoUnassign, PublishedOffsets, DrainTimeout, Close, JsIdle, TypeOK
    <3> QED BY <3>1
  <2>3. CASE Start(c)
    BY <1>0, <2>3 DEF Start, TypeOK
  <2> QED BY <2>1, <2>2, <2>3
<1>4. Len(fetched[d]) <= Len(fetched'[d])
  <2>1. Len(fetched[d]) \in Nat
    BY <1>0 DEF TypeOK
  <2> QED BY <1>1, <2>1
<1> QED BY <1>0, <1>1, <1>2, <1>3, <1>4, FlowFrame

(* Fetching only makes the answers longer *)
LEMMA FlowFetch ==
    ASSUME FlowInv, TypeOK', NEW c \in Consumers, NEW d \in Consumers, Fetch(c)
    PROVE  Flow(d)'
<1>0. TypeOK /\ Flow(d)
  BY DEF FlowInv
<1>1. UNCHANGED <<status, sizes, npending, iter, kick, tasks>>
  BY DEF Fetch, pipeline
<1>2. Len(fetched[d]) <= Len(fetched'[d])
  <2>1. Len(fetched[d]) \in Nat
    BY <1>0 DEF TypeOK
  <2>2. Len(fetched'[d]) \in {Len(fetched[d]), Len(fetched[d]) + 1}
    <3>1. CASE d = c
      BY <1>0, <3>1, FetchTypes
    <3>2. CASE d # c
      <4>1. fetched'[d] = fetched[d]
        BY <1>0, <3>2, FetchTypes
      <4> QED BY <4>1
    <3> QED BY <3>1, <3>2
  <2> QED BY <2>1, <2>2
<1> QED BY <1>0, <1>1, <1>2, FlowFrame

(* A _tryConsume either asks for the slots that are free, or finds none:   *)
(* then messages are outstanding or in the queue, whose end schedules it   *)
LEMMA FlowTryConsume ==
    ASSUME FlowInv, TypeOK', NEW c \in Consumers, TryConsume(c)
    PROVE  Flow(c)'
<1> USE ConsumerAssumption
<1> DEFINE L == SumOver(tasks[c], Offsets)
<1>0. TypeOK /\ Flow(c)
  BY DEF FlowInv
<1>1. /\ L \in Nat /\ (QueueIdle(tasks[c]) => L = 0) /\ Load(c) = L /\ Load(c)' = L
      /\ npending[c] \in Int /\ iter[c] = 0 /\ Concurrency \in Nat \ {0}
      /\ AvailableSlots(c) = Concurrency - L - npending[c]
  <2>1. tasks[c] \in [Offsets -> Nat] /\ npending[c] \in Int
    BY <1>0 DEF TypeOK
  <2>2. tasks' = tasks /\ iter[c] = 0
    BY DEF TryConsume, JsIdle
  <2>3. Load(c) = L /\ Load(c)' = L
    BY <2>2, LoadIsSum
  <2>4. L \in Nat /\ (QueueIdle(tasks[c]) => L = 0)
    BY <2>1, LoadFacts
  <2> QED BY <2>1, <2>2, <2>3, <2>4 DEF AvailableSlots
<1> HIDE DEF L
<1>2. UNCHANGED <<status, fetched, iter, tasks>>
  BY DEF TryConsume, client
<1>3. (iter[c] <= Len(fetched[c]))'
  BY <1>0, <1>2 DEF Flow
<1>4. CASE AvailableSlots(c) <= 0 /\ UNCHANGED <<sizes, npending>>
  <2>1. (Load(c) + npending[c] + iter[c] <= Concurrency)'
    BY <1>0, <1>1, <1>2, <1>4 DEF Flow
  <2>2. SumsTo(sizes[c], npending[c])'
    BY <1>0, <1>4 DEF Flow, SumsTo
  <2>3. sizes[c] # <<>> \/ ~QueueIdle(tasks[c])
    <3>1. SUFFICES ASSUME sizes[c] = <<>> PROVE ~QueueIdle(tasks[c])
      OBVIOUS
    <3>2. npending[c] = 0
      BY <1>0, <3>1, SumsToNothing DEF Flow
    <3> QED BY <1>1, <1>4, <3>2
  <2> QED BY <1>2, <1>3, <1>4, <2>1, <2>2, <2>3 DEF Flow, QueueIdle
<1>5. ASSUME NEW n \in 1 .. Concurrency, n = AvailableSlots(c),
             sizes' = [sizes EXCEPT ![c] = Append(@, n)],
             npending' = [npending EXCEPT ![c] = @ + n]
      PROVE  Flow(c)'
  <2>1. sizes[c] \in Seq(Nat) /\ sizes'[c] = Append(sizes[c], n) /\ npending'[c] = npending[c] + n
    <3>1. sizes[c] \in Seq(1 .. Concurrency)
      BY <1>0 DEF TypeOK
    <3>2. sizes[c] \in Seq(Nat)
      BY <3>1
    <3> QED BY <3>2, <1>0, <1>5 DEF TypeOK
  <2>2. SumsTo(sizes'[c], npending'[c])
    <3>1. SumsTo(sizes[c], npending[c]) /\ n \in Nat
      BY <1>0 DEF Flow
    <3> QED BY <2>1, <3>1, SumsToAppend
  <2>3. (Load(c) + npending[c] + iter[c] <= Concurrency)'
    <3>1. npending'[c] = Concurrency - L
      BY <1>1, <1>5, <2>1
    <3>2. iter'[c] = 0
      BY <1>1, <1>2
    <3> QED BY <1>1, <3>1, <3>2
  <2>4. sizes'[c] # <<>>
    <3>1. n \in Nat
      OBVIOUS
    <3> QED BY <2>1, <3>1, AppendProperties
  <2> QED BY <1>3, <2>2, <2>3, <2>4 DEF Flow, SumsTo
<1> QED BY <1>4, <1>5 DEF TryConsume

(* A full answer is visited; a shorter one arms the timer *)
LEMMA FlowConsumeCallback ==
    ASSUME FlowInv, TypeOK', NEW c \in Consumers, ConsumeCallback(c)
    PROVE  Flow(c)'
<1> USE ConsumerAssumption
<1> DEFINE n == Head(sizes[c])
           k == IF Len(fetched[c]) < n THEN Len(fetched[c]) ELSE n
<1>0. TypeOK /\ Flow(c)
  BY DEF FlowInv
<1>1. /\ n \in 1 .. Concurrency /\ npending[c] \in Int /\ iter[c] = 0 /\ Load(c) \in Nat
      /\ Len(fetched[c]) \in Nat
  <2>1. tasks[c] \in [Offsets -> Nat] /\ npending[c] \in Int /\ fetched[c] \in Seq(Offsets)
    BY <1>0 DEF TypeOK
  <2>2. Load(c) \in Nat /\ Len(fetched[c]) \in Nat
    BY <2>1, LoadFacts, LoadIsSum, LenProperties
  <2> QED BY <1>0, <2>1, <2>2, ConsumeCallbackTypes DEF ConsumeCallback, JsIdle
<1>2. /\ iter'[c] = k /\ npending'[c] = npending[c] - n /\ sizes'[c] = Tail(sizes[c])
      /\ k < n => kick'[c]
  BY <1>0 DEF ConsumeCallback, TypeOK
<1>3. Load(c)' = Load(c)
  BY LoadIsSum DEF ConsumeCallback
<1>4. k \in Nat /\ k <= n /\ (k < n \/ k > 0)
  BY <1>1
<1>5. SumsTo(sizes'[c], npending'[c])
  <2>1. sizes[c] \in Seq(1 .. Concurrency) /\ sizes[c] # <<>>
    BY <1>0 DEF TypeOK, ConsumeCallback
  <2>2. sizes[c] \in Seq(Nat)
    BY <2>1
  <2> QED BY <1>0, <1>2, <2>1, <2>2, SumsToTail DEF Flow
<1>6. (iter[c] <= Len(fetched[c]))'
  BY <1>0, ConsumeCallbackTypes
<1> HIDE DEF n, k
<1>7. (Load(c) + npending[c] + iter[c] <= Concurrency)'
  <2>1. Load(c) + npending[c] + 0 <= Concurrency
    BY <1>0, <1>1 DEF Flow
  <2>2. Load(c) + (npending[c] - n) + k <= Concurrency
    BY <2>1, <1>1, <1>4
  <2> QED BY <2>2, <1>2, <1>3
<1> QED BY <1>2, <1>4, <1>5, <1>6, <1>7 DEF Flow, SumsTo

(* A message moves from the answer to the queue *)
LEMMA FlowConsumeEntry ==
    ASSUME FlowInv, TypeOK', NEW c \in Consumers, ConsumeEntry(c)
    PROVE  Flow(c)'
<1> USE ConsumerAssumption
<1> DEFINE o == Head(fetched[c])
<1>0. TypeOK /\ Flow(c) /\ iter[c] <= Len(fetched[c])
  BY DEF FlowInv, Flow
<1>1. o \in Offsets /\ (iter[c] <= Len(fetched[c]))'
  BY <1>0, ConsumeEntryTypes
<1>2. /\ tasks[c] \in [Offsets -> Nat] /\ iter[c] \in Nat /\ npending[c] \in Int
      /\ tasks'[c] = [tasks[c] EXCEPT ![o] = @ + 1] /\ iter'[c] = iter[c] - 1
      /\ sizes' = sizes /\ npending' = npending
  BY <1>0 DEF TypeOK, ConsumeEntry
<1> HIDE DEF o
<1>3. Load(c)' = Load(c) + 1 /\ Load(c) \in Nat
  BY <1>1, <1>2, LoadFacts, LoadIsSum
<1>4. ~QueueIdle(tasks'[c])
  <2>1. tasks'[c][o] = tasks[c][o] + 1 /\ tasks[c][o] \in Nat
    BY <1>1, <1>2
  <2> QED BY <1>1, <2>1 DEF QueueIdle
<1>5. (Load(c) + npending[c] + iter[c] <= Concurrency)'
  <2>1. Load(c) + npending[c] + iter[c] <= Concurrency
    BY <1>0 DEF Flow
  <2> QED BY <2>1, <1>2, <1>3
<1>6. SumsTo(sizes[c], npending[c])'
  BY <1>0, <1>2 DEF Flow, SumsTo
<1> QED BY <1>1, <1>4, <1>5, <1>6 DEF Flow, QueueIdle

(* The end of a task frees a slot and schedules _tryConsume *)
LEMMA FlowTaskDone ==
    ASSUME FlowInv, TypeOK', NEW c \in Consumers, NEW o \in Offsets,
           TaskDone(c, o) \/ TaskDoneDeferred(c, o)
    PROVE  Flow(c)'
<1>0. TypeOK /\ Flow(c)
  BY DEF FlowInv
<1>1. /\ tasks[c] \in [Offsets -> Nat] /\ tasks[c][o] > 0
      /\ tasks'[c] = [tasks[c] EXCEPT ![o] = @ - 1] /\ kick'[c]
      /\ UNCHANGED <<sizes, npending, iter, fetched>>
      /\ npending[c] \in Int /\ iter[c] \in Nat
  BY <1>0 DEF TypeOK, TaskDone, TaskDoneDeferred
<1>2. Load(c)' = Load(c) - 1 /\ Load(c) \in Nat
  BY <1>1, LoadFacts, LoadIsSum
<1>3. (Load(c) + npending[c] + iter[c] <= Concurrency)'
  <2>1. Load(c) + npending[c] + iter[c] <= Concurrency
    BY <1>0 DEF Flow
  <2> QED BY <2>1, <1>1, <1>2, ConsumerAssumption
<1>4. SumsTo(sizes[c], npending[c])' /\ (iter[c] <= Len(fetched[c]))'
  BY <1>0, <1>1 DEF Flow, SumsTo
<1> QED BY <1>1, <1>3, <1>4 DEF Flow

(* An empty pipeline *)
LEMMA FlowEmpty ==
    ASSUME NEW s, s = <<>>, NEW t, t = NoTasks
    PROVE  SumsTo(s, 0) /\ SumOver(t, Offsets) = 0 /\ Len(s) = 0
<1>1. t \in [Offsets -> Nat] /\ QueueIdle(t)
  BY DEF NoTasks, QueueIdle
<1> QED BY <1>1, SumsToNothing, LoadFacts
(* A crash empties the pipeline *)
LEMMA FlowCrash ==
    ASSUME FlowInv, TypeOK', NEW c \in Consumers, Crash(c)
    PROVE  Flow(c)'
<1> USE ConsumerAssumption
<1>1. /\ iter'[c] = 0 /\ npending'[c] = 0 /\ status'[c] = "down"
      /\ sizes'[c] = <<>> /\ fetched'[c] = <<>> /\ tasks'[c] = NoTasks
  BY DEF FlowInv, TypeOK, Crash
<1>2. SumsTo(sizes'[c], 0) /\ SumOver(tasks'[c], Offsets) = 0 /\ Len(fetched'[c]) = 0
  BY <1>1, FlowEmpty
<1>3. SumsTo(sizes[c], npending[c])'
  BY <1>1, <1>2 DEF SumsTo
<1>4. (Load(c) + npending[c] + iter[c] <= Concurrency)'
  BY <1>1, <1>2, LoadIsSum
<1> QED BY <1>1, <1>2, <1>3, <1>4 DEF Flow

(* The other consumers are not concerned *)
LEMMA FlowOthers ==
    ASSUME FlowInv, TypeOK', NEW c \in Consumers, NEW d \in Consumers, d # c,
           \/ TryConsume(c) \/ ConsumeCallback(c) \/ ConsumeEntry(c) \/ Crash(c)
           \/ \E o \in Offsets : TaskDone(c, o) \/ TaskDoneDeferred(c, o)
    PROVE  Flow(d)'
<1>0. TypeOK /\ Flow(d)
  BY DEF FlowInv
<1>1. /\ sizes'[d] = sizes[d] /\ npending'[d] = npending[d] /\ iter'[d] = iter[d]
      /\ tasks'[d] = tasks[d] /\ fetched'[d] = fetched[d] /\ kick'[d] = kick[d]
  <2>1. CASE TryConsume(c)
    BY <1>0, <2>1 DEF TryConsume, client, TypeOK
  <2>2. CASE ConsumeCallback(c)
    <3>1. /\ \E k, n : /\ iter' = [iter EXCEPT ![c] = k]
                        /\ npending' = [npending EXCEPT ![c] = n]
          /\ \E b : kick' = [kick EXCEPT ![c] = b]
          /\ sizes' = [sizes EXCEPT ![c] = Tail(@)]
          /\ UNCHANGED <<fetched, tasks>>
      BY <2>2 DEF ConsumeCallback, client
    <3> QED BY <1>0, <3>1 DEF TypeOK
  <2>3. CASE ConsumeEntry(c)
    <3>1. /\ \E o : tasks' = [tasks EXCEPT ![c][o] = @ + 1]
          /\ \E k : iter' = [iter EXCEPT ![c] = k]
          /\ fetched' = [fetched EXCEPT ![c] = Tail(@)]
          /\ UNCHANGED <<sizes, npending, kick>>
      BY <2>3 DEF ConsumeEntry
    <3> QED BY <1>0, <3>1 DEF TypeOK
  <2>4. CASE Crash(c)
    BY <1>0, <2>4 DEF Crash, TypeOK
  <2>5. CASE \E o \in Offsets : TaskDone(c, o) \/ TaskDoneDeferred(c, o)
    <3>1. /\ \E o \in Offsets : tasks' = [tasks EXCEPT ![c][o] = @ - 1]
          /\ kick' = [kick EXCEPT ![c] = TRUE]
          /\ UNCHANGED <<sizes, npending, iter, fetched>>
      BY <2>5 DEF TaskDone, TaskDoneDeferred
    <3> QED BY <1>0, <3>1 DEF TypeOK
  <2> QED BY <2>1, <2>2, <2>3, <2>4, <2>5
<1>2. status'[d] = status[d]
  <2>1. CASE TryConsume(c) \/ ConsumeCallback(c) \/ ConsumeEntry(c)
    BY <2>1 DEF TryConsume, ConsumeCallback, ConsumeEntry, client
  <2>2. CASE Crash(c)
    BY <1>0, <2>2 DEF Crash, TypeOK
  <2>3. CASE \E o \in Offsets : TaskDone(c, o) \/ TaskDoneDeferred(c, o)
    <3>1. AfterTask(c)
      BY <2>3 DEF TaskDone, TaskDoneDeferred
    <3>2. status' = status \/ \E v : status' = [status EXCEPT ![c] = v]
      BY <3>1 DEF AfterTask, Unassign, DoUnassign
    <3>3. status \in [Consumers -> {"connected", "disconnected", "down"}]
      BY <1>0 DEF TypeOK
    <3> QED BY <1>0, <3>2, <3>3
  <2> QED BY <2>1, <2>2, <2>3
<1>3. Len(fetched[d]) <= Len(fetched'[d])
  <2>1. Len(fetched[d]) \in Nat
    BY <1>0 DEF TypeOK
  <2> QED BY <1>1, <2>1
<1> QED BY <1>0, <1>1, <1>2, <1>3, FlowFrame

LEMMA InitFlow == Init => FlowInv
<1> SUFFICES ASSUME Init PROVE FlowInv
  OBVIOUS
<1>1. TypeOK
  BY InitInv DEF Inv
<1>2. ASSUME NEW c \in Consumers PROVE Flow(c)
  <2>1. /\ iter[c] = 0 /\ npending[c] = 0 /\ kick[c]
        /\ sizes[c] = <<>> /\ fetched[c] = <<>> /\ tasks[c] = NoTasks
    BY DEF Init
  <2>2. SumsTo(sizes[c], 0) /\ SumOver(tasks[c], Offsets) = 0 /\ Len(fetched[c]) = 0
    BY <2>1, FlowEmpty
  <2>3. Load(c) + npending[c] + iter[c] <= Concurrency
    BY <2>1, <2>2, LoadIsSum, ConsumerAssumption
  <2> QED BY <2>1, <2>2, <2>3 DEF Flow
<1> QED BY <1>1, <1>2 DEF FlowInv

LEMMA NextFlow == FlowInv /\ [Next]_vars => FlowInv'
<1> SUFFICES ASSUME FlowInv, [Next]_vars PROVE FlowInv'
  OBVIOUS
<1>0. TypeOK /\ TypeOK'
  BY TypesKept DEF FlowInv, Flow
<1> SUFFICES ASSUME NEW d \in Consumers PROVE Flow(d)'
  BY <1>0 DEF FlowInv
<1>1. CASE UNCHANGED vars
  <2>1. UNCHANGED <<status, fetched, sizes, npending, iter, kick, tasks>> /\ Flow(d)
    BY <1>1 DEF vars, client, pipeline, FlowInv
  <2>2. Len(fetched[d]) <= Len(fetched'[d])
    <3>1. Len(fetched[d]) \in Nat
      BY <1>0 DEF TypeOK
    <3> QED BY <2>1, <3>1
  <2> QED BY <1>0, <2>1, <2>2, FlowFrame
<1>2. CASE Next
  <2>1. PICK c \in Consumers :
          \/ Assign(c) \/ Fetch(c) \/ AutoCommit(c)
          \/ TryConsume(c) \/ ConsumeCallback(c) \/ ConsumeEntry(c)
          \/ \E o \in Offsets : TaskDone(c, o) \/ TaskDoneDeferred(c, o)
                                \/ EntryCommittable(c, o)
          \/ Revoke(c) \/ PublishedOffsets(c) \/ DrainTimeout(c)
          \/ Pause(c) \/ Resume(c) \/ Close(c)
          \/ Crash(c) \/ SessionExpired(c) \/ Start(c)
    BY <1>2 DEF Next
  <2>2. CASE d = c
    BY <1>0, <2>1, <2>2, FlowQuiet, FlowFetch, FlowTryConsume, FlowConsumeCallback,
       FlowConsumeEntry, FlowTaskDone, FlowCrash
  <2>3. CASE d # c
    BY <1>0, <2>1, <2>3, FlowQuiet, FlowFetch, FlowOthers
  <2> QED BY <2>2, <2>3
<1> QED BY <1>1, <1>2

(* The inductive invariant of the consumption loop, in whatever order the  *)
(* outstanding consume() calls are answered                                *)
THEOREM LoopInvariant == Spec => []FlowInv
BY InitFlow, NextFlow, PTL DEF Spec

(* Type correctness of the consumers' state *)
THEOREM ConsumerTypes == Spec => []TypeOK
<1>1. FlowInv => TypeOK
  BY DEF FlowInv
<1> QED BY <1>1, LoopInvariant, PTL

(* The messages in the queue, in the callback and asked for are never more *)
(* than the concurrency, and the count of those asked for is never negative *)
(* (_getAvailableSlotsInPipeline, _nConsumePendingRequests)                *)
THEOREM PipelineNeverOverfilled == Spec => []PipelineBound
<1>1. FlowInv => PipelineBound
  <2> SUFFICES ASSUME FlowInv, NEW c \in Consumers
               PROVE  Load(c) + npending[c] + iter[c] <= Concurrency /\ npending[c] >= 0
    BY DEF PipelineBound
  <2>1. Flow(c)
    BY DEF FlowInv
  <2>2. SumsTo(sizes[c], npending[c]) /\ sizes[c] \in Seq(1 .. Concurrency)
    BY <2>1 DEF Flow, FlowInv, TypeOK
  <2>3. \A q, n : Len(q) \in Nat /\ SumsTo(q, n) => n >= 0
    <3> SUFFICES ASSUME NEW q, NEW n, Len(q) \in Nat, SumsTo(q, n) PROVE n >= 0
      OBVIOUS
    <3>1. 0 \in 0 .. Len(q) /\ Len(q) \in 0 .. Len(q)
      OBVIOUS
    <3> QED BY <3>1 DEF SumsTo
  <2>4. Len(sizes[c]) \in Nat
    BY <2>2
  <2> QED BY <2>1, <2>2, <2>3, <2>4 DEF Flow
<1> QED BY <1>1, LoopInvariant, PTL

(* _tryConsume is called again from nextTick, from the timer, from the end *)
(* of a consume() call or from the end of a task: one of them is always to *)
(* come in a process that is up                                            *)
THEOREM LoopNeverStalls == Spec => []NoLostWakeup
<1>1. FlowInv => NoLostWakeup
  BY DEF FlowInv, Flow, NoLostWakeup
<1> QED BY <1>1, LoopInvariant, PTL

-----------------------------------------------------------------------------
(* The promise of the group *)

(* No step lowers the committed offset or forgets a processed message *)
LEMMA NeverBack ==
    ASSUME TypeOK, [Next]_vars
    PROVE  committed' >= committed /\ done \subseteq done'
<1> USE ConsumerAssumption
<1>0. committed \in Int /\ stored \in [Consumers -> Int] /\ ledger \in [Consumers -> PartitionLedgers]
  BY DEF TypeOK, NoOffset, PartitionLedgers
<1>1. CASE UNCHANGED vars
  BY <1>0, <1>1 DEF vars, kafka
<1>2. ASSUME NEW c \in Consumers,
             Assign(c) \/ Fetch(c) \/ TryConsume(c) \/ ConsumeCallback(c) \/ ConsumeEntry(c)
      PROVE  committed' >= committed /\ done \subseteq done'
  BY <1>0, <1>2 DEF Assign, Fetch, TryConsume, ConsumeCallback, ConsumeEntry, kafka
<1>3. ASSUME NEW c \in Consumers,
             PublishedOffsets(c) \/ Pause(c) \/ Resume(c) \/ Close(c) \/ Crash(c)
                \/ SessionExpired(c) \/ Start(c)
      PROVE  committed' >= committed /\ done \subseteq done'
  BY <1>0, <1>3 DEF PublishedOffsets, Pause, Resume, Close, Crash, SessionExpired, Start, kafka
<1>4. ASSUME NEW c \in Consumers, AutoCommit(c) \/ DrainTimeout(c) \/ Revoke(c)
      PROVE  committed' >= committed /\ done \subseteq done'
  BY <1>0, <1>4 DEF AutoCommit, DrainTimeout, Revoke, Unassign, CommitStored
<1>5. ASSUME NEW c \in Consumers, NEW o \in Offsets,
             TaskDone(c, o) \/ TaskDoneDeferred(c, o) \/ EntryCommittable(c, o)
      PROVE  committed' >= committed /\ done \subseteq done'
  <2>1. done \subseteq done'
    BY <1>5 DEF TaskDone, TaskDoneDeferred, EntryCommittable, Committable
  <2>2. stored'[c] \in Int
    <3>1. CASE TaskDoneDeferred(c, o)
      BY <1>0, <3>1 DEF TaskDoneDeferred
    <3>2. CASE Committable(c, o)
      BY <3>2, CommittableTypes DEF NoOffset
    <3> QED BY <1>5, <3>1, <3>2 DEF TaskDone, EntryCommittable
  <2>3. committed' >= committed
    BY <1>0, <1>5, <2>2 DEF TaskDone, TaskDoneDeferred, EntryCommittable, AfterTask, Unassign,
                            CommitStored, kafka
  <2> QED BY <2>1, <2>3
<1> QED BY <1>1, <1>2, <1>3, <1>4, <1>5 DEF Next

(* The consumers implement at-least-once delivery: every step of theirs    *)
(* completes some messages, moves the committed offset up, over completed  *)
(* ones unless messages were handed over out of order, or does neither     *)
THEOREM ConsumerImplementsDelivery == Spec => ImplementsDelivery
<1> USE ConsumerAssumption
<1>1. Init => Delivery!Init
  BY DEF Init, Delivery!Init
<1>2. TypeOK /\ TypeOK' /\ AtLeastOnce' /\ [Next]_vars
        => [Delivery!Next]_<<committed, done, reordered>>
  <2> SUFFICES ASSUME TypeOK, TypeOK', AtLeastOnce', [Next]_vars PROVE Delivery!Next
    OBVIOUS
  <2>1. committed' \in committed .. MaxOffset /\ done' \in SUBSET Offsets
    BY NeverBack DEF TypeOK
  <2>2. done' = done \cup done'
    BY NeverBack
  <2>3. reordered' \in {reordered, TRUE}
    BY ReorderedStays DEF TypeOK
  <2>4. reordered' \/ Delivery!AllBelow(committed', done')
    BY DEF AtLeastOnce, DoneBelow, Delivery!AllBelow, Delivery!Offsets, Offsets
  <2>5. Delivery!Advance(done', committed')
    BY <2>2, <2>3, <2>4 DEF Delivery!Advance
  <2> QED BY <2>1, <2>5 DEF Delivery!Next, Delivery!Offsets, Offsets
<1> QED BY <1>1, <1>2, ConsumerTypes, ConsumerAtLeastOnce, PTL
        DEF Spec, ImplementsDelivery, Delivery!Spec, Delivery!vars

(* The drain of _onRebalance is never skipped: when a rebalance begins to  *)
(* give the partition up, by the publication of the offsets or at once,    *)
(* the queue is empty.  Time-outs, close() and lost sessions, which end an *)
(* ownership otherwise, are not spoken of                                  *)
THEOREM DrainPrecedesUnassign == Spec => DrainBeforeUnassign
<1> USE ConsumerAssumption
<1>1. ASSUME TypeOK, [Next]_vars, NEW d \in Consumers, rebalance[d] # "publishing",
             \/ rebalance'[d] = "publishing"
             \/ owner = d /\ owner' = None /\ status'[d] = "connected"
      PROVE  QueueIdle(tasks'[d])
  <2>0. rebalance \in [Consumers -> {"none", "revoking", "draining", "publishing"}]
    BY <1>1 DEF TypeOK
  <2>1. \/ rebalance'[d] # rebalance[d]
        \/ owner = d /\ owner' = None /\ status'[d] = "connected"
    BY <1>1
  <2>2. ~UNCHANGED vars
    BY <1>1, <2>1 DEF vars, kafka, control
  <2>3. PICK c \in Consumers :
          \/ Assign(c) \/ Fetch(c) \/ AutoCommit(c)
          \/ TryConsume(c) \/ ConsumeCallback(c) \/ ConsumeEntry(c)
          \/ \E o \in Offsets : TaskDone(c, o) \/ TaskDoneDeferred(c, o)
                                \/ EntryCommittable(c, o)
          \/ Revoke(c) \/ PublishedOffsets(c) \/ DrainTimeout(c)
          \/ Pause(c) \/ Resume(c) \/ Close(c)
          \/ Crash(c) \/ SessionExpired(c) \/ Start(c)
    BY <1>1, <2>2 DEF Next
  <2>4. CASE \/ Assign(c) \/ Fetch(c) \/ AutoCommit(c) \/ TryConsume(c)
             \/ ConsumeCallback(c) \/ ConsumeEntry(c) \/ Resume(c) \/ Start(c)
             \/ \E o \in Offsets : EntryCommittable(c, o)
    BY <1>1, <2>1, <2>4 DEF Assign, Fetch, AutoCommit, TryConsume, ConsumeCallback,
       ConsumeEntry, Resume, Start, EntryCommittable, kafka, control
  <2>5. CASE Pause(c) \/ Crash(c) \/ SessionExpired(c)
    BY <1>1, <2>0, <2>5 DEF Pause, Crash, SessionExpired, kafka, client, control
  <2>6. CASE DrainTimeout(c) \/ Close(c)
    <3>1. rebalance'[d] # "publishing"
      BY <1>1, <2>0, <2>6 DEF DrainTimeout, Close
    <3>2. owner = d /\ owner' = None /\ status'[d] = "connected"
      BY <1>1, <3>1
    <3>3. owner = c /\ status'[c] = "disconnected"
      BY <1>1, <2>6, <3>2 DEF DrainTimeout, Close, TypeOK
    <3> QED BY <3>2, <3>3
  <2>7. CASE PublishedOffsets(c)
    <3>1. c # d
      BY <1>1, <2>7 DEF PublishedOffsets
    <3>2. rebalance'[d] = rebalance[d]
      BY <2>0, <2>7, <3>1 DEF PublishedOffsets, DoUnassign
    <3>3. owner' = owner \/ owner = c
      BY <2>7 DEF PublishedOffsets, DoUnassign
    <3> QED BY <1>1, <3>1, <3>2, <3>3
  <2>8. ASSUME NEW k, Unassign(c, k), c # d
        PROVE  FALSE
    <3>1. rebalance'[d] = rebalance[d]
      BY <2>0, <2>8 DEF Unassign, DoUnassign
    <3>2. owner' = owner \/ owner = c
      BY <2>8 DEF Unassign, DoUnassign
    <3> QED BY <1>1, <2>8, <3>1, <3>2
  <2>9. CASE \E o \in Offsets : TaskDone(c, o) \/ TaskDoneDeferred(c, o)
    <3>1. AfterTask(c)
      BY <2>9 DEF TaskDone, TaskDoneDeferred
    <3>2. Unassign(c, stored'[c]) /\ QueueIdle(tasks'[c])
      BY <1>1, <2>1, <3>1 DEF AfterTask
    <3> QED BY <2>8, <3>2
  <2>10. CASE Revoke(c)
    <3>1. CASE Unassign(c, stored[c]) /\ QueueIdle(tasks[c]) /\ tasks' = tasks
      BY <2>8, <3>1
    <3>2. CASE rebalance' = [rebalance EXCEPT ![c] = "draining"] /\ owner' = owner
      BY <1>1, <2>0, <3>2
    <3> QED BY <2>10, <3>1, <3>2 DEF Revoke, pipeline
  <2> QED BY <2>3, <2>4, <2>5, <2>6, <2>7, <2>9, <2>10
<1>2. TypeOK /\ [Next]_vars =>
        [\A c \in Consumers :
            (/\ rebalance[c] # "publishing"
             /\ \/ rebalance'[c] = "publishing"
                \/ owner = c /\ owner' = None /\ status'[c] = "connected")
                => QueueIdle(tasks'[c])]_vars
  BY <1>1
<1> QED BY <1>2, ConsumerTypes, PTL DEF Spec, DrainBeforeUnassign
=============================================================================
