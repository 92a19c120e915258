---------------------- MODULE ReplicationPipelineProofs ----------------------
(* For any sites, replay topics and objects, and any number of crashes,      *)
(* updates of the object and retries asked of the API.                       *)
EXTENDS ReplicationPipeline, ProofLemmas, FiniteSetTheorems

-----------------------------------------------------------------------------
(* The queues of entries *)

InStage(e, st) == [e EXCEPT !.stage = st]

(* The members of S have a stage, and S holds them in every stage *)
Staged(S) ==
    \A e \in S, st \in Stages : /\ e.stage \in Stages
                                /\ InStage(e, st) \in S
                                /\ InStage(e, st).stage = st

HasRunning(q) == \E i \in 1 .. Len(q) : q[i].stage = "running"

OneRunning(q) ==
    \A i, j \in 1 .. Len(q) : q[i].stage = "running" /\ q[j].stage = "running" => i = j

(* First finds an entry in the stage whenever there is one *)
LEMMA FirstProperties ==
    ASSUME NEW S, NEW q \in Seq(S), NEW st
    PROVE  /\ First(q, st) \in 0 .. Len(q)
           /\ First(q, st) = 0 <=> \A i \in 1 .. Len(q) : q[i].stage # st
           /\ First(q, st) # 0 => /\ q[First(q, st)].stage = st
                                  /\ \A i \in 1 .. First(q, st) - 1 : q[i].stage # st
<1> DEFINE T == {i \in 1 .. Len(q) : q[i].stage = st}
<1>1. Len(q) \in Nat /\ DOMAIN q = 1 .. Len(q)
  OBVIOUS
<1>2. CASE T = {}
  BY <1>1, <1>2 DEF First
<1>3. CASE T # {}
  <2>1. T \subseteq Nat
    BY <1>1
  <2>2. PICK x \in T : \A y \in T : x <= y
    <3> HIDE DEF T
    <3> QED BY <1>3, <2>1, LeastNatural
  <2>3. /\ x \in DOMAIN q /\ q[x].stage = st
        /\ \A j \in 1 .. x - 1 : q[j].stage # st
    BY <1>1, <2>2
  <2>4. /\ First(q, st) \in DOMAIN q
        /\ q[First(q, st)].stage = st
        /\ \A j \in 1 .. First(q, st) - 1 : q[j].stage # st
    BY <2>3, Zenon DEF First
  <2> QED BY <1>1, <1>3, <2>4
<1> QED BY <1>2, <1>3

(* Mark changes the stage of one entry *)
LEMMA MarkProperties ==
    ASSUME NEW S, Staged(S), NEW q \in Seq(S), NEW i \in 1 .. Len(q), NEW st \in Stages
    PROVE  /\ Mark(q, i, st) \in Seq(S)
           /\ Len(Mark(q, i, st)) = Len(q)
           /\ \A j \in 1 .. Len(q) :
                Mark(q, i, st)[j] = IF j = i THEN InStage(q[i], st) ELSE q[j]
           /\ Mark(q, i, st)[i].stage = st
<1> DEFINE e == InStage(q[i], st)
<1>1. q[i] \in S
  OBVIOUS
<1>2. e \in S /\ e.stage = st
  BY <1>1 DEF Staged
<1>3. Mark(q, i, st) = [q EXCEPT ![i] = e]
  BY Zenon DEF Mark, InStage
<1> HIDE DEF e
<1>4. /\ [q EXCEPT ![i] = e] \in Seq(S)
      /\ Len([q EXCEPT ![i] = e]) = Len(q)
      /\ \A j \in 1 .. Len(q) : [q EXCEPT ![i] = e][j] = IF j = i THEN e ELSE q[j]
  BY <1>2, ExceptSeq
<1> QED BY <1>2, <1>3, <1>4 DEF e

(* A processed entry is done or gone; the others stay as they are *)
LEMMA ProcessedProperties ==
    ASSUME NEW S, Staged(S), NEW q \in Seq(S), NEW i \in 1 .. Len(q)
    PROVE  /\ Processed(q, i) \in Seq(S)
           /\ \A j \in 1 .. Len(q) : j # i =>
                \E k \in 1 .. Len(Processed(q, i)) : Processed(q, i)[k] = q[j]
           /\ OneRunning(q) => OneRunning(Processed(q, i))
           /\ HasRunning(Processed(q, i)) =>
                \E j \in 1 .. Len(q) : j # i /\ q[j].stage = "running"
<1> DEFINE r == Processed(q, i)
<1>0. Len(q) \in Nat /\ i \in Nat
  OBVIOUS
<1>1. CASE crashes < MaxCrashes
  <2>1. r = Mark(q, i, "done")
    BY <1>1 DEF Processed
  <2>2. /\ r \in Seq(S) /\ Len(r) = Len(q)
        /\ \A j \in 1 .. Len(q) : j # i => r[j] = q[j]
        /\ r[i].stage = "done"
    <3>1. "done" \in Stages
      BY DEF Stages
    <3> HIDE DEF r
    <3> QED BY <2>1, <3>1, MarkProperties
  <2> HIDE DEF r
  <2>3. OneRunning(q) => OneRunning(r)
    BY <2>2 DEF OneRunning
  <2>4. HasRunning(r) => \E j \in 1 .. Len(q) : j # i /\ q[j].stage = "running"
    BY <2>2 DEF HasRunning
  <2> QED BY <2>2, <2>3, <2>4 DEF r
<1>2. CASE ~(crashes < MaxCrashes)
  <2>1. r = RemoveAt(q, i)
    BY <1>2 DEF Processed
  <2>2. /\ r \in Seq(S) /\ Len(r) = Len(q) - 1
        /\ \A j \in 1 .. Len(q) - 1 : r[j] = IF j < i THEN q[j] ELSE q[j + 1]
    BY <2>1, RemoveAtProperties
  <2> HIDE DEF r
  <2>3. ASSUME NEW j \in 1 .. Len(q), j # i
        PROVE  \E k \in 1 .. Len(r) : r[k] = q[j]
    <3>1. CASE j < i
      BY <3>1, <1>0, <2>2
    <3>2. CASE ~(j < i)
      <4>1. j - 1 \in 1 .. Len(r) /\ ~(j - 1 < i) /\ (j - 1) + 1 = j
        BY <1>0, <2>2, <2>3, <3>2
      <4> QED BY <2>2, <4>1
    <3> QED BY <3>1, <3>2
  <2> DEFINE g(k) == IF k < i THEN k ELSE k + 1
  <2>4. \A k \in 1 .. Len(r) : g(k) \in 1 .. Len(q) /\ g(k) # i /\ r[k] = q[g(k)]
    BY <1>0, <2>2
  <2>5. \A k, l \in 1 .. Len(r) : g(k) = g(l) => k = l
    BY <1>0, <2>2
  <2> HIDE DEF g
  <2>6. OneRunning(q) => OneRunning(r)
    BY <2>4, <2>5 DEF OneRunning
  <2>7. HasRunning(r) => \E j \in 1 .. Len(q) : j # i /\ q[j].stage = "running"
    BY <2>4 DEF HasRunning
  <2> QED BY <2>2, <2>3, <2>6, <2>7 DEF r
<1> QED BY <1>1, <1>2

(* The end of a task leaves no entry in progress *)
LEMMA EndEntry ==
    ASSUME NEW S, Staged(S), NEW q \in Seq(S), OneRunning(q), HasRunning(q)
    PROVE  LET r == Processed(q, First(q, "running"))
           IN  r \in Seq(S) /\ ~HasRunning(r) /\ OneRunning(r)
<1> DEFINE i == First(q, "running")
<1>1. i \in 1 .. Len(q) /\ q[i].stage = "running"
  <2>1. i # 0 /\ i \in 0 .. Len(q)
    BY FirstProperties DEF HasRunning
  <2> QED BY <2>1, FirstProperties
<1> HIDE DEF i
<1>2. \A j \in 1 .. Len(q) : j # i => q[j].stage # "running"
  BY <1>1 DEF OneRunning
<1>3. ~HasRunning(Processed(q, i)) /\ Processed(q, i) \in Seq(S)
  BY <1>1, <1>2, ProcessedProperties
<1> QED BY <1>3 DEF OneRunning, HasRunning, i

(* An entry that is processed at once disturbs no entry in progress *)
LEMMA SkipEntry ==
    ASSUME NEW S, Staged(S), NEW q \in Seq(S), OneRunning(q),
           NEW i \in 1 .. Len(q), q[i].stage = "waiting"
    PROVE  LET r == Processed(q, i)
           IN  r \in Seq(S) /\ OneRunning(r) /\ (HasRunning(r) <=> HasRunning(q))
<1>1. HasRunning(q) => HasRunning(Processed(q, i))
  <2> SUFFICES ASSUME HasRunning(q) PROVE HasRunning(Processed(q, i))
    OBVIOUS
  <2>1. PICK j \in 1 .. Len(q) : q[j].stage = "running"
    BY DEF HasRunning
  <2>2. j # i
    BY <2>1
  <2> QED BY <2>1, <2>2, ProcessedProperties DEF HasRunning
<1>2. HasRunning(Processed(q, i)) => HasRunning(q)
  BY ProcessedProperties DEF HasRunning
<1> QED BY <1>1, <1>2, ProcessedProperties

(* An entry goes in progress *)
LEMMA StartEntry ==
    ASSUME NEW S, Staged(S), NEW q \in Seq(S), ~HasRunning(q), NEW i \in 1 .. Len(q)
    PROVE  LET r == Mark(q, i, "running")
           IN  r \in Seq(S) /\ OneRunning(r) /\ HasRunning(r)
<1> DEFINE r == Mark(q, i, "running")
<1>1. /\ r \in Seq(S) /\ Len(r) = Len(q) /\ r[i].stage = "running"
      /\ \A j \in 1 .. Len(q) : j # i => r[j] = q[j]
  BY MarkProperties DEF Stages
<1> HIDE DEF r
<1> QED BY <1>1 DEF OneRunning, HasRunning, r

(* A new entry waits *)
LEMMA AppendEntry ==
    ASSUME NEW S, NEW q \in Seq(S), OneRunning(q), NEW e \in S, e.stage = "waiting"
    PROVE  LET r == Append(q, e)
           IN  /\ r \in Seq(S) /\ OneRunning(r) /\ (HasRunning(r) <=> HasRunning(q))
               /\ \A j \in 1 .. Len(q) : \E k \in 1 .. Len(r) : r[k] = q[j]
               /\ \E k \in 1 .. Len(r) : r[k] = e
<1> DEFINE r == Append(q, e)
<1>0. Len(q) \in Nat
  OBVIOUS
<1>1. /\ r \in Seq(S) /\ Len(r) = Len(q) + 1 /\ r[Len(q) + 1] = e
      /\ \A j \in 1 .. Len(q) : r[j] = q[j]
  BY AppendProperties
<1> HIDE DEF r
<1>2. \A j \in 1 .. Len(r) : r[j].stage = "running" => j \in 1 .. Len(q) /\ q[j].stage = "running"
  BY <1>0, <1>1
<1>3. \A j \in 1 .. Len(q) : j \in 1 .. Len(r) /\ r[j] = q[j]
  BY <1>0, <1>1
<1>4. Len(q) + 1 \in 1 .. Len(r)
  BY <1>0, <1>1
<1>5. OneRunning(r)
  BY <1>1, <1>2 DEF OneRunning
<1>6. HasRunning(r) <=> HasRunning(q)
  BY <1>2, <1>3 DEF HasRunning
<1> QED BY <1>1, <1>3, <1>4, <1>5, <1>6 DEF r

(* What is delivered again after a crash waits, and nothing that was not     *)
(* done is missing                                                           *)
LEMMA RedeliveredProperties ==
    ASSUME NEW S, Staged(S), NEW q \in Seq(S), NEW r \in Redelivered(q)
    PROVE  /\ r \in Seq(S) /\ OneRunning(r) /\ ~HasRunning(r)
           /\ \A j \in 1 .. Len(q) : q[j].stage # "done" =>
                \E k \in 1 .. Len(r) : r[k] = InStage(q[j], "waiting")
<1>0. Len(q) \in Nat /\ "waiting" \in Stages
  BY DEF Stages
<1>1. PICK k \in {n \in 0 .. Len(q) : \A i \in 1 .. n : q[i].stage = "done"} :
        r = [i \in 1 .. Len(q) - k |-> InStage(q[i + k], "waiting")]
  BY Zenon DEF Redelivered, InStage
<1>2. k \in Nat /\ Len(q) - k \in Nat /\ \A i \in 1 .. k : q[i].stage = "done"
  <2>1. k \in 0 .. Len(q) /\ \A i \in 1 .. k : q[i].stage = "done"
    BY Zenon
  <2> QED BY <1>0, <2>1
<1>3. \A i \in 1 .. Len(q) - k : /\ i + k \in 1 .. Len(q)
                                 /\ q[i + k] \in S
                                 /\ r[i] = InStage(q[i + k], "waiting")
  BY <1>0, <1>1, <1>2
<1>4. \A i \in 1 .. Len(q) - k : r[i] \in S /\ r[i].stage = "waiting"
  BY <1>0, <1>3 DEF Staged
<1>5. r \in Seq(S) /\ Len(r) = Len(q) - k
  <2>1. r \in [1 .. Len(q) - k -> S]
    BY <1>1, <1>4
  <2> QED BY <1>2, <2>1
<1>6. OneRunning(r) /\ ~HasRunning(r)
  BY <1>4, <1>5 DEF OneRunning, HasRunning
<1>7. ASSUME NEW j \in 1 .. Len(q), q[j].stage # "done"
      PROVE  \E i \in 1 .. Len(r) : r[i] = InStage(q[j], "waiting")
  <2>1. ~(j <= k)
    BY <1>2, <1>7
  <2>2. j - k \in 1 .. Len(q) - k /\ (j - k) + k = j
    BY <1>0, <1>2, <2>1
  <2> QED BY <1>3, <1>5, <2>2
<1> QED BY <1>5, <1>6, <1>7
-----------------------------------------------------------------------------
(* The invariant.  NoEarlyCollection and CompletedMeansReplicated are not    *)
(* inductive: a status reaches the metadata through an outbox, the status    *)
(* topic and the metadata a task has read.  Wherever a COMPLETED is on that  *)
(* way its site holds the metadata it speaks of, and wherever a collection   *)
(* request is, all of them hold the object.                                  *)

Versions == 1 .. 1 + MaxRequests
Contents == {"DATA", "METADATA", "MARKER"}
Steps == {"idle", "setup", "data", "metadata", "full data", "full metadata", "refresh",
          "put", "parts", "complete", "abort", "abort completed"}

EntriesIn(stages) ==
    [v : Versions, content : Contents, stored : BOOLEAN,
     count : Unset .. NReplays - 1, stage : stages]

(* An entry of a replay topic has a count, one of the replication topic none *)
Fits(p, e) == p = Crr(SiteOf(p)) <=> e.count = Unset

EntriesOf(p) == {e \in EntriesIn(Stages) : Fits(p, e)}

(* Site s has held the object since it was published *)
Replicated(s) == target[s] >= 1

(* Site s holds metadata v, unless older metadata went over newer there *)
Held(s, v, t, old) ==
    t[s] >= 1 /\ (s \in old \/ t[s] >= v)

Holds(s, v) == Held(s, v, target, stale)

Everywhere == \A s \in Sites : Replicated(s)

StatusEntries ==
    {e \in [site : Sites, status : Statuses, entry : EntriesIn({"waiting"}), stage : Stages] :
        e.status = "COMPLETED" => Holds(e.site, e.entry.v)}

StatusMessages ==
    {m \in [topic : {"status"}, entry : StatusEntries] : m.entry.stage = "waiting"}

ReplayMessages ==
    {m \in [topic : {"replay"}, to : Processors, entry : EntriesIn({"waiting"})] :
        Fits(m.to, m.entry)}

GcMessages == {m \in [topic : {"gc"}] : Everywhere}

Messages == StatusMessages \cup ReplayMessages \cup GcMessages

Metadata ==
    {md \in [v : Versions, content : Contents, status : [Sites -> Statuses],
             stored : SUBSET Sites, data : BOOLEAN, multipart : BOOLEAN] :
        /\ md.v <= 1 + updates
        /\ \A s \in Sites : md.status[s] = "COMPLETED" => Holds(s, md.v)}

Requests ==
    [step : {"none", "locked"}]
        \cup [step : {"status", "crr"}, entry : {e \in EntriesIn({"waiting"}) : e.count = Unset}]

SourceOK == source \in Metadata /\ (~source.data => Everywhere)

TargetOK == target \in [Sites -> Absent .. 1 + MaxRequests] /\ stale \subseteq Sites

QueueOK(p) ==
    /\ partition[p] \in Seq(EntriesOf(p))
    /\ OneRunning(partition[p])
    /\ task[p] = "idle" <=> ~HasRunning(partition[p])

QueuesOK ==
    /\ partition = [p \in Processors |-> partition[p]]
    /\ task \in [Processors -> Steps]
    /\ \A p \in Processors : QueueOK(p)

StatusOK ==
    /\ statusTopic \in Seq(StatusEntries)
    /\ OneRunning(statusTopic)
    /\ statusTask \in [step : {"idle"}] \cup [step : {"put", "collect"}, md : Metadata]
    /\ statusTask.step = "idle" <=> ~HasRunning(statusTopic)

MessagesOK ==
    /\ outbox \in [Processes -> Seq(Messages)]
    /\ gcTopic \in Nat /\ (gcTopic > 0 => Everywhere)

RestOK ==
    /\ retry \in [Sites -> Requests]
    /\ excused \subseteq Sites
    /\ crashes \in Nat /\ updates \in Nat /\ retries \in Nat
    /\ updates + retries <= MaxRequests

Inv ==
    /\ SourceOK /\ TargetOK /\ QueuesOK /\ StatusOK /\ MessagesOK /\ RestOK

-----------------------------------------------------------------------------
(* Constants *)

TopicNames == {ReplayTopics[i].topicName : i \in DOMAIN ReplayTopics}

(* The replay topics, one per retry, are a sequence of the names configured *)
LEMMA ReplayTopicsType ==
    /\ replayTopics \in Seq(TopicNames)
    /\ NReplays \in Nat
    /\ DOMAIN replayTopics = 1 .. NReplays
    /\ "crr" \notin Range(replayTopics)
<1> DEFINE R == Reverse(ReplayTopics)
           Repeat(t) == [i \in 1 .. t.retries |-> t.topicName]
           seqs == [i \in DOMAIN ReplayTopics |-> Repeat(R[i])]
           n == Len(ReplayTopics)
<1>1. /\ n \in Nat /\ DOMAIN ReplayTopics = 1 .. n
      /\ \A i \in 1 .. n : ReplayTopics[i] \in [topicName : STRING, retries : Nat]
  <2> DEFINE T == [topicName : STRING, retries : Nat]
  <2>1. ReplayTopics \in Seq(T)
    BY ReplicationAssumption, Zenon DEF ReplicationAssumption
  <2> HIDE DEF T
  <2>2. /\ n \in Nat /\ DOMAIN ReplayTopics = 1 .. n
        /\ \A i \in 1 .. n : ReplayTopics[i] \in T
    BY <2>1
  <2> QED BY <2>2 DEF T
<1>2. \A i \in 1 .. n : /\ R[i] = ReplayTopics[(n - i) + 1]
                        /\ (n - i) + 1 \in 1 .. n
  BY <1>1 DEF Reverse
<1>3. \A i \in 1 .. n : R[i].retries \in Nat /\ R[i].topicName \in TopicNames
  BY <1>1, <1>2 DEF TopicNames
<1> HIDE DEF R
<1>4. \A i \in 1 .. n : Repeat(R[i]) \in Seq(TopicNames)
  <2> TAKE i \in 1 .. n
  <2>1. Repeat(R[i]) \in [1 .. R[i].retries -> TopicNames]
    BY <1>3
  <2> QED BY <1>3, <2>1
<1> HIDE DEF Repeat
<1>5. seqs \in [1 .. n -> Seq(TopicNames)]
  BY <1>1, <1>4
<1>6. seqs \in Seq(Seq(TopicNames))
  BY <1>1, <1>5
<1>7. replayTopics = FlattenSeq(seqs)
  BY Zenon DEF replayTopics, R, Repeat
<1>8. replayTopics \in Seq(TopicNames)
  <2> HIDE DEF seqs
  <2> QED BY <1>6, <1>7, FlattenSeqType
<1>9. NReplays \in Nat /\ DOMAIN replayTopics = 1 .. NReplays
  BY <1>8 DEF NReplays
<1>10. "crr" \notin Range(replayTopics)
  <2>1. "crr" \notin TopicNames
    BY ReplicationAssumption, <1>1 DEF ReplicationAssumption, TopicNames
  <2>2. \A i \in DOMAIN replayTopics : replayTopics[i] \in TopicNames
    BY <1>8, <1>9
  <2> QED BY <2>1, <2>2 DEF Range
<1> QED BY <1>8, <1>9, <1>10

(* There are finitely many queue processors *)
LEMMA ProcessorsFinite == IsFiniteSet(Processors)
<1>1. IsFiniteSet(Range(replayTopics))
  <2>1. IsFiniteSet(1 .. NReplays)
    BY ReplayTopicsType, FS_Interval
  <2>2. replayTopics \in Surjection(1 .. NReplays, Range(replayTopics))
    <3>1. replayTopics \in [1 .. NReplays -> Range(replayTopics)]
      BY ReplayTopicsType DEF Range
    <3> QED BY <3>1, ReplayTopicsType DEF Range, Surjection
  <2> QED BY <2>1, <2>2, FS_Surjection
<1>2. IsFiniteSet({"crr"})
  BY FS_Singleton
<1>3. IsFiniteSet({"crr"} \cup Range(replayTopics))
  BY <1>1, <1>2, FS_Union
<1>4. IsFiniteSet(Sites)
  BY ReplicationAssumption DEF ReplicationAssumption
<1> QED BY <1>3, <1>4, FS_Product DEF Processors

(* A processor is a site's for one topic *)
LEMMA ProcessorSites ==
    /\ \A p \in Processors : SiteOf(p) \in Sites
    /\ \A s \in Sites : Crr(s) \in Processors /\ SiteOf(Crr(s)) = s
    /\ \A s \in Sites, i \in DOMAIN replayTopics :
         LET p == <<s, replayTopics[i]>>
         IN  p \in Processors /\ SiteOf(p) = s /\ p # Crr(s)
BY ReplayTopicsType DEF Processors, SiteOf, Crr, Range

(* The entries of the queues keep their type in every stage *)
LEMMA EntriesStaged ==
    /\ \A p : Staged(EntriesOf(p))
    /\ Staged(StatusEntries)
<1>1. ASSUME NEW p PROVE Staged(EntriesOf(p))
  BY DEF Staged, EntriesOf, EntriesIn, Fits, InStage
<1>2. Staged(StatusEntries)
  BY DEF Staged, StatusEntries, InStage, Holds, Held, Replicated
<1> QED BY <1>1, <1>2

-----------------------------------------------------------------------------
(* What every step leaves true *)

(* No site loses the object, and versions are not forgotten *)
Grows ==
    /\ \A s \in Sites : Replicated(s) => Replicated(s)'
    /\ \A s \in Sites, v \in Versions : Holds(s, v) => Held(s, v, target', stale')
    /\ updates \in Nat /\ updates' \in Nat /\ updates <= updates'

(* What was true of a COMPLETED status, of a message and of metadata stays so *)
LEMMA TypesGrow ==
    ASSUME Grows
    PROVE  /\ Everywhere => Everywhere'
           /\ StatusEntries \subseteq StatusEntries'
           /\ Messages \subseteq Messages'
           /\ Metadata \subseteq Metadata'
           /\ Seq(StatusEntries) \subseteq Seq(StatusEntries')
           /\ Seq(Messages) \subseteq Seq(Messages')
<1>1. Everywhere => Everywhere'
  BY DEF Grows, Everywhere
<1>2. StatusEntries \subseteq StatusEntries'
  BY DEF Grows, StatusEntries, EntriesIn, Holds
<1>3. Messages \subseteq Messages'
  <2>1. StatusMessages \subseteq StatusMessages'
    BY <1>2 DEF StatusMessages
  <2>2. ReplayMessages = ReplayMessages'
    BY DEF ReplayMessages
  <2>3. GcMessages \subseteq GcMessages'
    BY <1>1 DEF GcMessages
  <2> QED BY <2>1, <2>2, <2>3 DEF Messages
<1>4. Metadata \subseteq Metadata'
  <2>1. \A n \in Nat : n <= 1 + updates => n <= 1 + updates'
    <3>1. updates \in Nat /\ updates' \in Nat /\ updates <= updates'
      BY DEF Grows
    <3>2. \A a, b, n \in Nat : a <= b /\ n <= 1 + a => n <= 1 + b
      OBVIOUS
    <3> QED BY <3>1, <3>2
  <2>2. Versions \subseteq Nat
    BY ReplicationAssumption DEF ReplicationAssumption, Versions
  <2> QED BY <2>1, <2>2 DEF Grows, Metadata, Holds
<1>5. Seq(StatusEntries) \subseteq Seq(StatusEntries')
  BY <1>2, SeqMonotonic
<1>6. Seq(Messages) \subseteq Seq(Messages')
  BY <1>3, SeqMonotonic
<1> QED BY <1>1, <1>2, <1>3, <1>4, <1>5, <1>6

(* A part of the state that a step leaves alone keeps its invariant *)
LEMMA Frame ==
    ASSUME Inv, Grows
    PROVE  /\ UNCHANGED source => SourceOK'
           /\ UNCHANGED <<target, stale>> => TargetOK'
           /\ UNCHANGED queues => QueuesOK'
           /\ UNCHANGED statuses => StatusOK'
           /\ UNCHANGED <<outbox, gcTopic>> => MessagesOK'
           /\ UNCHANGED <<retry, excused, bounds>> => RestOK'
<1>1. UNCHANGED source => SourceOK'
  BY TypesGrow DEF Inv, SourceOK
<1>2. UNCHANGED <<target, stale>> => TargetOK'
  BY DEF Inv, TargetOK
<1>3. UNCHANGED queues => QueuesOK'
  BY Zenon DEF Inv, QueuesOK, QueueOK, queues, EntriesOf, EntriesIn
<1>4. UNCHANGED statuses => StatusOK'
  <2> SUFFICES ASSUME UNCHANGED statuses PROVE StatusOK'
    OBVIOUS
  <2>1. statusTopic' = statusTopic /\ statusTask' = statusTask
    BY DEF statuses
  <2>2. statusTask' \in [step : {"idle"}] \cup [step : {"put", "collect"}, md : Metadata']
    BY <2>1, TypesGrow DEF Inv, StatusOK
  <2> QED BY <2>1, <2>2, TypesGrow DEF Inv, StatusOK, OneRunning, HasRunning
<1>5. UNCHANGED <<outbox, gcTopic>> => MessagesOK'
  BY TypesGrow DEF Inv, MessagesOK
<1>6. UNCHANGED <<retry, excused, bounds>> => RestOK'
  BY Zenon DEF Inv, RestOK, bounds
<1> QED BY <1>1, <1>2, <1>3, <1>4, <1>5, <1>6

(* Metadata v is put to site s *)
Put(s, v) ==
    /\ target' = [target EXCEPT ![s] = v]
    /\ stale' = stale \cup {x \in {s} : v < target[x]}

(* A site may only be left alone or given the metadata of an entry *)
LEMMA TargetGrows ==
    ASSUME Inv, NEW s \in Sites, NEW v \in Versions, updates' = updates,
           UNCHANGED <<target, stale>> \/ Put(s, v)
    PROVE  TargetOK' /\ Grows /\ (Put(s, v) => Held(s, v, target', stale'))
<1>1. /\ target \in [Sites -> Absent .. 1 + MaxRequests] /\ stale \subseteq Sites
      /\ v \in Absent .. 1 + MaxRequests
  BY ReplicationAssumption DEF Inv, TargetOK, Versions, ReplicationAssumption, Absent
<1>2. v >= 1 /\ updates \in Nat /\ Versions \subseteq Nat
  BY ReplicationAssumption DEF Versions, ReplicationAssumption, Inv, RestOK
<1>3. CASE UNCHANGED <<target, stale>>
  <2>1. TargetOK' /\ Grows
    BY <1>1, <1>2, <1>3 DEF TargetOK, Grows, Holds, Held, Replicated
  <2>2. Put(s, v) => Held(s, v, target', stale')
    BY <1>1, <1>2, <1>3 DEF Put, Holds, Held, Replicated
  <2> QED BY <2>1, <2>2
<1>4. CASE Put(s, v)
  <2>1. target' \in [Sites -> Absent .. 1 + MaxRequests] /\ stale' \subseteq Sites
    BY <1>1, <1>4 DEF Put
  <2>2. Held(s, v, target', stale')
    BY <1>1, <1>2, <1>4 DEF Put, Holds, Held, Replicated
  <2>3. ASSUME NEW x \in Sites
        PROVE  /\ Replicated(x) => Replicated(x)'
               /\ \A u \in Versions : Holds(x, u) => Held(x, u, target', stale')
    <3>1. target[x] \in Int /\ target'[x] \in Int /\ (x \in stale => x \in stale')
      BY <1>1, <2>1, <1>4 DEF Absent, Put
    <3>2. x \in stale' \/ target'[x] >= target[x]
      BY <1>1, <1>2, <1>4, <3>1 DEF Put
    <3>3. Replicated(x) => Replicated(x)'
      BY <1>1, <1>2, <1>4 DEF Put, Replicated
    <3>4. target'[x] >= 1 <=> Replicated(x)'
      BY DEF Replicated
    <3> QED BY <1>2, <3>1, <3>2, <3>3, <3>4 DEF Holds, Held, Replicated
  <2>4. updates' \in Nat /\ updates <= updates'
    BY <1>2
  <2> QED BY <1>2, <2>1, <2>2, <2>3, <2>4 DEF TargetOK, Grows
<1> QED BY <1>3, <1>4

-----------------------------------------------------------------------------
(* Steps of a running task *)

(* How a step of a task may leave it: at its next step or ended, with what   *)
(* is sent and excused                                                       *)
TaskOutcome(p) ==
    \/ \E st \in Steps \ {"idle"} : Step(p, st)
    \/ /\ EndTask(p) /\ source.status[SiteOf(p)] = "COMPLETED"
       /\ UNCHANGED <<outbox, excused>>
    \/ Skip(p)
    \/ PublishStatus(p, "FAILED")
    \/ PublishStatus(p, "COMPLETED") /\ Put(SiteOf(p), Running(p).v)

TaskStep(p) ==
    /\ task[p] # "idle"
    /\ TaskOutcome(p)
    /\ UNCHANGED <<target, stale>> \/ Put(SiteOf(p), Running(p).v)
    /\ crashes' \in {crashes, crashes + 1}
    /\ UNCHANGED <<source, statuses, gcTopic, retry, updates, retries>>

(* Every step of a queue processor is a step of its task, or starts one *)
LEMMA TaskStepForm ==
    ASSUME NEW p \in Processors, ProcessorStep(p)
    PROVE  ProcessReplicationEntry(p) \/ TaskStep(p)
<1> USE DEF bounds, sites, Steps
<1>0. PutToTarget(p) => Put(SiteOf(p), Running(p).v)
  BY DEF PutToTarget, Put
<1>1. CASE SetupRoles(p)
  BY <1>1 DEF SetupRoles, TaskStep, TaskOutcome
<1>2. CASE GetAndPutData(p)
  BY <1>2 DEF GetAndPutData, TaskStep, TaskOutcome
<1>3. CASE PutMetadata(p)
  BY <1>0, <1>3 DEF PutMetadata, TaskStep, TaskOutcome
<1>4. CASE RefreshSourceEntry(p)
  BY <1>4 DEF RefreshSourceEntry, TaskStep, TaskOutcome
<1>5. CASE PutDeleteMarker(p) \/ PutObjectTagging(p) \/ GetAndPutObject(p)
  <2>1. task[p] # "idle" /\ \E readable \in BOOLEAN : PutToCloud(p, readable)
    BY <1>5 DEF PutDeleteMarker, PutObjectTagging, GetAndPutObject, PutToCloud
  <2> QED BY <1>0, <2>1 DEF PutToCloud, TaskStep, TaskOutcome
<1>6. CASE InitiateMPU(p)
  BY <1>6 DEF InitiateMPU, TaskStep, TaskOutcome
<1>7. CASE CompleteRangedMPU(p)
  BY <1>7 DEF CompleteRangedMPU, TaskStep, TaskOutcome
<1>8. CASE CompleteMPU(p)
  BY <1>0, <1>8 DEF CompleteMPU, TaskStep, TaskOutcome
<1>9. CASE HandleMPUFailure(p)
  BY <1>9 DEF HandleMPUFailure, MultipleBackendAbortMPU, TaskStep, TaskOutcome
<1> QED BY <1>1, <1>2, <1>3, <1>4, <1>5, <1>6, <1>7, <1>8, <1>9 DEF ProcessorStep

(* The entry of a running task *)
LEMMA RunningEntry ==
    ASSUME Inv, NEW p \in Processors, task[p] # "idle"
    PROVE  /\ Running(p) \in EntriesOf(p) /\ Running(p).v \in Versions
           /\ HasRunning(partition[p])
<1> DEFINE q == partition[p]
           i == First(q, "running")
<1>1. q \in Seq(EntriesOf(p)) /\ HasRunning(q)
  BY DEF Inv, QueuesOK, QueueOK
<1>2. i \in 0 .. Len(q) /\ i # 0
  BY <1>1, FirstProperties DEF HasRunning
<1> HIDE DEF i
<1>3. q[i] \in EntriesOf(p)
  BY <1>1, <1>2
<1> QED BY <1>1, <1>3 DEF Running, EntriesOf, EntriesIn, i

(* A step that changes the queue and the task of one processor *)
LEMMA QueueStep ==
    ASSUME Inv, NEW p \in Processors, NEW q \in Seq(EntriesOf(p)), NEW st \in Steps,
           OneRunning(q), st = "idle" <=> ~HasRunning(q),
           partition' = [partition EXCEPT ![p] = q], task' = [task EXCEPT ![p] = st]
    PROVE  QueuesOK'
<1>1. DOMAIN partition = Processors /\ task \in [Processors -> Steps]
  BY DEF Inv, QueuesOK
<1>2. /\ partition' = [x \in Processors |-> partition'[x]]
      /\ task' \in [Processors -> Steps]
  BY <1>1
<1>3. ASSUME NEW x \in Processors PROVE QueueOK(x)'
  <2>1. CASE x = p
    BY <1>1, <2>1 DEF QueueOK
  <2>2. CASE x # p
    <3>1. partition'[x] = partition[x] /\ task'[x] = task[x]
      BY <1>1, <2>2
    <3>2. QueueOK(x)
      BY DEF Inv, QueuesOK
    <3> QED BY <3>1, <3>2 DEF QueueOK
  <2> QED BY <2>1, <2>2
<1> QED BY <1>2, <1>3 DEF QueuesOK

(* A message of the right type is sent *)
LEMMA SendStep ==
    ASSUME Inv, Grows, NEW w \in Processes, NEW m \in Messages', Send(w, m),
           gcTopic' = gcTopic
    PROVE  MessagesOK'
<1>1. outbox \in [Processes -> Seq(Messages')]
  BY TypesGrow DEF Inv, MessagesOK
<1>2. Append(outbox[w], m) \in Seq(Messages')
  BY <1>1, AppendProperties
<1>3. outbox' \in [Processes -> Seq(Messages')]
  BY <1>1, <1>2 DEF Send
<1> QED BY <1>3, TypesGrow DEF Inv, MessagesOK

(* The end of a task *)
LEMMA EndTaskStep ==
    ASSUME Inv, NEW p \in Processors, task[p] # "idle", EndTask(p)
    PROVE  QueuesOK'
<1> DEFINE r == Processed(partition[p], First(partition[p], "running"))
<1>1. /\ partition[p] \in Seq(EntriesOf(p)) /\ OneRunning(partition[p])
      /\ HasRunning(partition[p]) /\ p \in DOMAIN partition
  BY DEF Inv, QueuesOK, QueueOK
<1>2. r \in Seq(EntriesOf(p)) /\ ~HasRunning(r) /\ OneRunning(r)
  BY <1>1, EntriesStaged, EndEntry
<1>3. partition' = [partition EXCEPT ![p] = r] /\ task' = [task EXCEPT ![p] = "idle"]
  BY <1>1 DEF EndTask
<1> HIDE DEF r
<1>4. "idle" \in Steps
  BY DEF Steps
<1> QED BY <1>2, <1>3, <1>4, QueueStep

(* A status is sent at the end of a task: COMPLETED only once the site has   *)
(* the object                                                                *)
LEMMA PublishStep ==
    ASSUME Inv, Grows, NEW p \in Processors, task[p] # "idle",
           NEW status \in Statuses, PublishStatus(p, status), gcTopic' = gcTopic,
           status = "COMPLETED" => Held(SiteOf(p), Running(p).v, target', stale')
    PROVE  QueuesOK' /\ MessagesOK'
<1> DEFINE e == StatusEntry(SiteOf(p), status, Running(p))
           m == [topic |-> "status", entry |-> e]
<1>1. e \in StatusEntries' /\ e.stage = "waiting"
  <2>1. Running(p) \in EntriesIn(Stages) /\ SiteOf(p) \in Sites
    BY RunningEntry, ProcessorSites DEF EntriesOf
  <2> HIDE DEF Running
  <2>2. [Running(p) EXCEPT !.stage = "waiting"] \in EntriesIn({"waiting"})
    BY <2>1 DEF EntriesIn
  <2>3. e.site = SiteOf(p) /\ e.status = status /\ e.entry.v = Running(p).v
    BY <2>1 DEF StatusEntry, EntriesIn
  <2>4. e \in [site : Sites, status : Statuses, entry : EntriesIn({"waiting"}), stage : Stages]
    BY <2>1, <2>2 DEF StatusEntry, Stages
  <2>5. e.status = "COMPLETED" => Held(e.site, e.entry.v, target', stale')
    BY <2>3 DEF Holds, Held, Replicated
  <2>6. e.stage = "waiting"
    BY DEF StatusEntry
  <2> HIDE DEF e
  <2> QED BY <2>4, <2>5, <2>6 DEF StatusEntries, Holds, Held, Replicated
<1> HIDE DEF e
<1>2. m \in Messages'
  BY <1>1 DEF Messages, StatusMessages
<1>3. Send(p, m) /\ p \in Processes
  BY DEF PublishStatus, Processes, e
<1> HIDE DEF m
<1>4. MessagesOK'
  BY <1>2, <1>3, SendStep
<1> QED BY <1>4, EndTaskStep DEF PublishStatus

(* A step of a running task keeps the invariant *)
LEMMA TaskStepInv ==
    ASSUME Inv, NEW p \in Processors, TaskStep(p)
    PROVE  Inv'
<1>1. task[p] # "idle" /\ SiteOf(p) \in Sites /\ Running(p).v \in Versions
  BY RunningEntry, ProcessorSites DEF TaskStep
<1>2. TargetOK' /\ Grows
  BY <1>1, TargetGrows DEF TaskStep
<1>3. Put(SiteOf(p), Running(p).v) => Held(SiteOf(p), Running(p).v, target', stale')
  BY <1>1, TargetGrows DEF TaskStep
<1>4. SourceOK' /\ StatusOK'
  BY <1>2, Frame DEF TaskStep
<1>5. excused' \subseteq Sites => RestOK'
  <2>1. crashes' \in Nat
    BY DEF Inv, RestOK, TaskStep
  <2> QED BY <2>1 DEF Inv, RestOK, TaskStep
<1>6. gcTopic' = gcTopic /\ excused \subseteq Sites
  BY DEF TaskStep, Inv, RestOK
<1>7. ASSUME NEW st \in Steps \ {"idle"}, Step(p, st)
      PROVE  QueuesOK' /\ MessagesOK' /\ excused' \subseteq Sites
  <2>1. MessagesOK' /\ excused' \subseteq Sites
    BY <1>2, <1>6, <1>7, Frame DEF Step
  <2>2. /\ partition[p] \in Seq(EntriesOf(p)) /\ OneRunning(partition[p])
        /\ HasRunning(partition[p])
        /\ partition' = [partition EXCEPT ![p] = partition[p]]
    BY <1>1, <1>7 DEF Inv, QueuesOK, QueueOK, Step
  <2>3. QueuesOK'
    BY <1>7, <2>2, QueueStep DEF Step
  <2> QED BY <2>1, <2>3
<1>8. CASE EndTask(p) /\ UNCHANGED <<outbox, excused>>
  BY <1>1, <1>2, <1>4, <1>5, <1>6, <1>8, EndTaskStep, Frame DEF Inv
<1>9. CASE Skip(p)
  <2>1. QueuesOK' /\ UNCHANGED outbox /\ excused' = excused \cup {SiteOf(p)}
    BY <1>1, <1>9, EndTaskStep DEF Skip, Excuse
  <2> QED BY <1>1, <1>2, <1>4, <1>5, <1>6, <2>1, Frame DEF Inv
<1>10. CASE PublishStatus(p, "FAILED")
  <2>1. QueuesOK' /\ MessagesOK'
    BY <1>1, <1>2, <1>6, <1>10, PublishStep DEF Statuses
  <2> QED BY <1>2, <1>4, <1>5, <1>6, <1>10, <2>1 DEF Inv, PublishStatus
<1>11. CASE PublishStatus(p, "COMPLETED") /\ Held(SiteOf(p), Running(p).v, target', stale')
  <2>1. QueuesOK' /\ MessagesOK'
    BY <1>1, <1>2, <1>6, <1>11, PublishStep DEF Statuses
  <2> QED BY <1>2, <1>4, <1>5, <1>6, <1>11, <2>1 DEF Inv, PublishStatus
<1>12. TaskOutcome(p)
  BY DEF TaskStep
<1> QED BY <1>2, <1>3, <1>4, <1>5, <1>7, <1>8, <1>9, <1>10, <1>11, <1>12
        DEF Inv, TaskOutcome

(* An entry is taken from a queue: it starts a task or is skipped *)
LEMMA ProcessEntryInv ==
    ASSUME Inv, NEW p \in Processors, ProcessReplicationEntry(p)
    PROVE  Inv'
<1> DEFINE q == partition[p]
           i == First(q, "waiting")
<1>1. Grows
  BY DEF Grows, ProcessReplicationEntry, Inv, RestOK, bounds, sites, Replicated, Holds, Held
<1>2. SourceOK' /\ TargetOK' /\ StatusOK' /\ MessagesOK' /\ RestOK'
  BY <1>1, Frame DEF ProcessReplicationEntry, sites, statuses, bounds
<1>3. /\ q \in Seq(EntriesOf(p)) /\ OneRunning(q) /\ Staged(EntriesOf(p))
      /\ task[p] = "idle" <=> ~HasRunning(q)
      /\ task \in [Processors -> Steps]
      /\ p \in DOMAIN partition
  BY EntriesStaged DEF Inv, QueuesOK, QueueOK
<1>4. i \in 1 .. Len(q) /\ q[i].stage = "waiting"
  <2>1. i # 0 /\ i \in 0 .. Len(q)
    BY <1>3, FirstProperties DEF ProcessReplicationEntry
  <2> QED BY <1>3, <2>1, FirstProperties
<1>5. CASE task[p] = "idle"
  <2>1. /\ task' = [task EXCEPT ![p] = "setup"]
        /\ partition' = [partition EXCEPT ![p] = Mark(q, i, "running")]
    BY <1>3, <1>5 DEF ProcessReplicationEntry
  <2>2. LET r == Mark(q, i, "running")
        IN  r \in Seq(EntriesOf(p)) /\ OneRunning(r) /\ HasRunning(r)
    BY <1>3, <1>4, <1>5, StartEntry
  <2>3. QueuesOK'
    BY <2>1, <2>2, QueueStep DEF Steps
  <2> QED BY <1>2, <2>3 DEF Inv
<1>6. CASE task[p] # "idle"
  <2>1. /\ task' = [task EXCEPT ![p] = task[p]]
        /\ partition' = [partition EXCEPT ![p] = Processed(q, i)]
    BY <1>3, <1>6 DEF ProcessReplicationEntry
  <2>2. LET r == Processed(q, i)
        IN  r \in Seq(EntriesOf(p)) /\ OneRunning(r) /\ (HasRunning(r) <=> HasRunning(q))
    BY <1>3, <1>4, SkipEntry
  <2>3. QueuesOK'
    BY <1>3, <2>1, <2>2, QueueStep
  <2> QED BY <1>2, <2>3 DEF Inv
<1> QED BY <1>5, <1>6

-----------------------------------------------------------------------------
(* Steps of the status processor *)

(* The entry that the status processor takes *)
LEMMA WaitingStatus ==
    ASSUME Inv, First(statusTopic, "waiting") # 0
    PROVE  LET i == First(statusTopic, "waiting")
           IN  /\ i \in 1 .. Len(statusTopic) /\ statusTopic[i].stage = "waiting"
               /\ statusTopic[i] \in StatusEntries
<1>1. statusTopic \in Seq(StatusEntries)
  BY DEF Inv, StatusOK
<1>2. First(statusTopic, "waiting") \in 0 .. Len(statusTopic)
  BY <1>1, FirstProperties
<1>3. statusTopic[First(statusTopic, "waiting")].stage = "waiting"
  BY <1>1, FirstProperties
<1>4. First(statusTopic, "waiting") \in 1 .. Len(statusTopic)
  BY <1>2
<1> QED BY <1>1, <1>3, <1>4

(* The entry of a running status task *)
LEMMA RunningStatus ==
    ASSUME Inv, statusTask.step # "idle"
    PROVE  StatusRunning \in StatusEntries /\ StatusRunning.site \in Sites
<1> DEFINE i == First(statusTopic, "running")
<1>1. statusTopic \in Seq(StatusEntries) /\ HasRunning(statusTopic)
  BY DEF Inv, StatusOK
<1>2. i \in 0 .. Len(statusTopic) /\ i # 0
  BY <1>1, FirstProperties DEF HasRunning
<1> HIDE DEF i
<1>3. statusTopic[i] \in StatusEntries
  BY <1>1, <1>2
<1> QED BY <1>3 DEF StatusRunning, StatusEntries, i

(* The count of a replay entry selects one of the topics *)
LEMMA ReplayCount ==
    ASSUME NEW e \in StatusEntries, Replayable(e), NextReplayCount(e) + 1 \in DOMAIN replayTopics
    PROVE  [topic |-> "replay", to |-> <<e.site, replayTopics[NextReplayCount(e) + 1]>>,
            entry |-> [e.entry EXCEPT !.count = NextReplayCount(e)]] \in ReplayMessages
<1> DEFINE c == NextReplayCount(e)
           to == <<e.site, replayTopics[c + 1]>>
<1>1. e.site \in Sites /\ e.entry \in EntriesIn({"waiting"})
  BY DEF StatusEntries
<1>2. e.entry.count \in Unset .. NReplays - 1 /\ e.entry.count # 0
  BY <1>1 DEF EntriesIn, Replayable
<1>3. NReplays \in Nat /\ DOMAIN replayTopics = 1 .. NReplays
  BY ReplayTopicsType
<1>4. c \in 0 .. NReplays - 1
  BY <1>2, <1>3 DEF NextReplayCount, Unset
<1>5. to \in Processors /\ SiteOf(to) = e.site /\ to # Crr(SiteOf(to))
  BY <1>1, ProcessorSites
<1> HIDE DEF c, to
<1>6. /\ [e.entry EXCEPT !.count = c] \in EntriesIn({"waiting"})
      /\ [e.entry EXCEPT !.count = c].count # Unset
  BY <1>1, <1>3, <1>4 DEF EntriesIn, Unset
<1> QED BY <1>5, <1>6 DEF ReplayMessages, Fits, c, to

(* A status entry is processed at once *)
LEMMA StatusSkipped ==
    ASSUME Inv, Grows, NEW i \in 1 .. Len(statusTopic), statusTopic[i].stage = "waiting",
           statusTopic' = Processed(statusTopic, i), statusTask' = statusTask
    PROVE  StatusOK'
<1> DEFINE r == Processed(statusTopic, i)
<1>1. /\ statusTopic \in Seq(StatusEntries) /\ OneRunning(statusTopic)
      /\ statusTask.step = "idle" <=> ~HasRunning(statusTopic)
  BY DEF Inv, StatusOK
<1>2. r \in Seq(StatusEntries) /\ OneRunning(r) /\ (HasRunning(r) <=> HasRunning(statusTopic))
  BY <1>1, EntriesStaged, SkipEntry
<1>3. statusTask' \in [step : {"idle"}] \cup [step : {"put", "collect"}, md : Metadata']
  BY TypesGrow DEF Inv, StatusOK
<1> HIDE DEF r
<1>4. r \in Seq(StatusEntries') /\ statusTopic' = r
  BY <1>2, TypesGrow DEF r
<1> QED BY <1>1, <1>2, <1>3, <1>4 DEF StatusOK

(* The metadata a status is written into *)
LEMMA UpdatedType ==
    ASSUME Inv, Grows, NEW e \in StatusEntries, target' = target,
           updates' = updates, {s \in {e.site} : Outdated(e)} \subseteq stale'
    PROVE  Updated(e) \in Metadata'
<1>1. /\ source \in Metadata' /\ e.site \in Sites /\ e.status \in Statuses
      /\ e.entry.v \in Versions
      /\ e.status = "COMPLETED" => Held(e.site, e.entry.v, target', stale')
  BY TypesGrow DEF Inv, SourceOK, StatusEntries, EntriesIn, Grows
<1>2. /\ source \in [v : Versions, content : Contents, status : [Sites -> Statuses],
                     stored : SUBSET Sites, data : BOOLEAN, multipart : BOOLEAN]
      /\ source.v <= 1 + updates'
      /\ \A s \in Sites : source.status[s] = "COMPLETED" => Held(s, source.v, target', stale')
  BY <1>1 DEF Metadata, Holds
<1>3. /\ Updated(e).v = source.v
      /\ Updated(e).status = [source.status EXCEPT ![e.site] = e.status]
      /\ Updated(e) \in [v : Versions, content : Contents, status : [Sites -> Statuses],
                         stored : SUBSET Sites, data : BOOLEAN, multipart : BOOLEAN]
  BY <1>1, <1>2 DEF Updated
<1>4. e.status = "COMPLETED" => Held(e.site, source.v, target', stale')
  <2>1. CASE e.entry.v < source.v
    <3>1. e.status = "COMPLETED" => e.site \in stale'
      BY <2>1 DEF Outdated
    <3> QED BY <1>1, <3>1 DEF Held
  <2>2. CASE ~(e.entry.v < source.v)
    <3>1. target'[e.site] \in Int
      BY <1>1 DEF Inv, TargetOK, Absent
    <3>2. source.v \in Int /\ e.entry.v \in Int
      BY <1>1, <1>2, ReplicationAssumption DEF Versions, ReplicationAssumption
    <3>3. source.v <= e.entry.v
      BY <2>2, <3>2
    <3> QED BY <1>1, <3>1, <3>2, <3>3 DEF Held
  <2> QED BY <2>1, <2>2
<1>5. \A s \in Sites : Updated(e).status[s] = "COMPLETED" => Held(s, source.v, target', stale')
  BY <1>1, <1>2, <1>3, <1>4
<1> HIDE DEF Updated
<1> QED BY <1>2, <1>3, <1>5 DEF Metadata, Holds

LEMMA RefreshInv ==
    ASSUME Inv, RefreshAndDecide
    PROVE  Inv'
<1> DEFINE i == First(statusTopic, "waiting")
           e == statusTopic[i]
<1>1. Grows
  BY DEF Grows, RefreshAndDecide, Inv, RestOK, bounds, sites, Replicated, Holds, Held
<1>2. /\ SourceOK' /\ QueuesOK'
      /\ excused' \subseteq Sites => RestOK'
  BY <1>1, Frame DEF RefreshAndDecide, queues, bounds, Inv, RestOK
<1>3. /\ i \in 1 .. Len(statusTopic) /\ e.stage = "waiting" /\ e \in StatusEntries
      /\ e.site \in Sites
  <2>1. i # 0
    BY DEF RefreshAndDecide
  <2>2. i \in 1 .. Len(statusTopic) /\ e.stage = "waiting" /\ e \in StatusEntries
    BY <2>1, WaitingStatus
  <2> QED BY <2>2 DEF StatusEntries
<1>4. excused \subseteq Sites /\ gcTopic' = gcTopic /\ TargetOK'
  BY <1>3 DEF Inv, RestOK, RefreshAndDecide, TargetOK
<1>5. CASE /\ statusTopic' = Processed(statusTopic, i) /\ UNCHANGED statusTask
           /\ Excuse({e.site}) /\ UNCHANGED outbox
  <2>1. StatusOK' /\ MessagesOK'
    BY <1>1, <1>3, <1>4, <1>5, StatusSkipped, Frame
  <2> QED BY <1>2, <1>3, <1>4, <1>5, <2>1 DEF Inv, Excuse
<1>6. CASE /\ statusTopic' = Processed(statusTopic, i)
           /\ UNCHANGED <<statusTask, outbox, excused>>
  <2>1. StatusOK' /\ MessagesOK'
    BY <1>1, <1>3, <1>4, <1>6, StatusSkipped, Frame
  <2> QED BY <1>2, <1>4, <1>6, <2>1 DEF Inv
<1>7. CASE /\ statusTopic' = Processed(statusTopic, i) /\ Replayable(e)
           /\ PushReplayEntry(e, NextReplayCount(e))
           /\ UNCHANGED <<statusTask, excused>>
  <2>1. StatusOK'
    BY <1>1, <1>3, <1>7, StatusSkipped
  <2>2. CASE UNCHANGED outbox
    BY <1>1, <1>2, <1>4, <1>7, <2>1, <2>2, Frame DEF Inv
  <2>3. CASE /\ NextReplayCount(e) + 1 \in DOMAIN replayTopics
             /\ Send(StatusProcessor, [topic |-> "replay",
                      to |-> <<e.site, replayTopics[NextReplayCount(e) + 1]>>,
                      entry |-> [e.entry EXCEPT !.count = NextReplayCount(e)]])
    <3> DEFINE m == [topic |-> "replay",
                      to |-> <<e.site, replayTopics[NextReplayCount(e) + 1]>>,
                      entry |-> [e.entry EXCEPT !.count = NextReplayCount(e)]]
    <3>1. m \in ReplayMessages
      BY <1>3, <1>7, <2>3, ReplayCount
    <3>2. Send(StatusProcessor, m)
      BY <2>3
    <3> HIDE DEF m
    <3>3. m \in Messages' /\ StatusProcessor \in Processes
      BY <1>1, <3>1, TypesGrow DEF Messages, Processes
    <3>4. MessagesOK'
      BY <1>1, <1>4, <3>2, <3>3, SendStep
    <3> QED BY <1>2, <1>4, <1>7, <2>1, <3>4 DEF Inv
  <2> QED BY <1>7, <2>2, <2>3 DEF PushReplayEntry
<1>8. CASE /\ statusTopic' = Mark(statusTopic, i, "running")
           /\ statusTask' = [step |-> "put", md |-> Updated(e)]
           /\ stale' = stale \cup {s \in {e.site} : Outdated(e)}
           /\ UNCHANGED <<outbox, excused>>
  <2>1. statusTopic \in Seq(StatusEntries) /\ ~HasRunning(statusTopic)
    BY DEF Inv, StatusOK, RefreshAndDecide
  <2>2. LET r == Mark(statusTopic, i, "running")
        IN  r \in Seq(StatusEntries) /\ OneRunning(r) /\ HasRunning(r)
    BY <1>3, <2>1, EntriesStaged, StartEntry
  <2>3. statusTopic' \in Seq(StatusEntries') /\ OneRunning(statusTopic') /\ HasRunning(statusTopic')
    BY <1>1, <1>8, <2>2, TypesGrow
  <2>4. Updated(e) \in Metadata'
    BY <1>1, <1>3, <1>8, UpdatedType DEF RefreshAndDecide, bounds
  <2>5. StatusOK'
    BY <1>8, <2>3, <2>4 DEF StatusOK
  <2> QED BY <1>1, <1>2, <1>4, <1>8, <2>5, Frame DEF Inv
<1> QED BY <1>5, <1>6, <1>7, <1>8 DEF RefreshAndDecide

(* The end of a status task *)
LEMMA EndStatusStep ==
    ASSUME Inv, Grows, statusTask.step # "idle", EndStatusTask
    PROVE  StatusOK'
<1> DEFINE r == Processed(statusTopic, First(statusTopic, "running"))
<1>1. /\ statusTopic \in Seq(StatusEntries) /\ OneRunning(statusTopic)
      /\ HasRunning(statusTopic)
  BY DEF Inv, StatusOK
<1>2. r \in Seq(StatusEntries) /\ ~HasRunning(r) /\ OneRunning(r)
  BY <1>1, EntriesStaged, EndEntry
<1>3. statusTopic' = r /\ statusTask' = [step |-> "idle"]
  BY DEF EndStatusTask
<1> HIDE DEF r
<1>4. statusTopic' \in Seq(StatusEntries')
  BY <1>2, <1>3, TypesGrow
<1> QED BY <1>2, <1>3, <1>4 DEF StatusOK

LEMMA PutSourceInv ==
    ASSUME Inv, PutSourceMetadata
    PROVE  Inv'
<1>1. Grows
  BY DEF Grows, PutSourceMetadata, Inv, RestOK, bounds, sites, Replicated, Holds, Held
<1>2. /\ TargetOK' /\ QueuesOK' /\ MessagesOK'
      /\ excused' \subseteq Sites => RestOK'
  BY <1>1, Frame DEF PutSourceMetadata, sites, queues, bounds, Inv, RestOK
<1>3. statusTask.step = "put" /\ excused \subseteq Sites
  BY DEF PutSourceMetadata, Inv, RestOK
<1>4. CASE /\ source' = [statusTask.md EXCEPT !.data = source.data]
           /\ statusTask' = [statusTask EXCEPT !.step = "collect"]
           /\ UNCHANGED <<statusTopic, excused>>
  <2>1. statusTask \in [step : {"put", "collect"}, md : Metadata]
    BY <1>3 DEF Inv, StatusOK
  <2>2. statusTask.md \in Metadata'
    BY <1>1, <2>1, TypesGrow
  <2>3. statusTask' \in [step : {"put", "collect"}, md : Metadata']
    BY <1>4, <2>1, <2>2
  <2>4. StatusOK'
    <3>1. statusTask'.step = "collect"
      BY <1>4, <2>1
    <3> QED BY <1>1, <1>3, <1>4, <2>3, <3>1, TypesGrow DEF Inv, StatusOK
  <2>5. source.data \in BOOLEAN /\ (~source.data => Everywhere')
    BY <1>1, TypesGrow DEF Inv, SourceOK, Metadata
  <2>6. [statusTask.md EXCEPT !.data = source.data] \in Metadata'
    BY <2>2, <2>5 DEF Metadata
  <2>7. source'.data = source.data
    BY <1>4, <2>2 DEF Metadata
  <2>8. SourceOK'
    BY <1>4, <2>5, <2>6, <2>7 DEF SourceOK
  <2> QED BY <1>2, <1>3, <1>4, <2>4, <2>8 DEF Inv
<1>5. CASE EndStatusTask /\ Excuse({StatusRunning.site}) /\ UNCHANGED source
  <2>1. StatusOK' /\ SourceOK'
    BY <1>1, <1>3, <1>5, EndStatusStep, Frame
  <2>2. excused' \subseteq Sites
    BY <1>3, <1>5, RunningStatus DEF Excuse
  <2> QED BY <1>2, <2>1, <2>2 DEF Inv
<1> QED BY <1>4, <1>5 DEF PutSourceMetadata

LEMMA GarbageInv ==
    ASSUME Inv, HandleGarbageCollection
    PROVE  Inv'
<1>1. Grows
  BY DEF Grows, HandleGarbageCollection, Inv, RestOK, bounds, sites, Replicated, Holds, Held
<1>2. SourceOK' /\ TargetOK' /\ QueuesOK' /\ RestOK'
  BY <1>1, Frame DEF HandleGarbageCollection, sites, queues, bounds
<1>3. statusTask.step = "collect" /\ EndStatusTask /\ gcTopic' = gcTopic
  BY DEF HandleGarbageCollection
<1>4. StatusOK'
  BY <1>1, <1>3, EndStatusStep
<1>5. CASE UNCHANGED outbox
  BY <1>1, <1>2, <1>3, <1>4, <1>5, Frame DEF Inv
<1>6. CASE /\ GlobalStatus(statusTask.md.status) = "COMPLETED"
           /\ Send(StatusProcessor, [topic |-> "gc"])
  <2>1. statusTask.md \in Metadata
    BY <1>3 DEF Inv, StatusOK
  <2>2. \A s \in Sites : statusTask.md.status[s] = "COMPLETED"
    <3>1. ~\E s \in Sites : statusTask.md.status[s] = "FAILED"
      BY <1>6 DEF GlobalStatus
    <3> QED BY <1>6, <3>1 DEF GlobalStatus
  <2>3. Everywhere
    BY <2>1, <2>2 DEF Metadata, Everywhere, Holds, Held, Replicated
  <2>4. [topic |-> "gc"] \in Messages /\ StatusProcessor \in Processes
    BY <2>3 DEF Messages, GcMessages, Processes
  <2>5. MessagesOK'
    BY <1>1, <1>3, <1>6, <2>4, SendStep, TypesGrow
  <2> QED BY <1>2, <1>4, <2>5 DEF Inv
<1> QED BY <1>5, <1>6 DEF HandleGarbageCollection

-----------------------------------------------------------------------------
(* Deliveries, the collector, the API, users and crashes *)

(* What a message of each topic is *)
LEMMA MessageForms ==
    ASSUME NEW m \in Messages
    PROVE  /\ m.topic = "status" => m.entry \in StatusEntries /\ m.entry.stage = "waiting"
           /\ m.topic = "gc" => Everywhere
           /\ m.topic = "replay" => /\ m.to \in Processors
                                    /\ m.entry \in EntriesOf(m.to)
                                    /\ m.entry.stage = "waiting"
           /\ m.topic \in {"status", "gc", "replay"}
           /\ MsgSites(m) \subseteq Sites
<1>1. CASE m \in StatusMessages
  BY <1>1 DEF StatusMessages, MsgSites, StatusEntries
<1>2. CASE m \in ReplayMessages
  <2>1. m.topic = "replay" /\ m.to \in Processors /\ Fits(m.to, m.entry)
        /\ m.entry \in EntriesIn({"waiting"})
    BY <1>2 DEF ReplayMessages
  <2>2. m.entry \in EntriesIn(Stages) /\ m.entry.stage = "waiting"
    BY <2>1 DEF EntriesIn, Stages
  <2>3. MsgSites(m) \subseteq Sites
    BY <2>1, ProcessorSites DEF MsgSites
  <2> QED BY <2>1, <2>2, <2>3 DEF EntriesOf
<1>3. CASE m \in GcMessages
  BY <1>3 DEF GcMessages, MsgSites
<1> QED BY <1>1, <1>2, <1>3 DEF Messages

(* A new entry in the queue of one processor *)
LEMMA AppendQueue ==
    ASSUME Inv, NEW p \in Processors, NEW e \in EntriesOf(p), e.stage = "waiting",
           partition' = [partition EXCEPT ![p] = Append(@, e)], task' = task
    PROVE  QueuesOK'
<1> DEFINE r == Append(partition[p], e)
<1>1. /\ partition[p] \in Seq(EntriesOf(p)) /\ OneRunning(partition[p])
      /\ task[p] = "idle" <=> ~HasRunning(partition[p])
      /\ task \in [Processors -> Steps] /\ p \in DOMAIN partition
  BY DEF Inv, QueuesOK, QueueOK
<1>2. r \in Seq(EntriesOf(p)) /\ OneRunning(r) /\ (HasRunning(r) <=> HasRunning(partition[p]))
  BY <1>1, AppendEntry
<1>3. partition' = [partition EXCEPT ![p] = r] /\ task' = [task EXCEPT ![p] = task[p]]
  BY <1>1
<1> HIDE DEF r
<1> QED BY <1>1, <1>2, <1>3, QueueStep

(* A new entry in the status topic *)
LEMMA AppendStatus ==
    ASSUME Inv, Grows, NEW e \in StatusEntries, e.stage = "waiting",
           statusTopic' = Append(statusTopic, e), statusTask' = statusTask
    PROVE  StatusOK'
<1> DEFINE r == Append(statusTopic, e)
<1>1. /\ statusTopic \in Seq(StatusEntries) /\ OneRunning(statusTopic)
      /\ statusTask.step = "idle" <=> ~HasRunning(statusTopic)
  BY DEF Inv, StatusOK
<1>2. r \in Seq(StatusEntries) /\ OneRunning(r) /\ (HasRunning(r) <=> HasRunning(statusTopic))
  BY <1>1, AppendEntry
<1>3. statusTask' \in [step : {"idle"}] \cup [step : {"put", "collect"}, md : Metadata']
  BY TypesGrow DEF Inv, StatusOK
<1> HIDE DEF r
<1>4. statusTopic' = r /\ r \in Seq(StatusEntries')
  BY <1>2, TypesGrow DEF r
<1> QED BY <1>1, <1>2, <1>3, <1>4 DEF StatusOK

LEMMA DeliverInv ==
    ASSUME Inv, NEW w \in Processes, Deliver(w)
    PROVE  Inv'
<1> DEFINE m == Head(outbox[w])
<1>1. Grows
  BY DEF Grows, Deliver, Inv, RestOK, bounds, sites, Replicated, Holds, Held
<1>2. /\ SourceOK' /\ TargetOK'
      /\ excused' \subseteq Sites => RestOK'
  BY <1>1, Frame DEF Deliver, sites, bounds, Inv, RestOK
<1>3. outbox[w] \in Seq(Messages) /\ outbox[w] # <<>> /\ outbox \in [Processes -> Seq(Messages)]
  BY DEF Inv, MessagesOK, Deliver
<1>4. m \in Messages /\ Tail(outbox[w]) \in Seq(Messages)
  BY <1>3, HeadTailProperties
<1> HIDE DEF m
<1>5. outbox' \in [Processes -> Seq(Messages')]
  <2>1. outbox' = [outbox EXCEPT ![w] = Tail(outbox[w])]
    BY <1>3 DEF Deliver
  <2> QED BY <1>1, <1>3, <1>4, <2>1, TypesGrow
<1>6. excused \subseteq Sites /\ gcTopic \in Nat /\ (gcTopic > 0 => Everywhere)
      /\ task' = task /\ statusTask' = statusTask
  BY DEF Inv, RestOK, MessagesOK, Deliver
<1>7. gcTopic' = gcTopic => MessagesOK'
  BY <1>1, <1>5, <1>6, TypesGrow DEF MessagesOK
<1>8. /\ UNCHANGED partition => QueuesOK'
      /\ UNCHANGED statusTopic => StatusOK'
  BY <1>1, <1>6, Frame DEF queues, statuses
<1>9. CASE /\ m.topic = "status" /\ statusTopic' = Append(statusTopic, m.entry)
           /\ UNCHANGED <<partition, gcTopic, excused>>
  <2>1. StatusOK'
    BY <1>1, <1>4, <1>6, <1>9, MessageForms, AppendStatus
  <2> QED BY <1>2, <1>6, <1>7, <1>8, <1>9, <2>1 DEF Inv
<1>10. CASE /\ m.topic = "gc" /\ gcTopic' = gcTopic + 1
            /\ UNCHANGED <<partition, statusTopic, excused>>
  <2>1. gcTopic' \in Nat /\ Everywhere'
    BY <1>1, <1>4, <1>6, <1>10, MessageForms, TypesGrow
  <2>2. MessagesOK'
    BY <1>5, <2>1 DEF MessagesOK
  <2> QED BY <1>2, <1>6, <1>8, <1>10, <2>2 DEF Inv
<1>11. CASE /\ m.topic = "replay"
            /\ partition' = [partition EXCEPT ![m.to] = Append(@, m.entry)]
            /\ UNCHANGED <<statusTopic, gcTopic, excused>>
  <2>1. QueuesOK'
    BY <1>4, <1>6, <1>11, MessageForms, AppendQueue
  <2> QED BY <1>2, <1>6, <1>7, <1>8, <1>11, <2>1 DEF Inv
<1>12. CASE Excuse(MsgSites(m)) /\ UNCHANGED <<partition, statusTopic, gcTopic>>
  <2>1. excused' \subseteq Sites
    BY <1>4, <1>6, <1>12, MessageForms DEF Excuse
  <2> QED BY <1>2, <1>7, <1>8, <1>12, <2>1 DEF Inv
<1> QED BY <1>9, <1>10, <1>11, <1>12 DEF Deliver, m

LEMMA DeleteDataInv ==
    ASSUME Inv, ExecuteDeleteData
    PROVE  Inv'
<1>1. Grows
  BY DEF Grows, ExecuteDeleteData, Inv, RestOK, sites, Replicated, Holds, Held
<1>2. TargetOK' /\ QueuesOK' /\ StatusOK'
  BY <1>1, Frame DEF ExecuteDeleteData, sites, queues, statuses
<1>3. Everywhere' /\ gcTopic \in Nat /\ gcTopic > 0
  BY <1>1, TypesGrow DEF ExecuteDeleteData, Inv, MessagesOK
<1>4. gcTopic' \in Nat /\ crashes' \in Nat
  BY <1>3 DEF ExecuteDeleteData, Inv, RestOK
<1>5. MessagesOK' /\ RestOK'
  <2>1. outbox' = outbox /\ retry' = retry /\ excused' = excused /\ updates' = updates /\ retries' = retries
    BY DEF ExecuteDeleteData
  <2> QED BY <1>1, <1>3, <1>4, <2>1, TypesGrow DEF Inv, MessagesOK, RestOK
<1>6. SourceOK'
  <2>1. source \in Metadata'
    BY <1>1, TypesGrow DEF Inv, SourceOK
  <2>2. [source EXCEPT !.data = FALSE] \in Metadata'
    BY <2>1 DEF Metadata
  <2>3. source' \in {source, [source EXCEPT !.data = FALSE]}
    BY DEF ExecuteDeleteData
  <2> QED BY <1>3, <2>1, <2>2, <2>3 DEF SourceOK
<1> QED BY <1>2, <1>5, <1>6 DEF Inv

(* A new entry made from the source's metadata *)
LEMMA NewEntry ==
    ASSUME NEW s \in Sites, NEW md, md.v \in Versions, md.content \in Contents
    PROVE  /\ Entry(s, md, Unset) \in EntriesIn({"waiting"})
           /\ Entry(s, md, Unset).count = Unset
           /\ Entry(s, md, Unset) \in EntriesOf(Crr(s))
           /\ Entry(s, md, Unset).stage = "waiting"
<1>1. Unset \in Unset .. NReplays - 1
  BY ReplayTopicsType DEF Unset
<1>2. /\ Entry(s, md, Unset) \in EntriesIn({"waiting"})
      /\ Entry(s, md, Unset) \in EntriesIn(Stages)
      /\ Entry(s, md, Unset).count = Unset
      /\ Entry(s, md, Unset).stage = "waiting"
  BY <1>1 DEF Entry, EntriesIn, Stages
<1> QED BY <1>2 DEF EntriesOf, Fits, Crr, SiteOf

LEMMA RetryInv ==
    ASSUME Inv, NEW s \in Sites, RetryFailedCRR(s)
    PROVE  Inv'
<1>1. Grows
  BY DEF Grows, RetryFailedCRR, Inv, RestOK, sites, Replicated, Holds, Held
<1>2. SourceOK' /\ TargetOK' /\ QueuesOK' /\ StatusOK' /\ MessagesOK'
  BY <1>1, Frame DEF RetryFailedCRR, sites, queues, statuses
<1>3. source.v \in Versions /\ source.content \in Contents
  BY DEF Inv, SourceOK, Metadata
<1>4. [step |-> "status", entry |-> Entry(s, source, Unset)] \in Requests
  BY <1>3, NewEntry DEF Requests
<1>5. retry' \in [Sites -> Requests]
  <2>1. [step |-> "locked"] \in Requests /\ retry \in [Sites -> Requests]
    BY DEF Requests, Inv, RestOK
  <2> HIDE DEF Requests
  <2> QED BY <1>4, <2>1 DEF RetryFailedCRR
<1>6. updates \in Nat /\ retries \in Nat /\ MaxRequests \in Nat /\ updates' = updates
      /\ retries' = retries + 1 /\ updates + retries < MaxRequests
  BY ReplicationAssumption DEF RetryFailedCRR, Inv, RestOK, ReplicationAssumption
<1>7. retries' \in Nat /\ updates' + retries' <= MaxRequests
  BY <1>6
<1>8. RestOK'
  BY <1>5, <1>6, <1>7 DEF RetryFailedCRR, Inv, RestOK
<1> QED BY <1>2, <1>8 DEF Inv

LEMMA PushStatusInv ==
    ASSUME Inv, NEW s \in Sites, PushRetryStatus(s)
    PROVE  Inv'
<1>1. Grows
  BY DEF Grows, PushRetryStatus, Inv, RestOK, sites, bounds, Replicated, Holds, Held
<1>2. /\ SourceOK' /\ TargetOK' /\ QueuesOK' /\ MessagesOK'
      /\ UNCHANGED statusTopic => StatusOK'
  BY <1>1, Frame DEF PushRetryStatus, sites, queues, statuses
<1>3. retry[s] \in Requests /\ retry[s].step = "status" /\ retry \in [Sites -> Requests]
  BY DEF PushRetryStatus, Inv, RestOK
<1>4. retry[s] \in [step : {"status", "crr"},
                    entry : {e \in EntriesIn({"waiting"}) : e.count = Unset}]
  BY <1>3 DEF Requests
<1>5. [retry[s] EXCEPT !.step = "crr"] \in Requests /\ [step |-> "locked"] \in Requests
  BY <1>4 DEF Requests
<1>6. StatusEntry(s, "PENDING", retry[s].entry) \in StatusEntries
      /\ StatusEntry(s, "PENDING", retry[s].entry).stage = "waiting"
  <2> DEFINE e == retry[s].entry
  <2>1. e \in EntriesIn({"waiting"})
    BY <1>4
  <2> HIDE DEF e
  <2>2. [e EXCEPT !.stage = "waiting"] \in EntriesIn({"waiting"})
    BY <2>1 DEF EntriesIn
  <2>3. /\ StatusEntry(s, "PENDING", e) \in StatusEntries
        /\ StatusEntry(s, "PENDING", e).stage = "waiting"
    BY <2>2 DEF StatusEntry, StatusEntries, Statuses, Stages
  <2> QED BY <2>3 DEF e
<1> HIDE DEF Requests
<1>7. retry' \in [Sites -> Requests]
  <2>1. CASE retry' = [retry EXCEPT ![s].step = "crr"]
    <3>1. retry' = [retry EXCEPT ![s] = [retry[s] EXCEPT !.step = "crr"]]
      BY <1>3, <2>1
    <3> QED BY <1>3, <1>5, <3>1
  <2>2. CASE retry' = [retry EXCEPT ![s] = [step |-> "locked"]]
    BY <1>3, <1>5, <2>2
  <2> QED BY <2>1, <2>2 DEF PushRetryStatus
<1>8. RestOK'
  BY <1>7 DEF PushRetryStatus, Inv, RestOK, bounds
<1>9. StatusOK'
  <2>1. statusTask' = statusTask
    BY DEF PushRetryStatus
  <2>2. CASE statusTopic' = Append(statusTopic, StatusEntry(s, "PENDING", retry[s].entry))
    <3> DEFINE e == StatusEntry(s, "PENDING", retry[s].entry)
    <3>1. e \in StatusEntries /\ e.stage = "waiting" /\ statusTopic' = Append(statusTopic, e)
      BY <1>6, <2>2
    <3> HIDE DEF e
    <3> QED BY <1>1, <2>1, <3>1, AppendStatus
  <2> QED BY <1>2, <2>2 DEF PushRetryStatus
<1> QED BY <1>2, <1>8, <1>9 DEF Inv

LEMMA PushEntryInv ==
    ASSUME Inv, NEW s \in Sites, PushRetryEntry(s)
    PROVE  Inv'
<1>1. Grows
  BY DEF Grows, PushRetryEntry, Inv, RestOK, sites, bounds, Replicated, Holds, Held
<1>2. /\ SourceOK' /\ TargetOK' /\ StatusOK' /\ MessagesOK'
      /\ UNCHANGED partition => QueuesOK'
  BY <1>1, Frame DEF PushRetryEntry, sites, queues, statuses
<1>3. retry[s] \in Requests /\ retry[s].step = "crr" /\ retry \in [Sites -> Requests]
  BY DEF PushRetryEntry, Inv, RestOK
<1>4. retry[s].entry \in EntriesIn({"waiting"}) /\ retry[s].entry.count = Unset
  BY <1>3 DEF Requests
<1>5. [step |-> "none"] \in Requests /\ [step |-> "locked"] \in Requests
  BY DEF Requests
<1>6. retry[s].entry \in EntriesOf(Crr(s)) /\ retry[s].entry.stage = "waiting"
      /\ Crr(s) \in Processors
  BY <1>4, ProcessorSites DEF EntriesOf, EntriesIn, Fits, Stages
<1> HIDE DEF Requests
<1>7. retry' \in [Sites -> Requests] /\ excused' \subseteq Sites
  BY <1>3, <1>5 DEF PushRetryEntry, Inv, RestOK, Excuse
<1>8. RestOK'
  BY <1>7 DEF PushRetryEntry, Inv, RestOK, bounds
<1>9. QueuesOK'
  BY <1>2, <1>6, AppendQueue DEF PushRetryEntry
<1> QED BY <1>2, <1>8, <1>9 DEF Inv

LEMMA UserUpdateInv ==
    ASSUME Inv, UserUpdate
    PROVE  Inv'
<1> DEFINE md == [source EXCEPT !.v = @ + 1, !.content = "METADATA",
                                !.status = [s \in Sites |-> "PENDING"]]
<1>0. updates \in Nat /\ retries \in Nat /\ MaxRequests \in Nat /\ updates' = updates + 1
      /\ retries' = retries /\ updates + retries < MaxRequests
  BY ReplicationAssumption DEF UserUpdate, Inv, RestOK, ReplicationAssumption
<1>1. Grows
  <2>1. \A s \in Sites : Replicated(s) => Replicated(s)'
    BY DEF UserUpdate, sites, Replicated
  <2>2. \A s \in Sites, v \in Versions : Holds(s, v) => Held(s, v, target', stale')
    BY DEF UserUpdate, sites, Holds
  <2>3. updates' \in Nat /\ updates <= updates'
    BY <1>0
  <2> QED BY <1>0, <2>1, <2>2, <2>3 DEF Grows
<1>2. TargetOK' /\ StatusOK' /\ MessagesOK'
  BY <1>1, Frame DEF UserUpdate, sites, statuses
<1>3. RestOK'
  <2>1. updates' \in Nat /\ updates' + retries' <= MaxRequests
    BY <1>0
  <2> QED BY <1>0, <2>1 DEF UserUpdate, Inv, RestOK
<1>4. /\ source \in [v : Versions, content : Contents, status : [Sites -> Statuses],
                     stored : SUBSET Sites, data : BOOLEAN, multipart : BOOLEAN]
      /\ source.v <= 1 + updates
      /\ ~source.data => Everywhere
  BY DEF Inv, SourceOK, Metadata
<1>5. source.v + 1 \in Versions /\ source.v + 1 <= 1 + updates'
  <2>1. source.v \in 1 .. 1 + MaxRequests
    BY <1>4 DEF Versions
  <2> QED BY <1>0, <1>4, <2>1 DEF Versions
<1>6. /\ md \in [v : Versions, content : Contents, status : [Sites -> Statuses],
                 stored : SUBSET Sites, data : BOOLEAN, multipart : BOOLEAN]
      /\ md.v = source.v + 1 /\ md.content = "METADATA" /\ md.data = source.data
      /\ \A s \in Sites : md.status[s] = "PENDING"
  BY <1>4, <1>5 DEF Contents, Statuses
<1>7. source' = md
  BY DEF UserUpdate
<1> HIDE DEF md
<1>8. SourceOK'
  <2>1. md \in Metadata'
    BY <1>5, <1>6 DEF Metadata
  <2> QED BY <1>1, <1>4, <1>6, <1>7, <2>1, TypesGrow DEF SourceOK
<1>9. QueuesOK'
  <2>1. /\ partition' = [p \in Processors |-> IF p = Crr(SiteOf(p))
                            THEN Append(partition[p], Entry(SiteOf(p), md, Unset))
                            ELSE partition[p]]
        /\ task' = task /\ task \in [Processors -> Steps]
    BY Zenon DEF UserUpdate, Inv, QueuesOK, md
  <2>2. ASSUME NEW p \in Processors PROVE QueueOK(p)'
    <3>1. QueueOK(p) /\ task'[p] = task[p]
      BY <2>1 DEF Inv, QueuesOK
    <3>2. CASE p = Crr(SiteOf(p))
      <4> DEFINE e == Entry(SiteOf(p), md, Unset)
      <4>1. e \in EntriesOf(p) /\ e.stage = "waiting"
        BY <1>5, <1>6, <3>2, NewEntry, ProcessorSites DEF Contents
      <4>2. partition'[p] = Append(partition[p], e)
        BY <2>1, <3>2
      <4> HIDE DEF e
      <4>3. /\ partition'[p] \in Seq(EntriesOf(p)) /\ OneRunning(partition'[p])
            /\ HasRunning(partition'[p]) <=> HasRunning(partition[p])
        BY <3>1, <4>1, <4>2, AppendEntry DEF QueueOK
      <4> QED BY <3>1, <4>3 DEF QueueOK
    <3>3. CASE p # Crr(SiteOf(p))
      <4>1. partition'[p] = partition[p]
        BY <2>1, <3>3
      <4> QED BY <3>1, <4>1 DEF QueueOK
    <3> QED BY <3>2, <3>3
  <2>3. partition' = [p \in Processors |-> partition'[p]]
    BY <2>1
  <2> QED BY <2>1, <2>2, <2>3 DEF QueuesOK
<1> QED BY <1>2, <1>3, <1>8, <1>9 DEF Inv

(* The sites of the messages of a process *)
LEMMA LostSitesType ==
    ASSUME Inv, NEW w \in Processes
    PROVE  LostSites(w) \subseteq Sites
<1>1. outbox[w] \in Seq(Messages)
  BY DEF Inv, MessagesOK
<1>2. \A i \in DOMAIN outbox[w] : outbox[w][i] \in Messages
  BY <1>1
<1>3. \A i \in DOMAIN outbox[w] : MsgSites(outbox[w][i]) \subseteq Sites
  BY <1>2, MessageForms
<1> QED BY <1>3 DEF LostSites

(* The outbox of a process is lost *)
LEMMA OutboxLost ==
    ASSUME Inv, Grows, NEW w \in Processes, outbox' = [outbox EXCEPT ![w] = <<>>],
           gcTopic' = gcTopic
    PROVE  MessagesOK'
<1>1. outbox \in [Processes -> Seq(Messages')] /\ <<>> \in Seq(Messages')
  BY TypesGrow DEF Inv, MessagesOK
<1>2. outbox' \in [Processes -> Seq(Messages')]
  BY <1>1
<1> QED BY <1>2, TypesGrow DEF Inv, MessagesOK

LEMMA CrashProcessorInv ==
    ASSUME Inv, NEW p \in Processors, CrashProcessor(p)
    PROVE  Inv'
<1>1. Grows
  BY DEF Grows, CrashProcessor, Inv, RestOK, sites, Replicated, Holds, Held
<1>2. SourceOK' /\ TargetOK' /\ StatusOK'
  BY <1>1, Frame DEF CrashProcessor, sites, statuses
<1>3. MessagesOK'
  BY <1>1, OutboxLost DEF CrashProcessor, Processes
<1>4. RestOK'
  <2>1. crashes' \in Nat
    BY DEF CrashProcessor, Inv, RestOK
  <2>2. excused' \subseteq Sites
    BY LostSitesType DEF CrashProcessor, Excuse, Inv, RestOK, Processes
  <2> QED BY <2>1, <2>2 DEF CrashProcessor, Inv, RestOK
<1>5. QueuesOK'
  <2>1. PICK q \in Redelivered(partition[p]) : partition' = [partition EXCEPT ![p] = q]
    BY DEF CrashProcessor
  <2>2. partition[p] \in Seq(EntriesOf(p)) /\ Staged(EntriesOf(p))
    BY EntriesStaged DEF Inv, QueuesOK, QueueOK
  <2>3. q \in Seq(EntriesOf(p)) /\ OneRunning(q) /\ ~HasRunning(q)
    BY <2>2, RedeliveredProperties
  <2>4. "idle" \in Steps /\ task' = [task EXCEPT ![p] = "idle"]
    BY DEF Steps, CrashProcessor
  <2> QED BY <2>1, <2>3, <2>4, QueueStep
<1> QED BY <1>2, <1>3, <1>4, <1>5 DEF Inv

LEMMA CrashStatusInv ==
    ASSUME Inv, CrashStatusProcessor
    PROVE  Inv'
<1>0. StatusProcessor \in Processes
  BY DEF Processes
<1>1. Grows
  BY DEF Grows, CrashStatusProcessor, Inv, RestOK, sites, Replicated, Holds, Held
<1>2. SourceOK' /\ TargetOK' /\ QueuesOK'
  BY <1>1, Frame DEF CrashStatusProcessor, sites, queues
<1>3. MessagesOK'
  BY <1>0, <1>1, OutboxLost DEF CrashStatusProcessor
<1>4. RestOK'
  <2>1. crashes' \in Nat
    BY DEF CrashStatusProcessor, Inv, RestOK
  <2>2. excused' \subseteq Sites
    BY <1>0, LostSitesType DEF CrashStatusProcessor, Excuse, Inv, RestOK
  <2> QED BY <2>1, <2>2 DEF CrashStatusProcessor, Inv, RestOK
<1>5. StatusOK'
  <2>1. statusTopic' \in Redelivered(statusTopic) /\ statusTask' = [step |-> "idle"]
    BY DEF CrashStatusProcessor
  <2>2. statusTopic \in Seq(StatusEntries) /\ Staged(StatusEntries)
    BY EntriesStaged DEF Inv, StatusOK
  <2>3. \A r \in Redelivered(statusTopic) :
           r \in Seq(StatusEntries) /\ OneRunning(r) /\ ~HasRunning(r)
    BY <2>2, RedeliveredProperties
  <2>4. statusTopic' \in Seq(StatusEntries')
    BY <1>1, <2>1, <2>3, TypesGrow
  <2> QED BY <2>1, <2>3, <2>4 DEF StatusOK
<1> QED BY <1>2, <1>3, <1>4, <1>5 DEF Inv

-----------------------------------------------------------------------------
(* The invariant holds *)

LEMMA InitInv == Init => Inv
<1> SUFFICES ASSUME Init PROVE Inv
  OBVIOUS
<1>1. PICK object \in Objects :
        /\ target = [s \in Sites |-> IF s \in object.held THEN 0 ELSE Absent]
        /\ source = [v |-> 1, content |-> object.content,
                     status |-> [s \in Sites |-> "PENDING"],
                     stored |-> object.held, data |-> TRUE, multipart |-> object.multipart]
  BY DEF Init
<1>2. object \in [content : Contents, multipart : BOOLEAN, held : SUBSET Sites]
  BY ReplicationAssumption DEF ReplicationAssumption, Contents
<1>3. MaxRequests \in Nat /\ 1 \in Versions
  BY ReplicationAssumption DEF ReplicationAssumption, Versions
<1>4. updates = 0 /\ retries = 0 /\ crashes = 0 /\ gcTopic = 0 /\ excused = {}
      /\ retry = [s \in Sites |-> [step |-> "none"]]
      /\ outbox = [w \in Processes |-> <<>>]
  BY DEF Init
<1>5. SourceOK
  <2>1. source.v <= 1 + updates /\ source.data
    BY <1>1, <1>4
  <2>2. \A s \in Sites : source.status[s] = "PENDING"
    BY <1>1
  <2>3. source \in [v : Versions, content : Contents, status : [Sites -> Statuses],
                    stored : SUBSET Sites, data : BOOLEAN, multipart : BOOLEAN]
    BY <1>1, <1>2, <1>3 DEF Statuses
  <2> QED BY <2>1, <2>2, <2>3 DEF SourceOK, Metadata
<1>6. TargetOK
  <2>1. stale = {}
    BY DEF Init
  <2> QED BY <1>1, <1>3, <2>1 DEF TargetOK, Absent
<1>7. QueuesOK
  <2>1. /\ partition = [p \in Processors |-> IF p = Crr(SiteOf(p))
                          THEN <<Entry(SiteOf(p), source, Unset)>> ELSE <<>>]
        /\ task = [p \in Processors |-> "idle"]
    BY DEF Init
  <2>2. ASSUME NEW p \in Processors PROVE QueueOK(p)
    <3>1. CASE p = Crr(SiteOf(p))
      <4> DEFINE e == Entry(SiteOf(p), source, Unset)
      <4>1. e \in EntriesOf(p) /\ e.stage = "waiting"
        BY <1>1, <1>2, <1>3, <3>1, NewEntry, ProcessorSites
      <4>2. partition[p] = <<e>>
        BY <2>1, <3>1
      <4> HIDE DEF e
      <4>3. partition[p] \in Seq(EntriesOf(p)) /\ Len(partition[p]) = 1 /\ partition[p][1] = e
        BY <4>1, <4>2
      <4>4. ~HasRunning(partition[p]) /\ OneRunning(partition[p])
        BY <4>1, <4>3 DEF HasRunning, OneRunning
      <4> QED BY <2>1, <4>3, <4>4 DEF QueueOK
    <3>2. CASE p # Crr(SiteOf(p))
      <4>1. partition[p] = <<>>
        BY <2>1, <3>2
      <4>2. ~HasRunning(partition[p]) /\ OneRunning(partition[p])
        BY <4>1 DEF HasRunning, OneRunning
      <4> QED BY <2>1, <4>1, <4>2 DEF QueueOK
    <3> QED BY <3>1, <3>2
  <2>3. task \in [Processors -> Steps]
    BY <2>1 DEF Steps
  <2> QED BY <2>1, <2>2, <2>3 DEF QueuesOK
<1>8. StatusOK
  <2>1. statusTopic = <<>> /\ statusTask = [step |-> "idle"]
    BY DEF Init
  <2>2. ~HasRunning(statusTopic) /\ OneRunning(statusTopic) /\ statusTopic \in Seq(StatusEntries)
    BY <2>1 DEF HasRunning, OneRunning
  <2> QED BY <2>1, <2>2 DEF StatusOK
<1>9. MessagesOK
  BY <1>4 DEF MessagesOK
<1>10. RestOK
  BY <1>3, <1>4 DEF RestOK, Requests
<1> QED BY <1>5, <1>6, <1>7, <1>8, <1>9, <1>10 DEF Inv

LEMMA NextInv == Inv /\ [Next]_vars => Inv'
<1> SUFFICES ASSUME Inv, [Next]_vars PROVE Inv'
  OBVIOUS
<1>1. ASSUME NEW p \in Processors, ProcessorStep(p) PROVE Inv'
  BY <1>1, TaskStepForm, TaskStepInv, ProcessEntryInv
<1>2. CASE StatusStep
  BY <1>2, RefreshInv, PutSourceInv, GarbageInv DEF StatusStep
<1>3. ASSUME NEW w \in Processes, Deliver(w) PROVE Inv'
  BY <1>3, DeliverInv
<1>4. CASE ExecuteDeleteData
  BY <1>4, DeleteDataInv
<1>5. ASSUME NEW s \in Sites, ApiStep(s) PROVE Inv'
  BY <1>5, PushStatusInv, PushEntryInv DEF ApiStep
<1>6. ASSUME NEW p \in Processors, CrashProcessor(p) PROVE Inv'
  BY <1>6, CrashProcessorInv
<1>7. CASE CrashStatusProcessor
  BY <1>7, CrashStatusInv
<1>8. ASSUME NEW s \in Sites, RetryFailedCRR(s) PROVE Inv'
  BY <1>8, RetryInv
<1>9. CASE UserUpdate
  BY <1>9, UserUpdateInv
<1>10. CASE UNCHANGED vars
  <2>1. Grows
    BY <1>10 DEF Grows, vars, sites, bounds, Replicated, Holds, Held, Inv, RestOK
  <2> QED BY <1>10, <2>1, Frame DEF Inv, vars, sites
<1> QED BY <1>1, <1>2, <1>3, <1>4, <1>5, <1>6, <1>7, <1>8, <1>9, <1>10 DEF Next, Progress

(* Every reachable state satisfies the invariant *)
THEOREM Invariance == Spec => []Inv
BY InitInv, NextInv, PTL DEF Spec

(* Transient data is collected (GarbageCollectorTask._executeDeleteData) only *)
(* when every site has held the object, for any number of users' updates and  *)
(* of retries of the API                                                      *)
THEOREM CollectedIsEverywhere == Spec => [](~source.data => Everywhere)
<1>1. Inv => (~source.data => Everywhere)
  BY DEF Inv, SourceOK
<1> QED BY <1>1, Invariance, PTL

(* NoEarlyCollection: as long as nobody updates the object, what the sites    *)
(* have held is what the source has                                           *)
THEOREM CollectionIsNotEarly ==
    ASSUME MaxRequests = 0
    PROVE  Spec => []NoEarlyCollection
<1>1. Inv => NoEarlyCollection
  <2> SUFFICES ASSUME Inv, ~source.data, NEW s \in Sites PROVE target[s] >= source.v
    BY DEF NoEarlyCollection
  <2>1. source.v \in 1 .. 1 + MaxRequests /\ target[s] >= 1
    BY DEF Inv, SourceOK, Metadata, Versions, Everywhere, Replicated
  <2> QED BY <2>1
<1> QED BY <1>1, Invariance, PTL

(* CompletedMeansReplicated: for any number of users' updates, retries of the *)
(* API, replays and crashes, a site that is COMPLETED holds the source's      *)
(* metadata, but for the sites where older metadata was put, or its COMPLETED *)
(* recorded, over newer metadata                                              *)
THEOREM CompletedIsReplicated == Spec => []CompletedMeansReplicated
<1>1. Inv => CompletedMeansReplicated
  BY DEF Inv, SourceOK, Metadata, Holds, Held, CompletedMeansReplicated
<1> QED BY <1>1, Invariance, PTL

-----------------------------------------------------------------------------
(* COMPLETED is final.  The metadata that a task has read and is about to     *)
(* write agrees with the source on every COMPLETED status: no other process   *)
(* writes statuses but a user's update, which leaves none COMPLETED           *)

ReadIsCurrent ==
    statusTask.step = "put" =>
        \A s \in Sites : source.status[s] = "COMPLETED" => statusTask.md.status[s] = "COMPLETED"

(* What each step does to the statuses and to the task that writes them *)
LEMMA ReadStep ==
    ASSUME Inv, ReadIsCurrent, [Next]_vars
    PROVE  /\ ReadIsCurrent'
           /\ \A s \in Sites : source.status[s] = "COMPLETED" =>
                 source'.status[s] = "COMPLETED" \/ updates' > updates
<1> DEFINE Final2 == \A s \in Sites : source.status[s] = "COMPLETED" =>
                        source'.status[s] = "COMPLETED" \/ updates' > updates
<1>1. CASE RefreshAndDecide
  <2> DEFINE i == First(statusTopic, "waiting")
             e == statusTopic[i]
  <2>1. Final2
    BY <1>1 DEF RefreshAndDecide
  <2>2. CASE UNCHANGED statusTask
    BY <1>1, <2>1, <2>2 DEF ReadIsCurrent, RefreshAndDecide
  <2>3. CASE ~Final(e.site) /\ statusTask' = [step |-> "put", md |-> Updated(e)]
    <3>1. e \in StatusEntries
      BY <1>1, WaitingStatus DEF RefreshAndDecide
    <3>2. e.site \in Sites
      BY <3>1 DEF StatusEntries
    <3>3. source.status \in [Sites -> Statuses] /\ source' = source
          /\ Updated(e).status = [source.status EXCEPT ![e.site] = e.status]
      <4>1. source \in [v : Versions, content : Contents, status : [Sites -> Statuses],
                        stored : SUBSET Sites, data : BOOLEAN, multipart : BOOLEAN]
        BY DEF Inv, SourceOK, Metadata
      <4> HIDE DEF e
      <4>2. Updated(e).status = [source.status EXCEPT ![e.site] = e.status]
        BY <4>1 DEF Updated
      <4> QED BY <1>1, <4>1, <4>2 DEF RefreshAndDecide
    <3>4. ReadIsCurrent'
      <4> HIDE DEF e, Updated
      <4> QED BY <2>3, <3>2, <3>3 DEF ReadIsCurrent, Final
    <3> QED BY <2>1, <3>4
  <2> QED BY <1>1, <2>2, <2>3 DEF RefreshAndDecide
<1>2. CASE PutSourceMetadata
  <2>1. statusTask.step = "put" /\ statusTask \in [step : {"put", "collect"}, md : Metadata]
    BY <1>2 DEF Inv, StatusOK, PutSourceMetadata
  <2>2. CASE /\ source' = [statusTask.md EXCEPT !.data = source.data]
             /\ statusTask' = [statusTask EXCEPT !.step = "collect"]
    <3>1. source'.status = statusTask.md.status /\ statusTask'.step = "collect"
      BY <2>1, <2>2 DEF Metadata
    <3> QED BY <2>1, <3>1 DEF ReadIsCurrent
  <2>3. CASE statusTask' = [step |-> "idle"] /\ source' = source
    BY <2>3 DEF ReadIsCurrent
  <2> QED BY <1>2, <2>2, <2>3 DEF PutSourceMetadata, EndStatusTask
<1>3. CASE UserUpdate
  <2>1. updates' > updates /\ statusTask' = statusTask
    BY <1>3 DEF UserUpdate, Inv, RestOK, statuses
  <2>2. \A s \in Sites : source'.status[s] = "PENDING"
    <3>1. source \in [v : Versions, content : Contents, status : [Sites -> Statuses],
                      stored : SUBSET Sites, data : BOOLEAN, multipart : BOOLEAN]
      BY DEF Inv, SourceOK, Metadata
    <3> QED BY <1>3, <3>1 DEF UserUpdate
  <2> QED BY <2>1, <2>2 DEF ReadIsCurrent
<1>4. CASE ExecuteDeleteData
  <2>1. source \in [v : Versions, content : Contents, status : [Sites -> Statuses],
                    stored : SUBSET Sites, data : BOOLEAN, multipart : BOOLEAN]
    BY DEF Inv, SourceOK, Metadata
  <2>2. source'.status = source.status /\ statusTask' = statusTask
    BY <1>4, <2>1 DEF ExecuteDeleteData, statuses
  <2> QED BY <2>2 DEF ReadIsCurrent
<1>5. CASE HandleGarbageCollection \/ CrashStatusProcessor
  BY <1>5 DEF ReadIsCurrent, HandleGarbageCollection, EndStatusTask, CrashStatusProcessor
<1>6. CASE UNCHANGED <<source, statusTask>>
  BY <1>6 DEF ReadIsCurrent
<1>7. ASSUME NEW p \in Processors, ProcessorStep(p) PROVE UNCHANGED <<source, statusTask>>
  BY <1>7, TaskStepForm DEF TaskStep, ProcessReplicationEntry, statuses
<1>8. ASSUME NEW w \in Processes, Deliver(w) PROVE UNCHANGED <<source, statusTask>>
  BY <1>8 DEF Deliver
<1>9. ASSUME NEW s \in Sites, ApiStep(s) \/ RetryFailedCRR(s)
      PROVE  UNCHANGED <<source, statusTask>>
  BY <1>9 DEF ApiStep, PushRetryStatus, PushRetryEntry, RetryFailedCRR, statuses
<1>10. ASSUME NEW p \in Processors, CrashProcessor(p) PROVE UNCHANGED <<source, statusTask>>
  BY <1>10 DEF CrashProcessor, statuses
<1>11. CASE UNCHANGED vars
  BY <1>6, <1>11 DEF vars, statuses
<1> QED BY <1>1, <1>2, <1>3, <1>4, <1>5, <1>6, <1>7, <1>8, <1>9, <1>10, <1>11
        DEF Next, Progress, StatusStep

(* CompletedIsFinal: no FAILED or PENDING entry, late, redelivered, replayed  *)
(* or sent by the API, takes COMPLETED from a site                            *)
THEOREM CompletedStays == Spec => CompletedIsFinal
<1>1. Init => ReadIsCurrent
  BY DEF Init, ReadIsCurrent
<1>2. Inv /\ ReadIsCurrent /\ [Next]_vars => ReadIsCurrent'
  BY ReadStep
<1>3. Inv /\ ReadIsCurrent /\ [Next]_vars =>
        [\A s \in Sites : source.status[s] = "COMPLETED" =>
            source'.status[s] = "COMPLETED" \/ updates' > updates]_vars
  BY ReadStep
<1> QED BY <1>1, <1>2, <1>3, Invariance, PTL DEF Spec, CompletedIsFinal

-----------------------------------------------------------------------------
(* Multipart uploads.  A location keeps at least the uploads that a task has  *)
(* in hand, so that ending one never takes another's, and at most those and   *)
(* one for each crash or failed abort                                         *)

InHand(p) == task[p] \in {"parts", "complete", "abort"}

Uploading(s) == {p \in Processors : SiteOf(p) = s /\ task[p] \in {"parts", "complete", "abort"}}

UploadsOK ==
    /\ uploads \in [Sites -> Nat]
    /\ \A s \in Sites : /\ Cardinality(Uploading(s)) <= uploads[s]
                        /\ uploads[s] <= crashes + Cardinality(Uploading(s))

(* The uploads of the sites when the task of p moves on *)
LEMMA UploadChange ==
    ASSUME Inv, UploadsOK, NEW p \in Processors, NEW n \in Int, NEW t,
           task' = [task EXCEPT ![p] = t],
           uploads' = [uploads EXCEPT ![SiteOf(p)] = n],
           crashes' \in {crashes, crashes + 1},
           \/ n = uploads[SiteOf(p)] /\ (InHand(p)' <=> InHand(p))
           \/ n = uploads[SiteOf(p)] /\ ~InHand(p)' /\ crashes' = crashes + 1
           \/ n = uploads[SiteOf(p)] + 1 /\ ~InHand(p) /\ InHand(p)'
           \/ n = uploads[SiteOf(p)] - 1 /\ InHand(p) /\ ~InHand(p)'
    PROVE  UploadsOK'
<1> DEFINE s == SiteOf(p)
           C(x) == Cardinality(Uploading(x))
<1>1. s \in Sites /\ crashes \in Nat /\ uploads \in [Sites -> Nat]
      /\ task \in [Processors -> Steps]
  BY ProcessorSites DEF Inv, RestOK, UploadsOK, QueuesOK
<1>2. \A x \in Sites : IsFiniteSet(Uploading(x)) /\ C(x) \in Nat
  <2>1. \A x \in Sites : Uploading(x) \in SUBSET Processors
    BY DEF Uploading
  <2> QED BY <2>1, ProcessorsFinite, FS_Subset, FS_CardinalityType
<1>3. \A x \in Sites : x # s => Uploading(x)' = Uploading(x)
  BY <1>1 DEF Uploading
<1>4. /\ InHand(p)' => Uploading(s)' = Uploading(s) \cup {p}
      /\ ~InHand(p)' => Uploading(s)' = Uploading(s) \ {p}
      /\ InHand(p) <=> p \in Uploading(s)
  BY <1>1 DEF Uploading, InHand
<1>5. /\ Cardinality(Uploading(s) \cup {p}) = IF p \in Uploading(s) THEN C(s) ELSE C(s) + 1
      /\ Cardinality(Uploading(s) \ {p}) = IF p \in Uploading(s) THEN C(s) - 1 ELSE C(s)
  BY <1>1, <1>2, FS_AddElement, FS_RemoveElement
<1>6. C(s)' = IF InHand(p)' THEN (IF InHand(p) THEN C(s) ELSE C(s) + 1)
              ELSE (IF InHand(p) THEN C(s) - 1 ELSE C(s))
  BY <1>4, <1>5
<1>7. C(s) \in Nat /\ C(s) <= uploads[s] /\ uploads[s] <= crashes + C(s)
      /\ uploads[s] \in Nat
  BY <1>1, <1>2 DEF UploadsOK
<1>8. InHand(p) => C(s) >= 1
  BY <1>1, <1>2, <1>4, FS_EmptySet
<1>9. uploads'[s] = n /\ \A x \in Sites : x # s => uploads'[x] = uploads[x]
  BY <1>1
<1>10. n \in Nat /\ C(s)' \in Nat /\ C(s)' <= n /\ n <= crashes' + C(s)'
  <2> DEFINE c == C(s)
             c2 == C(s)'
             u == uploads[s]
  <2>1. \/ n = u /\ c2 = c
        \/ n = u /\ c >= 1 /\ c2 = c - 1 /\ crashes' = crashes + 1
        \/ n = u + 1 /\ c2 = c + 1
        \/ n = u - 1 /\ c >= 1 /\ c2 = c - 1
    <3> HIDE DEF c, c2, u
    <3>1. c2 = IF InHand(p)' THEN (IF InHand(p) THEN c ELSE c + 1)
               ELSE (IF InHand(p) THEN c - 1 ELSE c)
      BY <1>6 DEF c, c2
    <3>2. InHand(p) => c >= 1
      BY <1>8 DEF c
    <3> HIDE DEF InHand
    <3>3. CASE n = uploads[SiteOf(p)] /\ (InHand(p)' <=> InHand(p))
      <4>1. c2 = c
        BY <3>1, <3>3
      <4> QED BY <3>3, <4>1 DEF u
    <3>4. CASE n = uploads[SiteOf(p)] /\ ~InHand(p)' /\ crashes' = crashes + 1
      <4>1. CASE InHand(p)
        BY <3>1, <3>2, <3>4, <4>1 DEF u
      <4>2. CASE ~InHand(p)
        BY <3>1, <3>4, <4>2 DEF u
      <4> QED BY <4>1, <4>2
    <3>5. CASE n = uploads[SiteOf(p)] + 1 /\ ~InHand(p) /\ InHand(p)'
      BY <3>1, <3>5 DEF u
    <3>6. CASE n = uploads[SiteOf(p)] - 1 /\ InHand(p) /\ ~InHand(p)'
      BY <3>1, <3>2, <3>6 DEF u
    <3> QED BY <3>3, <3>4, <3>5, <3>6
  <2>2. c \in Nat /\ c <= u /\ u <= crashes + c /\ u \in Nat
    BY <1>7
  <2> HIDE DEF c, c2, u
  <2>3. n \in Nat /\ c2 \in Nat /\ c2 <= n /\ n <= crashes' + c2
    BY <1>1, <2>1, <2>2
  <2> QED BY <2>3 DEF c2
<1>11. uploads' \in [Sites -> Nat]
  BY <1>1, <1>10
<1>12. ASSUME NEW x \in Sites
       PROVE  C(x)' <= uploads'[x] /\ uploads'[x] <= crashes' + C(x)'
  <2>1. CASE x = s
    BY <1>9, <1>10, <2>1
  <2>2. CASE x # s
    <3>1. C(x)' = C(x) /\ uploads'[x] = uploads[x] /\ crashes' \in Nat /\ crashes' >= crashes
      BY <1>1, <1>3, <1>9, <2>2
    <3>2. C(x) \in Nat /\ uploads[x] \in Nat /\ C(x) <= uploads[x] /\ uploads[x] <= crashes + C(x)
      BY <1>1, <1>2 DEF UploadsOK
    <3> HIDE DEF C
    <3> QED BY <1>1, <3>1, <3>2
  <2> QED BY <2>1, <2>2
<1> QED BY <1>11, <1>12 DEF UploadsOK

(* Every step of a task changes the uploads with its task *)
LEMMA UploadStep ==
    ASSUME Inv, UploadsOK, NEW p \in Processors, ProcessorStep(p)
    PROVE  UploadsOK'
<1>0. uploads \in [Sites -> Nat] /\ SiteOf(p) \in Sites /\ task \in [Processors -> Steps]
      /\ crashes \in Nat
  BY ProcessorSites DEF UploadsOK, Inv, QueuesOK, RestOK
<1>1. UNCHANGED uploads => uploads' = [uploads EXCEPT ![SiteOf(p)] = uploads[SiteOf(p)]]
  BY <1>0
<1>2. /\ uploads' = [uploads EXCEPT ![SiteOf(p)] = @ - 1] =>
           uploads' = [uploads EXCEPT ![SiteOf(p)] = uploads[SiteOf(p)] - 1]
      /\ uploads' = [uploads EXCEPT ![SiteOf(p)] = @ + 1] =>
           uploads' = [uploads EXCEPT ![SiteOf(p)] = uploads[SiteOf(p)] + 1]
      /\ uploads[SiteOf(p)] \in Int
      /\ uploads[SiteOf(p)] - 1 \in Int
      /\ uploads[SiteOf(p)] + 1 \in Int
  BY <1>0
<1> DEFINE Moves(t) == task' = [task EXCEPT ![p] = t]
<1>3. ASSUME NEW t, Moves(t) PROVE task'[p] = t
  BY <1>0, <1>3
<1> HIDE DEF Moves
<1>4. ASSUME NEW t, Moves(t), UNCHANGED <<uploads, crashes>>, ~InHand(p),
             t \notin {"parts", "complete", "abort"}
      PROVE  UploadsOK'
  BY <1>1, <1>2, <1>3, <1>4, UploadChange DEF InHand, Moves
<1>5. ASSUME NEW t, Moves(t), UNCHANGED <<uploads, crashes>>, InHand(p),
             t \in {"parts", "complete", "abort"}
      PROVE  UploadsOK'
  BY <1>1, <1>2, <1>3, <1>5, UploadChange DEF InHand, Moves
<1>6. ASSUME NEW t, Moves(t), uploads' = [uploads EXCEPT ![SiteOf(p)] = @ - 1],
             UNCHANGED crashes, InHand(p), t \notin {"parts", "complete", "abort"}
      PROVE  UploadsOK'
  BY <1>2, <1>3, <1>6, UploadChange DEF InHand, Moves
<1>7. ASSUME NEW t, Moves(t), UNCHANGED uploads, crashes' = crashes + 1,
             t \notin {"parts", "complete", "abort"}
      PROVE  UploadsOK'
  BY <1>1, <1>2, <1>3, <1>7, UploadChange DEF InHand, Moves
<1>8. ASSUME NEW status, PublishStatus(p, status) PROVE Moves("idle")
  BY <1>8 DEF PublishStatus, EndTask, Moves
<1>9. Skip(p) \/ EndTask(p) => Moves("idle")
  BY DEF Skip, EndTask, Moves
<1>10. ASSUME NEW t, Step(p, t) PROVE Moves(t)
  BY <1>10 DEF Step, Moves
<1>11. CASE ProcessReplicationEntry(p)
  <2>1. UNCHANGED <<uploads, crashes>>
    BY <1>11 DEF ProcessReplicationEntry, sites, bounds
  <2>2. CASE task[p] = "idle"
    BY <1>4, <1>11, <2>1, <2>2 DEF ProcessReplicationEntry, InHand, Moves
  <2>3. CASE task[p] # "idle"
    <3>1. task' = task
      BY <1>11, <2>3 DEF ProcessReplicationEntry
    <3> QED BY <2>1, <3>1 DEF UploadsOK, Uploading
  <2> QED BY <2>2, <2>3
<1>12. CASE SetupRoles(p)
  <2>1. UNCHANGED <<uploads, crashes>> /\ ~InHand(p)
    BY <1>12 DEF SetupRoles, sites, bounds, InHand
  <2>2. \E t \in {"refresh", "data", "metadata", "idle"} : Moves(t)
    BY <1>8, <1>9, <1>10, <1>12 DEF SetupRoles
  <2> QED BY <1>4, <2>1, <2>2
<1>13. CASE GetAndPutData(p)
  <2>1. UNCHANGED <<uploads, crashes>> /\ ~InHand(p)
    BY <1>13 DEF GetAndPutData, sites, bounds, InHand
  <2>2. \E t \in {"metadata", "full metadata", "idle"} : Moves(t)
    BY <1>8, <1>9, <1>10, <1>13 DEF GetAndPutData
  <2> QED BY <1>4, <2>1, <2>2
<1>14. CASE PutMetadata(p)
  <2>1. UNCHANGED <<uploads, crashes>> /\ ~InHand(p)
    BY <1>14 DEF PutMetadata, bounds, InHand
  <2>2. \E t \in {"full data", "idle"} : Moves(t)
    BY <1>8, <1>9, <1>10, <1>14 DEF PutMetadata
  <2> QED BY <1>4, <2>1, <2>2
<1>15. CASE RefreshSourceEntry(p)
  <2>1. UNCHANGED <<uploads, crashes>> /\ ~InHand(p)
    BY <1>15 DEF RefreshSourceEntry, sites, bounds, InHand
  <2>2. \E t \in {"put", "idle"} : Moves(t)
    BY <1>8, <1>9, <1>10, <1>15 DEF RefreshSourceEntry
  <2> QED BY <1>4, <2>1, <2>2
<1>16. CASE PutDeleteMarker(p) \/ PutObjectTagging(p) \/ GetAndPutObject(p)
  <2>1. ~InHand(p) /\ \E readable \in BOOLEAN : PutToCloud(p, readable)
    BY <1>16 DEF PutDeleteMarker, PutObjectTagging, GetAndPutObject, PutToCloud, InHand
  <2>2. UNCHANGED <<uploads, crashes>> /\ Moves("idle")
    BY <1>8, <1>9, <2>1 DEF PutToCloud, bounds
  <2> QED BY <1>4, <2>1, <2>2
<1>17. CASE InitiateMPU(p)
  <2>1. ~InHand(p) /\ UNCHANGED crashes
    BY <1>17 DEF InitiateMPU, InHand, bounds
  <2>2. CASE uploads' = [uploads EXCEPT ![SiteOf(p)] = @ + 1] /\ Moves("parts")
    BY <1>2, <1>3, <2>1, <2>2, UploadChange DEF InHand, Moves
  <2>3. CASE UNCHANGED uploads /\ Moves("idle")
    BY <1>4, <2>1, <2>3
  <2> QED BY <1>8, <1>9, <1>10, <1>17, <2>2, <2>3 DEF InitiateMPU
<1>18. CASE CompleteRangedMPU(p)
  <2>1. UNCHANGED <<uploads, crashes>> /\ InHand(p)
    BY <1>18 DEF CompleteRangedMPU, sites, bounds, InHand
  <2>2. \E t \in {"complete", "abort"} : Moves(t)
    BY <1>10, <1>18 DEF CompleteRangedMPU
  <2> QED BY <1>5, <2>1, <2>2
<1>19. CASE CompleteMPU(p)
  <2>1. InHand(p) /\ UNCHANGED crashes
    BY <1>19 DEF CompleteMPU, InHand, bounds
  <2>2. CASE /\ uploads' = [uploads EXCEPT ![SiteOf(p)] = @ - 1]
             /\ Moves("idle") \/ Moves("abort completed")
    BY <1>6, <2>1, <2>2
  <2>3. CASE UNCHANGED uploads /\ Moves("abort")
    BY <1>5, <2>1, <2>3
  <2> QED BY <1>8, <1>10, <1>19, <2>2, <2>3 DEF CompleteMPU, sites
<1>20. CASE HandleMPUFailure(p)
  <2>1. \E t \in {"put", "idle"} : Moves(t)
    BY <1>8, <1>9, <1>10, <1>20 DEF HandleMPUFailure
  <2>2. CASE /\ task[p] = "abort" /\ UNCHANGED crashes
             /\ uploads' = [uploads EXCEPT ![SiteOf(p)] = @ - 1]
    BY <1>6, <2>1, <2>2 DEF InHand
  <2>3. CASE task[p] = "abort completed" /\ UNCHANGED <<uploads, crashes>>
    BY <1>4, <2>1, <2>3 DEF InHand
  <2>4. CASE UNCHANGED uploads /\ crashes' = crashes + 1
    BY <1>7, <2>1, <2>4
  <2> QED BY <1>20, <2>2, <2>3, <2>4 DEF HandleMPUFailure, MultipleBackendAbortMPU
<1> QED BY <1>11, <1>12, <1>13, <1>14, <1>15, <1>16, <1>17, <1>18, <1>19, <1>20
        DEF ProcessorStep

LEMMA UploadNext == Inv /\ UploadsOK /\ [Next]_vars => UploadsOK'
<1> SUFFICES ASSUME Inv, UploadsOK, [Next]_vars PROVE UploadsOK'
  OBVIOUS
<1>1. ASSUME NEW p \in Processors, ProcessorStep(p) PROVE UploadsOK'
  BY <1>1, UploadStep
<1>2. ASSUME NEW p \in Processors, CrashProcessor(p) PROVE UploadsOK'
  <2>1. uploads \in [Sites -> Nat] /\ SiteOf(p) \in Sites /\ task \in [Processors -> Steps]
    BY ProcessorSites DEF UploadsOK, Inv, QueuesOK
  <2>2. /\ uploads' = [uploads EXCEPT ![SiteOf(p)] = uploads[SiteOf(p)]]
        /\ uploads[SiteOf(p)] \in Int
        /\ task' = [task EXCEPT ![p] = "idle"] /\ crashes' = crashes + 1
    BY <1>2, <2>1 DEF CrashProcessor, sites
  <2>3. ~InHand(p)'
    BY <2>1, <2>2 DEF InHand
  <2> QED BY <2>2, <2>3, UploadChange
<1>3. CASE UNCHANGED <<task, uploads>> /\ crashes' \in {crashes, crashes + 1}
  <2>1. \A s \in Sites : Uploading(s)' = Uploading(s)
    BY <1>3 DEF Uploading
  <2>2. crashes \in Nat
    BY DEF Inv, RestOK
  <2>3. \A s \in Sites : uploads[s] \in Nat /\ Cardinality(Uploading(s)) \in Nat
    <3>1. \A x \in Sites : Uploading(x) \in SUBSET Processors
      BY DEF Uploading
    <3> QED BY <3>1, ProcessorsFinite, FS_Subset, FS_CardinalityType DEF UploadsOK
  <2>4. ASSUME NEW s \in Sites
        PROVE  /\ Cardinality(Uploading(s)') <= uploads'[s]
               /\ uploads'[s] <= crashes' + Cardinality(Uploading(s)')
    <3>1. /\ Cardinality(Uploading(s)) <= uploads[s]
          /\ uploads[s] <= crashes + Cardinality(Uploading(s))
      BY DEF UploadsOK
    <3> QED BY <1>3, <2>1, <2>2, <2>3, <3>1
  <2> QED BY <1>3, <2>4 DEF UploadsOK
<1>4. CASE StatusStep
  BY <1>3, <1>4 DEF StatusStep, RefreshAndDecide, PutSourceMetadata, HandleGarbageCollection,
                    sites, queues, bounds
<1>5. ASSUME NEW w \in Processes, Deliver(w) PROVE UploadsOK'
  BY <1>3, <1>5 DEF Deliver, sites, bounds
<1>6. CASE ExecuteDeleteData
  BY <1>3, <1>6 DEF ExecuteDeleteData, sites, queues
<1>7. ASSUME NEW s \in Sites, ApiStep(s) \/ RetryFailedCRR(s) PROVE UploadsOK'
  BY <1>3, <1>7 DEF ApiStep, PushRetryStatus, PushRetryEntry, RetryFailedCRR, sites, queues, bounds
<1>8. CASE CrashStatusProcessor
  BY <1>3, <1>8 DEF CrashStatusProcessor, sites, queues
<1>9. CASE UserUpdate
  BY <1>3, <1>9 DEF UserUpdate, sites
<1>10. CASE UNCHANGED vars
  BY <1>3, <1>10 DEF vars, sites, queues, bounds
<1> QED BY <1>1, <1>2, <1>4, <1>5, <1>6, <1>7, <1>8, <1>9, <1>10 DEF Next, Progress

(* Every upload at a location is in a task's hands, or was left by a crash or *)
(* by an abort that failed                                                    *)
THEOREM UploadsAccounted == Spec => []UploadsOK
<1>1. Init => UploadsOK
  <2> SUFFICES ASSUME Init PROVE UploadsOK
    OBVIOUS
  <2>1. uploads = [s \in Sites |-> 0] /\ crashes = 0 /\ task = [p \in Processors |-> "idle"]
    BY DEF Init
  <2>2. \A s \in Sites : Uploading(s) = {}
    BY <2>1 DEF Uploading
  <2> QED BY <2>1, <2>2, FS_EmptySet DEF UploadsOK
<1> QED BY <1>1, UploadNext, Invariance, PTL DEF Spec

(* NoStrayUploads (MultipleBackendTask._handleMPUFailure) *)
THEOREM NoUploadLeft == Spec => []NoStrayUploads
<1>1. UploadsOK => NoStrayUploads
  BY DEF UploadsOK, NoStrayUploads, Uploading
<1> QED BY <1>1, UploadsAccounted, PTL

(* Every state is well typed: in particular an entry is in the replication    *)
(* topic exactly when it has no replayCount, and a task is in progress        *)
(* exactly when an entry of its queue is                                      *)
THEOREM TypeCorrect == Spec => []TypeOK
<1>1. Inv /\ UploadsOK => TypeOK
  <2> SUFFICES ASSUME Inv, UploadsOK PROVE TypeOK
    OBVIOUS
  <2>1. /\ source \in [v : 1 .. 1 + MaxRequests, content : {"DATA", "METADATA", "MARKER"},
                       status : [Sites -> Statuses], stored : SUBSET Sites, data : BOOLEAN,
                       multipart : BOOLEAN]
        /\ target \in [Sites -> Absent .. 1 + MaxRequests]
        /\ uploads \in [Sites -> Nat]
    BY DEF Inv, SourceOK, TargetOK, UploadsOK, Metadata, Versions, Contents
  <2>2. DOMAIN partition = Processors /\ DOMAIN task = Processors
    BY DEF Inv, QueuesOK
  <2>3. ASSUME NEW p \in Processors
        PROVE  /\ \A i \in DOMAIN partition[p] :
                    /\ partition[p][i].stage \in Stages
                    /\ partition[p][i].count \in Unset .. NReplays - 1
                    /\ p = Crr(SiteOf(p)) <=> partition[p][i].count = Unset
               /\ task[p] = "idle" <=> First(partition[p], "running") = 0
    <3>1. /\ partition[p] \in Seq(EntriesOf(p))
          /\ task[p] = "idle" <=> ~HasRunning(partition[p])
      BY DEF Inv, QueuesOK, QueueOK
    <3>2. \A i \in DOMAIN partition[p] : partition[p][i] \in EntriesOf(p)
      BY <3>1
    <3>3. First(partition[p], "running") = 0 <=> ~HasRunning(partition[p])
      BY <3>1, FirstProperties DEF HasRunning
    <3> QED BY <3>1, <3>2, <3>3 DEF EntriesOf, EntriesIn, Fits
  <2>4. /\ \A i \in DOMAIN statusTopic : statusTopic[i].status \in Statuses
        /\ statusTask.step = "idle" <=> First(statusTopic, "running") = 0
    <3>1. /\ statusTopic \in Seq(StatusEntries)
          /\ statusTask.step = "idle" <=> ~HasRunning(statusTopic)
      BY DEF Inv, StatusOK
    <3>2. \A i \in DOMAIN statusTopic : statusTopic[i] \in StatusEntries
      BY <3>1
    <3>3. First(statusTopic, "running") = 0 <=> ~HasRunning(statusTopic)
      BY <3>1, FirstProperties DEF HasRunning
    <3> QED BY <3>1, <3>2, <3>3 DEF StatusEntries
  <2>5. /\ gcTopic \in Nat /\ DOMAIN outbox = Processes /\ excused \subseteq Sites
        /\ stale \subseteq Sites
    BY DEF Inv, MessagesOK, RestOK, TargetOK
  <2>6. \A s \in Sites : retry[s].step \in {"none", "status", "crr", "locked"}
    BY DEF Inv, RestOK, Requests
  <2> QED BY <2>1, <2>2, <2>3, <2>4, <2>5, <2>6 DEF TypeOK
<1> QED BY <1>1, Invariance, UploadsAccounted, PTL

-----------------------------------------------------------------------------
(* No site is forgotten.  PendingHasFuture is not inductive: what is under    *)
(* way for a site may be an entry of the API that makes it PENDING again, a   *)
(* request the API gives up, or the status entry in progress itself.  Every   *)
(* PENDING entry of the status topic that may still be applied is followed by *)
(* an answer, or work that leads to one is under way upstream.                *)

(* The status topic is processed in order *)
Ordered(q) ==
    \A i, j \in 1 .. Len(q) : i < j /\ q[j].stage # "waiting" => q[i].stage = "done"

Answered(q, s, i) ==
    \E j \in 1 .. Len(q) : i < j /\ q[j].site = s /\ q[j].status # "PENDING"

(* Entry i of q makes site s PENDING, now or, "again", after a crash *)
Pends(q, s, i, again) ==
    q[i].site = s /\ q[i].status = "PENDING" /\ (q[i].stage # "done" \/ again)

Unanswered(q, s, again) ==
    \E i \in 1 .. Len(q) : Pends(q, s, i, again) /\ ~Answered(q, s, i)

OpenStatus(q, s) == \E i \in 1 .. Len(q) : q[i].site = s /\ q[i].stage # "done"

WaitingFor(q, s) == \E i \in 1 .. Len(q) : q[i].site = s /\ q[i].stage = "waiting"

OpenQueue(q) == \E i \in 1 .. Len(q) : q[i].stage # "done"

OpenEntry(s) == \E p \in Processors : SiteOf(p) = s /\ OpenQueue(partition[p])

Posted(s) == \E w \in Processes : s \in LostSites(w)

Upstream(s) == OpenEntry(s) \/ Posted(s) \/ retry[s].step = "crr"

Covered(s) == s \in excused \/ Upstream(s)

AnswersOK(s) ==
    Unanswered(statusTopic, s, crashes < MaxCrashes) =>
        Covered(s) \/ source.status[s] = "COMPLETED"

PendingOK(s) ==
    source.status[s] = "PENDING" => Covered(s) \/ OpenStatus(statusTopic, s)

(* The metadata that is about to be written makes no other site PENDING *)
WriteOK ==
    statusTask.step = "put" =>
        /\ source.status[StatusRunning.site] # "COMPLETED"
        /\ statusTask.md.status[StatusRunning.site] = StatusRunning.status
        /\ \A s \in Sites : s # StatusRunning.site /\ statusTask.md.status[s] = "PENDING" =>
                               source.status[s] = "PENDING"

(* A site that an update made PENDING after the status was written *)
WrittenOK ==
    LET s == StatusRunning.site
    IN  statusTask.step = "collect" /\ StatusRunning.status # "PENDING"
            /\ source.status[s] = "PENDING" => Covered(s) \/ WaitingFor(statusTopic, s)

NoPendingPosted ==
    \A w \in Processes : \A i \in 1 .. Len(outbox[w]) :
        outbox[w][i].topic = "status" => outbox[w][i].entry.status # "PENDING"

Future ==
    /\ Ordered(statusTopic) /\ NoPendingPosted /\ WriteOK /\ WrittenOK
    /\ \A s \in Sites : AnswersOK(s) /\ PendingOK(s)

(* The status topic when entry i, the first that is not done, is processed *)
LEMMA ProcessedFuture ==
    ASSUME Inv, NEW i \in 1 .. Len(statusTopic), Ordered(statusTopic),
           \A j \in 1 .. i - 1 : statusTopic[j].stage = "done"
    PROVE  LET q == statusTopic
               r == Processed(q, i)
               again == crashes < MaxCrashes
           IN  /\ Ordered(r)
               /\ \A s : Unanswered(r, s, again) => Unanswered(q, s, again)
               /\ \A s : s # q[i].site /\ OpenStatus(q, s) => OpenStatus(r, s)
               /\ \A s : WaitingFor(q, s) /\ q[i].stage # "waiting" => WaitingFor(r, s)
<1> DEFINE q == statusTopic
           r == Processed(q, i)
           again == crashes < MaxCrashes
<1>0. /\ q \in Seq(StatusEntries) /\ Len(q) \in Nat /\ i \in Nat /\ Staged(StatusEntries)
      /\ \A j \in 1 .. Len(q) : q[j] \in StatusEntries
  BY EntriesStaged DEF Inv, StatusOK
<1>1. \A j \in 1 .. Len(q) : j # i => \E k \in 1 .. Len(r) : r[k] = q[j]
  BY <1>0, ProcessedProperties
<1>2. \A s : s # q[i].site /\ OpenStatus(q, s) => OpenStatus(r, s)
  <2> HIDE DEF q, r
  <2> QED BY <1>1 DEF OpenStatus
<1>3. \A s : WaitingFor(q, s) /\ q[i].stage # "waiting" => WaitingFor(r, s)
  <2> HIDE DEF q, r
  <2> QED BY <1>1 DEF WaitingFor
<1>4. CASE crashes < MaxCrashes
  <2>1. r = Mark(q, i, "done")
    BY <1>4 DEF Processed
  <2>2. "done" \in Stages
    BY DEF Stages
  <2>3. /\ Len(r) = Len(q) /\ \A j \in 1 .. Len(q) : j # i => r[j] = q[j]
        /\ r[i] = InStage(q[i], "done") /\ r[i].stage = "done"
    BY <1>0, <2>1, <2>2, MarkProperties
  <2>4. r[i].site = q[i].site /\ r[i].status = q[i].status
    BY <1>0, <2>3 DEF StatusEntries, InStage
  <2>5. Ordered(r)
    <3>1. \A j \in 1 .. i - 1 : q[j].stage = "done"
      OBVIOUS
    <3> HIDE DEF q, r
    <3>2. ASSUME NEW j \in 1 .. Len(r), NEW k \in 1 .. Len(r), j < k, r[k].stage # "waiting"
          PROVE  r[j].stage = "done"
      <4>1. CASE j = i
        BY <2>3, <4>1
      <4>2. CASE k = i
        <5>1. j \in 1 .. i - 1 /\ j # i
          BY <1>0, <3>2, <4>2
        <5> QED BY <2>3, <3>1, <5>1
      <4>3. CASE j # i /\ k # i
        BY <2>3, <3>2, <4>3 DEF Ordered, q
      <4> QED BY <4>1, <4>2, <4>3
    <3> QED BY <3>2 DEF Ordered
  <2>6. \A j \in 1 .. Len(q) : r[j].site = q[j].site /\ r[j].status = q[j].status
    BY <2>3, <2>4
  <2>7. \A s : Unanswered(r, s, again) => Unanswered(q, s, again)
    <3> HIDE DEF q, r
    <3> QED BY <1>4, <2>3, <2>6 DEF Unanswered, Pends, Answered
  <2> QED BY <1>2, <1>3, <2>5, <2>7
<1>5. CASE ~(crashes < MaxCrashes)
  <2>1. r = RemoveAt(q, i)
    BY <1>5 DEF Processed
  <2>2. Len(r) = Len(q) - 1 /\ \A j \in 1 .. Len(q) - 1 : r[j] = IF j < i THEN q[j] ELSE q[j + 1]
    BY <1>0, <2>1, RemoveAtProperties
  <2>3. \A j \in 1 .. i - 1 : q[j].stage = "done"
    OBVIOUS
  <2> DEFINE g(k) == IF k < i THEN k ELSE k + 1
  <2> HIDE DEF q, r
  <2>4. \A k \in 1 .. Len(r) : g(k) \in 1 .. Len(q) /\ r[k] = q[g(k)]
    BY <1>0, <2>2
  <2>5. \A k, l \in 1 .. Len(r) : k < l => g(k) < g(l)
    BY <1>0, <2>2
  <2>6. Ordered(r)
    <3>1. Ordered(q)
      BY DEF q
    <3> HIDE DEF g
    <3> QED BY <2>4, <2>5, <3>1 DEF Ordered
  <2>7. ASSUME NEW s, Unanswered(r, s, again) PROVE Unanswered(q, s, again)
    <3>1. PICK k \in 1 .. Len(r) : Pends(r, s, k, again) /\ ~Answered(r, s, k)
      BY <2>7 DEF Unanswered
    <3>2. Pends(q, s, g(k), again) /\ q[g(k)].stage # "done" /\ g(k) \in 1 .. Len(q)
      BY <1>5, <2>4, <3>1 DEF Pends
    <3>3. k \in Nat /\ ~(k < i) /\ g(k) = k + 1
      BY <1>0, <2>2, <2>3, <3>2
    <3>4. ASSUME Answered(q, s, g(k)) PROVE FALSE
      <4>1. PICK j \in 1 .. Len(q) : g(k) < j /\ q[j].site = s /\ q[j].status # "PENDING"
        BY <3>4 DEF Answered
      <4>2. j - 1 \in 1 .. Len(r) /\ k < j - 1 /\ ~(j - 1 < i) /\ (j - 1) + 1 = j
        BY <1>0, <2>2, <3>3, <4>1
      <4>3. r[j - 1] = q[j]
        BY <1>0, <2>2, <4>2
      <4> QED BY <3>1, <4>1, <4>2, <4>3 DEF Answered
    <3> QED BY <3>2, <3>4 DEF Unanswered
  <2> QED BY <1>2, <1>3, <2>6, <2>7 DEF q, r
<1> QED BY <1>4, <1>5

(* The status topic when entry i goes in progress *)
LEMMA StartedFuture ==
    ASSUME Inv, NEW i \in 1 .. Len(statusTopic), Ordered(statusTopic),
           statusTopic[i].stage = "waiting",
           \A j \in 1 .. i - 1 : statusTopic[j].stage = "done"
    PROVE  LET q == statusTopic
               r == Mark(q, i, "running")
           IN  /\ Ordered(r)
               /\ \A s, again : Unanswered(r, s, again) => Unanswered(q, s, again)
               /\ \A s : OpenStatus(q, s) => OpenStatus(r, s)
               /\ r[i].site = q[i].site /\ r[i].status = q[i].status
               /\ r[i].stage = "running" /\ Len(r) = Len(q)
<1> DEFINE q == statusTopic
           r == Mark(q, i, "running")
<1>0. /\ q \in Seq(StatusEntries) /\ Len(q) \in Nat /\ i \in Nat /\ Staged(StatusEntries)
      /\ \A j \in 1 .. Len(q) : q[j] \in StatusEntries
  BY EntriesStaged DEF Inv, StatusOK
<1>1. "running" \in Stages
  BY DEF Stages
<1>2. /\ Len(r) = Len(q) /\ \A j \in 1 .. Len(q) : j # i => r[j] = q[j]
      /\ r[i] = InStage(q[i], "running") /\ r[i].stage = "running"
  BY <1>0, <1>1, MarkProperties
<1>3. r[i].site = q[i].site /\ r[i].status = q[i].status
  BY <1>0, <1>2 DEF StatusEntries, InStage
<1>4. \A j \in 1 .. Len(q) : /\ r[j].site = q[j].site /\ r[j].status = q[j].status
                             /\ r[j].stage # "done" <=> q[j].stage # "done"
  BY <1>2, <1>3
<1>5. \A j \in 1 .. i - 1 : q[j].stage = "done"
  OBVIOUS
<1>6. Ordered(q) /\ q[i].stage = "waiting"
  OBVIOUS
<1> HIDE DEF q, r
<1>7. Ordered(r)
  <2>1. ASSUME NEW j \in 1 .. Len(r), NEW k \in 1 .. Len(r), j < k, r[k].stage # "waiting"
        PROVE  r[j].stage = "done"
    <3>1. CASE k = i
      <4>1. j \in 1 .. i - 1 /\ j # i
        BY <1>0, <2>1, <3>1
      <4> QED BY <1>2, <1>5, <4>1
    <3>2. CASE k # i
      <4>1. q[k].stage # "waiting"
        BY <1>2, <2>1, <3>2
      <4>2. q[j].stage = "done"
        BY <1>2, <1>6, <2>1, <4>1 DEF Ordered
      <4> QED BY <1>2, <1>6, <2>1, <4>2
    <3> QED BY <3>1, <3>2
  <2> QED BY <2>1 DEF Ordered
<1>8. \A s, again : Unanswered(r, s, again) => Unanswered(q, s, again)
  BY <1>2, <1>4 DEF Unanswered, Pends, Answered
<1>9. \A s : OpenStatus(q, s) => OpenStatus(r, s)
  BY <1>2, <1>4 DEF OpenStatus
<1> QED BY <1>2, <1>3, <1>7, <1>8, <1>9 DEF q, r

(* The status topic when an entry is added *)
LEMMA AppendedFuture ==
    ASSUME Inv, Ordered(statusTopic), NEW e \in StatusEntries, e.stage = "waiting"
    PROVE  LET q == statusTopic
               r == Append(q, e)
           IN  /\ Ordered(r)
               /\ \A s, again : Unanswered(r, s, again) =>
                    \/ s = e.site /\ e.status = "PENDING"
                    \/ Unanswered(q, s, again)
               /\ \A s, again : Unanswered(r, s, again) => s # e.site \/ e.status = "PENDING"
               /\ \A s : OpenStatus(q, s) \/ s = e.site => OpenStatus(r, s)
               /\ \A s : WaitingFor(q, s) \/ s = e.site => WaitingFor(r, s)
               /\ HasRunning(q) => r[First(r, "running")] = q[First(q, "running")]
<1> DEFINE q == statusTopic
           r == Append(q, e)
           n == Len(q)
<1>0. q \in Seq(StatusEntries) /\ n \in Nat /\ OneRunning(q)
  BY DEF Inv, StatusOK
<1>1. /\ r \in Seq(StatusEntries) /\ Len(r) = n + 1 /\ r[n + 1] = e
      /\ \A j \in 1 .. n : r[j] = q[j]
  BY <1>0, AppendProperties
<1>2. OneRunning(r) /\ (HasRunning(r) <=> HasRunning(q))
  BY <1>0, AppendEntry
<1>3. Ordered(q)
  OBVIOUS
<1> HIDE DEF q, r, n
<1>4. \A j \in 1 .. n + 1 : j \in 1 .. n \/ j = n + 1
  BY <1>0
<1>5. \A j \in 1 .. n : j \in 1 .. n + 1 /\ j < n + 1 /\ ~(n + 1 < j)
  BY <1>0
<1>6. n + 1 \in 1 .. n + 1 /\ ~(n + 1 < n + 1)
  BY <1>0
<1>7. Ordered(r)
  <2>1. ASSUME NEW j \in 1 .. Len(r), NEW k \in 1 .. Len(r), j < k, r[k].stage # "waiting"
        PROVE  r[j].stage = "done"
    <3>1. k \in 1 .. n
      BY <1>1, <1>4, <2>1
    <3>2. j \in 1 .. n
      BY <1>0, <1>1, <2>1, <3>1
    <3> QED BY <1>1, <1>3, <2>1, <3>1, <3>2 DEF Ordered, n
  <2> QED BY <2>1 DEF Ordered
<1>8. ASSUME NEW s, NEW again, Unanswered(r, s, again)
      PROVE  /\ s # e.site \/ e.status = "PENDING"
             /\ (s = e.site /\ e.status = "PENDING") \/ Unanswered(q, s, again)
  <2>1. PICK i \in 1 .. n + 1 : Pends(r, s, i, again) /\ ~Answered(r, s, i)
    BY <1>1, <1>8 DEF Unanswered
  <2>2. CASE i = n + 1
    BY <1>1, <2>1, <2>2 DEF Pends
  <2>3. CASE i \in 1 .. n
    <3>1. Pends(q, s, i, again)
      BY <1>1, <2>1, <2>3 DEF Pends
    <3>2. ~Answered(q, s, i)
      BY <1>1, <1>5, <2>1 DEF Answered, n
    <3>3. s # e.site \/ e.status = "PENDING"
      BY <1>1, <1>5, <1>6, <2>1, <2>3 DEF Answered
    <3> QED BY <2>3, <3>1, <3>2, <3>3 DEF Unanswered, n
  <2> QED BY <1>4, <2>2, <2>3
<1>9. \A s : OpenStatus(q, s) \/ s = e.site => OpenStatus(r, s)
  BY <1>1, <1>5, <1>6 DEF OpenStatus, n
<1>10. \A s : WaitingFor(q, s) \/ s = e.site => WaitingFor(r, s)
  BY <1>1, <1>5, <1>6 DEF WaitingFor, n
<1>11. ASSUME HasRunning(q) PROVE r[First(r, "running")] = q[First(q, "running")]
  <2>1. /\ First(q, "running") \in 0 .. n /\ First(q, "running") # 0
        /\ q[First(q, "running")].stage = "running"
    BY <1>0, <1>11, FirstProperties DEF HasRunning, n
  <2>2. /\ First(r, "running") \in 0 .. n + 1 /\ First(r, "running") # 0
        /\ r[First(r, "running")].stage = "running"
    BY <1>1, <1>2, <1>11, FirstProperties DEF HasRunning
  <2> DEFINE a == First(q, "running")
             b == First(r, "running")
  <2>3. a \in 1 .. n /\ b \in 1 .. n + 1
    BY <1>0, <2>1, <2>2
  <2> HIDE DEF a, b
  <2>4. r[a].stage = "running" /\ r[b].stage = "running"
    BY <1>1, <2>1, <2>2, <2>3 DEF a, b
  <2>5. a = b
    BY <1>1, <1>2, <1>5, <2>3, <2>4 DEF OneRunning
  <2> QED BY <1>1, <2>3, <2>5 DEF a, b
<1> QED BY <1>7, <1>8, <1>9, <1>10, <1>11 DEF q, r

(* The status topic after a crash of its processor *)
LEMMA RedeliveredFuture ==
    ASSUME Inv, NEW r \in Redelivered(statusTopic)
    PROVE  /\ Ordered(r)
           /\ \A s, again : Unanswered(r, s, again) => Unanswered(statusTopic, s, TRUE)
           /\ \A s : OpenStatus(statusTopic, s) => OpenStatus(r, s)
<1> DEFINE q == statusTopic
<1>0. q \in Seq(StatusEntries) /\ Len(q) \in Nat /\ \A i \in 1 .. Len(q) : q[i] \in StatusEntries
  BY DEF Inv, StatusOK
<1>1. PICK k \in {n \in 0 .. Len(q) : \A i \in 1 .. n : q[i].stage = "done"} :
        r = [i \in 1 .. Len(q) - k |-> InStage(q[i + k], "waiting")]
  BY Zenon DEF Redelivered, InStage
<1> HIDE DEF q
<1>2. k \in 0 .. Len(q) /\ \A i \in 1 .. k : q[i].stage = "done"
  BY Zenon
<1>3. k \in Nat /\ Len(q) - k \in Nat
  BY <1>0, <1>2
<1>4. ASSUME NEW i \in 1 .. Len(q) - k
      PROVE  /\ i + k \in 1 .. Len(q) /\ r[i].site = q[i + k].site
             /\ r[i].status = q[i + k].status /\ r[i].stage = "waiting"
  <2>1. i + k \in 1 .. Len(q)
    BY <1>0, <1>3
  <2>2. q[i + k] \in StatusEntries /\ r[i] = InStage(q[i + k], "waiting")
    BY <1>0, <1>1, <2>1
  <2> QED BY <2>1, <2>2 DEF InStage, StatusEntries
<1>5. Len(r) = Len(q) - k
  <2>1. r \in Seq(StatusEntries)
    BY <1>0, EntriesStaged, RedeliveredProperties DEF q
  <2>2. DOMAIN r = 1 .. Len(q) - k /\ DOMAIN r = 1 .. Len(r) /\ Len(r) \in Nat
    BY <1>1, <2>1
  <2> QED BY <1>3, <2>2
<1>6. Ordered(r)
  BY <1>4, <1>5 DEF Ordered
<1>7. ASSUME NEW s, NEW again, Unanswered(r, s, again) PROVE Unanswered(q, s, TRUE)
  <2>1. PICK i \in 1 .. Len(q) - k : Pends(r, s, i, again) /\ ~Answered(r, s, i)
    BY <1>5, <1>7 DEF Unanswered
  <2>2. Pends(q, s, i + k, TRUE) /\ i + k \in 1 .. Len(q)
    BY <1>4, <2>1 DEF Pends
  <2>3. ASSUME Answered(q, s, i + k) PROVE FALSE
    <3>1. PICK j \in 1 .. Len(q) : i + k < j /\ q[j].site = s /\ q[j].status # "PENDING"
      BY <2>3 DEF Answered
    <3>2. j - k \in 1 .. Len(q) - k /\ i < j - k /\ (j - k) + k = j
      BY <1>0, <1>3, <3>1
    <3>3. r[j - k].site = s /\ r[j - k].status # "PENDING"
      BY <1>4, <3>1, <3>2
    <3> QED BY <1>5, <2>1, <3>2, <3>3 DEF Answered
  <2> QED BY <2>2, <2>3 DEF Unanswered
<1>8. ASSUME NEW s, OpenStatus(q, s) PROVE OpenStatus(r, s)
  <2>1. PICK j \in 1 .. Len(q) : q[j].site = s /\ q[j].stage # "done"
    BY <1>8 DEF OpenStatus
  <2>2. ~(j <= k)
    BY <1>2, <1>3, <2>1
  <2>3. j - k \in 1 .. Len(q) - k /\ (j - k) + k = j
    BY <1>0, <1>3, <2>2
  <2> QED BY <1>4, <1>5, <2>1, <2>3 DEF OpenStatus
<1> QED BY <1>6, <1>7, <1>8 DEF q

(* A queue with an entry to process or in progress keeps one when an entry is *)
(* added or when it is delivered again                                        *)
LEMMA OpenQueues ==
    ASSUME NEW S, Staged(S), NEW q \in Seq(S)
    PROVE  /\ HasRunning(q) => OpenQueue(q)
           /\ \A e \in S : e.stage = "waiting" => OpenQueue(Append(q, e))
           /\ \A r \in Redelivered(q) : OpenQueue(q) => OpenQueue(r)
<1>1. HasRunning(q) => OpenQueue(q)
  BY DEF HasRunning, OpenQueue
<1>2. ASSUME NEW e \in S, e.stage = "waiting" PROVE OpenQueue(Append(q, e))
  <2>1. /\ Len(Append(q, e)) = Len(q) + 1 /\ Append(q, e)[Len(q) + 1] = e
        /\ Len(q) + 1 \in 1 .. Len(q) + 1
    BY AppendProperties
  <2> QED BY <1>2, <2>1 DEF OpenQueue
<1>3. ASSUME NEW r \in Redelivered(q), OpenQueue(q) PROVE OpenQueue(r)
  <2>1. PICK j \in 1 .. Len(q) : q[j].stage # "done"
    BY <1>3 DEF OpenQueue
  <2>2. PICK k \in 1 .. Len(r) : r[k] = InStage(q[j], "waiting")
    BY <2>1, RedeliveredProperties
  <2>3. InStage(q[j], "waiting").stage = "waiting"
    <3>1. q[j] \in S /\ "waiting" \in Stages
      BY DEF Stages
    <3> QED BY <3>1 DEF Staged
  <2> QED BY <2>2, <2>3 DEF OpenQueue
<1> QED BY <1>1, <1>2, <1>3

(* The sites of the messages in an outbox *)
SitesOf(q) == UNION {MsgSites(q[i]) : i \in DOMAIN q}

(* What a site has under way when the queue of one processor changes *)
LEMMA OneQueue ==
    ASSUME Inv, NEW p \in Processors, NEW q, partition' = [partition EXCEPT ![p] = q],
           NEW s, OpenEntry(s)
    PROVE  OpenEntry(s)' \/ (s = SiteOf(p) /\ OpenQueue(partition[p]) /\ ~OpenQueue(q))
<1>1. PICK x \in Processors : SiteOf(x) = s /\ OpenQueue(partition[x])
  BY DEF OpenEntry
<1>2. DOMAIN partition = Processors
  BY DEF Inv, QueuesOK
<1>3. partition'[x] = IF x = p THEN q ELSE partition[x]
  BY <1>2
<1>4. OpenQueue(partition'[x]) => OpenEntry(s)'
  BY <1>1 DEF OpenEntry, OpenQueue
<1> QED BY <1>1, <1>3, <1>4

(* What a site has under way when one outbox changes *)
LEMMA OneOutbox ==
    ASSUME Inv, NEW w \in Processes, NEW q, outbox' = [outbox EXCEPT ![w] = q],
           NEW s
    PROVE  /\ Posted(s) => Posted(s)' \/ (s \in LostSites(w) /\ s \notin SitesOf(q))
           /\ s \in SitesOf(q) => Posted(s)'
<1>1. DOMAIN outbox = Processes
  BY DEF Inv, MessagesOK
<1>2. \A x \in Processes : outbox'[x] = IF x = w THEN q ELSE outbox[x]
  BY <1>1
<1>3. \A x \in Processes : LostSites(x)' = IF x = w THEN SitesOf(q) ELSE LostSites(x)
  BY <1>2 DEF LostSites, SitesOf
<1> HIDE DEF LostSites, SitesOf
<1> QED BY <1>3 DEF Posted

(* The sites of an outbox when a message is sent, delivered or lost *)
LEMMA OutboxSites ==
    ASSUME NEW M, NEW q \in Seq(M)
    PROVE  /\ \A m \in M : SitesOf(Append(q, m)) = SitesOf(q) \cup MsgSites(m)
           /\ q # <<>> => SitesOf(q) = MsgSites(Head(q)) \cup SitesOf(Tail(q))
<1>0. Len(q) \in Nat /\ DOMAIN q = 1 .. Len(q)
  OBVIOUS
<1>1. ASSUME NEW m \in M PROVE SitesOf(Append(q, m)) = SitesOf(q) \cup MsgSites(m)
  <2> DEFINE r == Append(q, m)
  <2>1. /\ r \in Seq(M) /\ Len(r) = Len(q) + 1 /\ r[Len(q) + 1] = m
        /\ \A j \in 1 .. Len(q) : r[j] = q[j]
    BY AppendProperties
  <2>2. DOMAIN r = 1 .. Len(q) + 1
    BY <2>1
  <2> HIDE DEF r
  <2>3. \A j \in 1 .. Len(q) + 1 : j \in 1 .. Len(q) \/ j = Len(q) + 1
    BY <1>0
  <2>4. /\ \A j \in 1 .. Len(q) : j \in 1 .. Len(q) + 1
        /\ Len(q) + 1 \in 1 .. Len(q) + 1
    BY <1>0
  <2> QED BY <1>0, <2>1, <2>2, <2>3, <2>4 DEF SitesOf, r
<1>2. ASSUME q # <<>> PROVE SitesOf(q) = MsgSites(Head(q)) \cup SitesOf(Tail(q))
  <2> DEFINE r == Tail(q)
  <2>1. /\ r \in Seq(M) /\ Len(r) = Len(q) - 1 /\ Head(q) = q[1]
        /\ \A j \in 1 .. Len(r) : r[j] = q[j + 1]
    BY <1>2, HeadTailProperties
  <2>2. DOMAIN r = 1 .. Len(q) - 1 /\ Len(q) > 0
    BY <1>2, <2>1, EmptySeq
  <2> HIDE DEF r
  <2>3. \A j \in 1 .. Len(q) : j = 1 \/ (j - 1 \in 1 .. Len(q) - 1 /\ (j - 1) + 1 = j)
    BY <1>0
  <2>4. \A j \in 1 .. Len(q) - 1 : j + 1 \in 1 .. Len(q)
    BY <1>0
  <2>5. 1 \in 1 .. Len(q)
    BY <1>0, <2>2
  <2>6. \A j \in 1 .. Len(q) - 1 : r[j] = q[j + 1]
    BY <2>1
  <2>7. SitesOf(r) \subseteq SitesOf(q)
    BY <1>0, <2>2, <2>4, <2>6 DEF SitesOf
  <2>8. MsgSites(Head(q)) \subseteq SitesOf(q)
    BY <1>0, <2>1, <2>5 DEF SitesOf
  <2>9. ASSUME NEW j \in 1 .. Len(q) PROVE MsgSites(q[j]) \subseteq MsgSites(Head(q)) \cup SitesOf(r)
    <3>1. CASE j = 1
      BY <2>1, <3>1
    <3>2. CASE j - 1 \in 1 .. Len(q) - 1 /\ (j - 1) + 1 = j
      <4>1. r[j - 1] = q[j]
        BY <2>6, <3>2
      <4>2. MsgSites(r[j - 1]) \subseteq SitesOf(r)
        BY <2>2, <3>2 DEF SitesOf
      <4> QED BY <4>1, <4>2
    <3> QED BY <2>3, <3>1, <3>2
  <2>10. SitesOf(q) \subseteq MsgSites(Head(q)) \cup SitesOf(r)
    BY <1>0, <2>9 DEF SitesOf
  <2> QED BY <2>7, <2>8, <2>10 DEF r
<1> QED BY <1>1, <1>2

(* The hypothesis on what a step does upstream of the status topic *)
Keeps(s) == Covered(s) => Covered(s)' \/ source.status[s] = "COMPLETED"

(* A step that leaves the statuses and the status topic alone *)
LEMMA StatusKept ==
    ASSUME Inv, Future, NoPendingPosted', UNCHANGED statuses, source'.status = source.status,
           (crashes < MaxCrashes)' => crashes < MaxCrashes,
           \A s \in Sites : Keeps(s)
    PROVE  Future'
<1>0. statusTopic' = statusTopic /\ statusTask' = statusTask
  BY DEF statuses
<1>1. Ordered(statusTopic)' /\ WriteOK'
  BY <1>0 DEF Future, Ordered, WriteOK, StatusRunning, First
<1>2. WrittenOK'
  <2> SUFFICES ASSUME statusTask.step = "collect", StatusRunning.status # "PENDING",
                      source.status[StatusRunning.site] = "PENDING"
               PROVE  Covered(StatusRunning.site)' \/ WaitingFor(statusTopic, StatusRunning.site)'
    BY <1>0 DEF WrittenOK, StatusRunning, First
  <2>1. StatusRunning.site \in Sites
    BY RunningStatus
  <2>2. StatusRunning' = StatusRunning
    BY <1>0 DEF StatusRunning, First
  <2>3. Covered(StatusRunning.site) \/ WaitingFor(statusTopic, StatusRunning.site)
    BY DEF Future, WrittenOK
  <2> HIDE DEF StatusRunning
  <2>4. \A s \in Sites : Covered(s) /\ source.status[s] = "PENDING" => Covered(s)'
    BY DEF Keeps
  <2>5. \A s : WaitingFor(statusTopic, s) => WaitingFor(statusTopic', s)
    BY <1>0
  <2> DEFINE t == StatusRunning.site
  <2>6. /\ Covered(t) => Covered(t)'
        /\ WaitingFor(statusTopic, t) => WaitingFor(statusTopic, t)'
    <3>1. t' = t
      BY <2>2
    <3> QED BY <2>1, <2>2, <2>4, <2>5, <3>1 DEF Covered, Upstream, OpenEntry, Posted, WaitingFor
  <2> QED BY <2>3, <2>6
<1>3. ASSUME NEW s \in Sites PROVE AnswersOK(s)' /\ PendingOK(s)'
  <2>1. Keeps(s) /\ AnswersOK(s) /\ PendingOK(s)
    BY DEF Future
  <2>2. Unanswered(statusTopic, s, crashes < MaxCrashes)' =>
            Unanswered(statusTopic, s, crashes < MaxCrashes)
    BY <1>0 DEF Unanswered, Pends, Answered
  <2>3. OpenStatus(statusTopic, s) => OpenStatus(statusTopic, s)'
    BY <1>0 DEF OpenStatus
  <2> QED BY <2>1, <2>2, <2>3 DEF AnswersOK, PendingOK, Keeps
<1> QED BY <1>1, <1>2, <1>3 DEF Future

(* A step that adds an entry to the status topic *)
LEMMA StatusAdded ==
    ASSUME Inv, Future, NoPendingPosted', NEW e \in StatusEntries, e.stage = "waiting",
           statusTopic' = Append(statusTopic, e), statusTask' = statusTask,
           source' = source, crashes' = crashes,
           \A s \in Sites : s # e.site \/ e.status = "PENDING" => Keeps(s),
           e.status = "PENDING" => Covered(e.site)'
    PROVE  Future'
<1> DEFINE again == crashes < MaxCrashes
<1>0. Ordered(statusTopic)
  BY DEF Future
<1>1. /\ Ordered(statusTopic')
      /\ \A s : Unanswered(statusTopic', s, again) =>
            \/ s = e.site /\ e.status = "PENDING"
            \/ Unanswered(statusTopic, s, again)
      /\ \A s : Unanswered(statusTopic', s, again) => s # e.site \/ e.status = "PENDING"
      /\ \A s : OpenStatus(statusTopic, s) \/ s = e.site => OpenStatus(statusTopic', s)
      /\ \A s : WaitingFor(statusTopic, s) \/ s = e.site => WaitingFor(statusTopic', s)
  BY <1>0, AppendedFuture
<1>2. statusTask.step # "idle" => StatusRunning' = StatusRunning
  <2>1. statusTask.step # "idle" => HasRunning(statusTopic)
    BY DEF Inv, StatusOK
  <2> QED BY <1>0, <2>1, AppendedFuture DEF StatusRunning
<1>3. statusTask.step # "idle" => StatusRunning.site \in Sites
  BY RunningStatus
<1> HIDE DEF StatusRunning
<1>4. WriteOK'
  BY <1>2, <1>3 DEF Future, WriteOK
<1>5. \A s \in Sites : s # e.site \/ e.status = "PENDING" =>
          (Covered(s) /\ source.status[s] # "COMPLETED" => Covered(s)')
  BY DEF Keeps
<1>6. WrittenOK'
  <2> SUFFICES ASSUME statusTask.step = "collect", StatusRunning'.status # "PENDING",
                      source.status[StatusRunning'.site] = "PENDING"
               PROVE  Covered(StatusRunning.site)' \/ WaitingFor(statusTopic, StatusRunning.site)'
    BY DEF WrittenOK
  <2> DEFINE t == StatusRunning.site
  <2>1. /\ t \in Sites /\ StatusRunning' = StatusRunning
        /\ Covered(t) \/ WaitingFor(statusTopic, t)
        /\ source.status[t] = "PENDING"
    BY <1>2, <1>3 DEF Future, WrittenOK
  <2>2. \A s \in Sites : Covered(s) /\ source.status[s] = "PENDING" =>
            Covered(s)' \/ WaitingFor(statusTopic', s)
    BY <1>1, <1>5
  <2>3. (Covered(t) => Covered(t)' \/ WaitingFor(statusTopic, t)')
        /\ (WaitingFor(statusTopic, t) => WaitingFor(statusTopic, t)')
    <3>1. t' = t /\ source.status[t] = "PENDING"
      BY <2>1
    <3>2. WaitingFor(statusTopic', t) => WaitingFor(statusTopic, t)'
      BY <3>1 DEF WaitingFor
    <3> QED BY <1>1, <2>1, <2>2, <3>1, <3>2 DEF Covered, Upstream, OpenEntry, Posted
  <2> QED BY <2>1, <2>3
<1>7. ASSUME NEW s \in Sites PROVE AnswersOK(s)' /\ PendingOK(s)'
  <2>1. AnswersOK(s) /\ PendingOK(s)
    BY DEF Future
  <2>2. Unanswered(statusTopic, s, crashes < MaxCrashes)' => Unanswered(statusTopic', s, again)
    BY DEF Unanswered, Pends, Answered
  <2>3. OpenStatus(statusTopic', s) => OpenStatus(statusTopic, s)'
    BY DEF OpenStatus
  <2>4. CASE s = e.site /\ e.status = "PENDING"
    BY <1>1, <2>3, <2>4 DEF AnswersOK, PendingOK
  <2>5. CASE s = e.site /\ e.status # "PENDING"
    BY <1>1, <2>2, <2>3, <2>5 DEF AnswersOK, PendingOK
  <2>6. CASE s # e.site
    BY <1>1, <1>5, <2>1, <2>2, <2>3, <2>6 DEF AnswersOK, PendingOK
  <2> QED BY <2>4, <2>5, <2>6
<1>8. Ordered(statusTopic)'
  BY <1>1 DEF Ordered
<1> QED BY <1>4, <1>6, <1>7, <1>8 DEF Future

(* No PENDING status is sent by a processor *)
LEMMA SentStatus ==
    ASSUME Inv, NoPendingPosted, NEW w \in Processes, NEW q,
           outbox' = [outbox EXCEPT ![w] = q],
           \A i \in 1 .. Len(q) : q[i].topic = "status" => q[i].entry.status # "PENDING"
    PROVE  NoPendingPosted'
<1>1. DOMAIN outbox = Processes
  BY DEF Inv, MessagesOK
<1>2. \A x \in Processes : outbox'[x] = IF x = w THEN q ELSE outbox[x]
  BY <1>1
<1> QED BY <1>2 DEF NoPendingPosted

(* What is under way once a process has sent m *)
LEMMA SendFuture ==
    ASSUME Inv, NoPendingPosted, NEW w \in Processes, NEW m, Send(w, m),
           m.topic = "status" => m.entry.status # "PENDING"
    PROVE  /\ NoPendingPosted'
           /\ \A s : Posted(s) \/ s \in MsgSites(m) => Posted(s)'
<1> DEFINE q == outbox[w]
           r == Append(q, m)
<1>1. q \in Seq(Messages) /\ outbox' = [outbox EXCEPT ![w] = r]
  BY DEF Inv, MessagesOK, Send
<1>2. q \in Seq(Messages \cup {m}) /\ m \in Messages \cup {m}
  BY <1>1, SeqMonotonic
<1> DEFINE M == Messages \cup {m}
<1> HIDE DEF M
<1>3. SitesOf(r) = SitesOf(q) \cup MsgSites(m)
  BY <1>2, OutboxSites DEF M
<1>4. /\ Len(r) = Len(q) + 1 /\ r[Len(q) + 1] = m /\ Len(q) \in Nat
      /\ \A j \in 1 .. Len(q) : r[j] = q[j]
  BY <1>2, AppendProperties DEF M
<1>5. LostSites(w) = SitesOf(q)
  BY DEF LostSites, SitesOf
<1> HIDE DEF r, q
<1>6. \A i \in 1 .. Len(r) : r[i].topic = "status" => r[i].entry.status # "PENDING"
  <2>1. \A i \in 1 .. Len(q) : q[i].topic = "status" => q[i].entry.status # "PENDING"
    BY DEF NoPendingPosted, q
  <2>2. \A i \in 1 .. Len(r) : i \in 1 .. Len(q) \/ i = Len(q) + 1
    BY <1>4
  <2> QED BY <1>4, <2>1, <2>2
<1>7. NoPendingPosted'
  BY <1>1, <1>6, SentStatus
<1>8. ASSUME NEW s PROVE Posted(s) \/ s \in MsgSites(m) => Posted(s)'
  BY <1>1, <1>3, <1>5, OneOutbox
<1> QED BY <1>7, <1>8

(* A step of a running task publishes an outcome, is excused or has nothing   *)
(* to answer: the status is COMPLETED                                         *)
LEMMA TaskFuture ==
    ASSUME Inv, Inv', Future, NEW p \in Processors, TaskStep(p)
    PROVE  Future'
<1>1. /\ source' = source /\ UNCHANGED statuses /\ retry' = retry
      /\ crashes' \in {crashes, crashes + 1} /\ crashes \in Nat /\ task[p] # "idle"
  BY DEF TaskStep, Inv, RestOK
<1>2. crashes' < MaxCrashes => crashes < MaxCrashes
  <2>1. MaxCrashes \in Nat
    BY ReplicationAssumption DEF ReplicationAssumption
  <2>2. \A a, b \in Nat : a + 1 < b => a < b
    OBVIOUS
  <2> QED BY <1>1, <2>1, <2>2
<1>3. NoPendingPosted /\ p \in Processes
  BY DEF Future, Processes
<1>4. UNCHANGED outbox => NoPendingPosted' /\ \A s : Posted(s) => Posted(s)'
  BY <1>3 DEF NoPendingPosted, Posted, LostSites
<1>5. ASSUME EndTask(p), NEW s, s # SiteOf(p), OpenEntry(s) PROVE OpenEntry(s)'
  <2>1. p \in DOMAIN partition
    BY DEF Inv, QueuesOK
  <2>2. partition' = [partition EXCEPT ![p] = Processed(partition[p], First(partition[p], "running"))]
    BY <1>5, <2>1 DEF EndTask
  <2> QED BY <1>5, <2>2, OneQueue
<1>6. ASSUME NEW st \in Steps \ {"idle"}, Step(p, st) PROVE Future'
  <2>1. UNCHANGED <<partition, outbox, excused>>
    BY <1>6 DEF Step
  <2>2. \A s \in Sites : Keeps(s)
    BY <1>1, <2>1 DEF Keeps, Covered, Upstream, OpenEntry, Posted, LostSites
  <2> QED BY <1>1, <1>2, <1>4, <2>1, <2>2, StatusKept
<1>7. CASE /\ EndTask(p) /\ source.status[SiteOf(p)] = "COMPLETED"
           /\ UNCHANGED <<outbox, excused>>
  <2>1. \A s \in Sites : Keeps(s)
    BY <1>1, <1>4, <1>5, <1>7 DEF Keeps, Covered, Upstream
  <2> QED BY <1>1, <1>2, <1>4, <1>7, <2>1, StatusKept
<1>8. CASE Skip(p)
  <2>1. \A s \in Sites : Keeps(s)
    BY <1>1, <1>4, <1>5, <1>8 DEF Keeps, Covered, Upstream, Skip, Excuse
  <2> QED BY <1>1, <1>2, <1>4, <1>8, <2>1, StatusKept DEF Skip
<1>9. ASSUME NEW status \in {"FAILED", "COMPLETED"}, PublishStatus(p, status)
      PROVE  Future'
  <2> DEFINE m == [topic |-> "status", entry |-> StatusEntry(SiteOf(p), status, Running(p))]
  <2>1. Send(p, m) /\ EndTask(p) /\ excused' = excused
    BY <1>9 DEF PublishStatus
  <2>2. m.entry.status # "PENDING" /\ MsgSites(m) = {SiteOf(p)}
    BY DEF StatusEntry, MsgSites
  <2> HIDE DEF m
  <2>3. NoPendingPosted' /\ \A s : Posted(s) \/ s \in MsgSites(m) => Posted(s)'
    BY <1>3, <2>1, <2>2, SendFuture
  <2>4. \A s \in Sites : Keeps(s)
    BY <1>1, <1>5, <2>1, <2>2, <2>3 DEF Keeps, Covered, Upstream
  <2> QED BY <1>1, <1>2, <2>3, <2>4, StatusKept
<1> QED BY <1>6, <1>7, <1>8, <1>9 DEF TaskStep, TaskOutcome

(* A skipped entry finds a task in progress *)
LEMMA ProcessEntryFuture ==
    ASSUME Inv, Inv', Future, NEW p \in Processors, ProcessReplicationEntry(p)
    PROVE  Future'
<1>1. /\ source' = source /\ UNCHANGED statuses /\ retry' = retry
      /\ crashes' = crashes /\ excused' = excused /\ outbox' = outbox
  BY DEF ProcessReplicationEntry, bounds
<1>2. NoPendingPosted'
  BY <1>1 DEF Future, NoPendingPosted
<1>3. PICK q : partition' = [partition EXCEPT ![p] = q] /\ task'[p] # "idle"
  <2>1. p \in DOMAIN partition /\ p \in DOMAIN task
    BY DEF Inv, QueuesOK
  <2> QED BY <2>1 DEF ProcessReplicationEntry
<1>4. OpenQueue(q)
  <2>1. HasRunning(partition'[p]) /\ partition'[p] \in Seq(EntriesOf(p)')
    BY <1>3 DEF Inv, QueuesOK, QueueOK
  <2>2. partition'[p] = q
    BY <1>3 DEF Inv, QueuesOK
  <2> QED BY <2>1, <2>2 DEF HasRunning, OpenQueue
<1>5. \A s \in Sites : Keeps(s)
  <2>1. \A s : OpenEntry(s) => OpenEntry(s)'
    BY <1>3, <1>4, OneQueue
  <2> QED BY <1>1, <2>1 DEF Keeps, Covered, Upstream, Posted, LostSites
<1> QED BY <1>1, <1>2, <1>5, StatusKept

(* A message that leaves an outbox lands, or its site is excused *)
LEMMA DeliverFuture ==
    ASSUME Inv, Inv', Future, NEW w \in Processes, Deliver(w)
    PROVE  Future'
<1> DEFINE m == Head(outbox[w])
           t == Tail(outbox[w])
<1>1. /\ source' = source /\ statusTask' = statusTask /\ retry' = retry /\ crashes' = crashes
      /\ excused \subseteq excused'
  BY DEF Deliver, bounds, Excuse
<1>2. outbox[w] \in Seq(Messages) /\ outbox[w] # <<>> /\ outbox' = [outbox EXCEPT ![w] = t]
  BY DEF Inv, MessagesOK, Deliver
<1>3. /\ m \in Messages /\ m = outbox[w][1] /\ Len(t) = Len(outbox[w]) - 1
      /\ \A i \in 1 .. Len(t) : t[i] = outbox[w][i + 1]
  BY <1>2, HeadTailProperties
<1>4. LostSites(w) = MsgSites(m) \cup SitesOf(t)
  <2>1. LostSites(w) = SitesOf(outbox[w])
    BY DEF LostSites, SitesOf
  <2> QED BY <1>2, <2>1, OutboxSites
<1> HIDE DEF m, t
<1>5. Len(outbox[w]) \in Nat /\ 1 \in 1 .. Len(outbox[w])
  BY <1>2, EmptySeq
<1>6. NoPendingPosted' /\ (m.topic = "status" => m.entry.status # "PENDING")
  <2>1. \A i \in 1 .. Len(outbox[w]) :
            outbox[w][i].topic = "status" => outbox[w][i].entry.status # "PENDING"
    BY DEF Future, NoPendingPosted
  <2>2. \A i \in 1 .. Len(t) : i + 1 \in 1 .. Len(outbox[w])
    BY <1>3, <1>5
  <2>3. \A i \in 1 .. Len(t) : t[i].topic = "status" => t[i].entry.status # "PENDING"
    BY <1>3, <2>1, <2>2
  <2> QED BY <1>2, <1>3, <1>5, <2>1, <2>3, SentStatus DEF Future
<1>7. \A s : Posted(s) => Posted(s)' \/ s \in MsgSites(m)
  BY <1>2, <1>4, OneOutbox
<1>8. partition' = partition => \A s : OpenEntry(s) => OpenEntry(s)'
  BY DEF OpenEntry
<1>9. CASE /\ m.topic = "status" /\ statusTopic' = Append(statusTopic, m.entry)
           /\ UNCHANGED <<partition, gcTopic, excused>>
  <2>1. m.entry \in StatusEntries /\ m.entry.stage = "waiting" /\ MsgSites(m) = {m.entry.site}
    BY <1>3, <1>9, MessageForms DEF MsgSites
  <2>2. \A s \in Sites : s # m.entry.site => Keeps(s)
    BY <1>1, <1>7, <1>8, <1>9, <2>1 DEF Keeps, Covered, Upstream
  <2> QED BY <1>1, <1>6, <1>9, <2>1, <2>2, StatusAdded
<1>10. CASE m.topic = "gc" /\ UNCHANGED <<partition, statusTopic, excused>>
  <2>1. MsgSites(m) = {}
    BY <1>10 DEF MsgSites
  <2>2. \A s \in Sites : Keeps(s)
    BY <1>1, <1>7, <1>8, <1>10, <2>1 DEF Keeps, Covered, Upstream
  <2> QED BY <1>1, <1>6, <1>10, <2>2, StatusKept DEF statuses
<1>11. CASE /\ m.topic = "replay"
            /\ partition' = [partition EXCEPT ![m.to] = Append(@, m.entry)]
            /\ UNCHANGED <<statusTopic, gcTopic, excused>>
  <2> DEFINE q == Append(partition[m.to], m.entry)
  <2>1. /\ m.to \in Processors /\ m.entry \in EntriesOf(m.to) /\ m.entry.stage = "waiting"
        /\ MsgSites(m) = {SiteOf(m.to)}
    BY <1>3, <1>11, MessageForms DEF MsgSites
  <2>2. partition[m.to] \in Seq(EntriesOf(m.to)) /\ DOMAIN partition = Processors
    BY <2>1 DEF Inv, QueuesOK, QueueOK
  <2>3. OpenQueue(q) /\ partition' = [partition EXCEPT ![m.to] = q]
    BY <1>11, <2>1, <2>2, EntriesStaged, OpenQueues
  <2> HIDE DEF q
  <2>4. \A s : OpenEntry(s) => OpenEntry(s)'
    BY <2>1, <2>3, OneQueue
  <2>5. OpenQueue(partition'[m.to])
    BY <2>1, <2>2, <2>3
  <2>6. \A s \in MsgSites(m) : OpenEntry(s)'
    BY <2>1, <2>5 DEF OpenEntry, OpenQueue
  <2>7. \A s \in Sites : Keeps(s)
    BY <1>1, <1>7, <1>11, <2>4, <2>6 DEF Keeps, Covered, Upstream
  <2> QED BY <1>1, <1>6, <1>11, <2>7, StatusKept DEF statuses
<1>12. CASE Excuse(MsgSites(m)) /\ UNCHANGED <<partition, statusTopic, gcTopic>>
  <2>1. \A s \in Sites : Keeps(s)
    BY <1>1, <1>7, <1>8, <1>12 DEF Keeps, Covered, Upstream, Excuse
  <2> QED BY <1>1, <1>6, <1>12, <2>1, StatusKept DEF statuses
<1> QED BY <1>9, <1>10, <1>11, <1>12 DEF Deliver, m

(* The collector, and the API's request while nothing of it is delivered *)
LEMMA CollectorFuture ==
    ASSUME Inv, Inv', Future, ExecuteDeleteData
    PROVE  Future'
<1>1. /\ UNCHANGED <<queues, statuses, outbox, retry, excused>>
      /\ crashes' \in {crashes, crashes + 1} /\ crashes \in Nat
  BY DEF ExecuteDeleteData, Inv, RestOK
<1>2. source'.status = source.status
  BY DEF ExecuteDeleteData, Inv, SourceOK, Metadata
<1>3. crashes' < MaxCrashes => crashes < MaxCrashes
  <2>1. MaxCrashes \in Nat
    BY ReplicationAssumption DEF ReplicationAssumption
  <2>2. \A a, b \in Nat : a + 1 < b => a < b
    OBVIOUS
  <2> QED BY <1>1, <2>1, <2>2
<1>4. \A s \in Sites : Keeps(s)
  BY <1>1 DEF Keeps, Covered, Upstream, OpenEntry, Posted, LostSites, queues
<1>5. NoPendingPosted'
  BY <1>1 DEF Future, NoPendingPosted
<1> QED BY <1>1, <1>2, <1>3, <1>4, <1>5, StatusKept

LEMMA RetryFuture ==
    ASSUME Inv, Inv', Future, NEW x \in Sites, RetryFailedCRR(x)
    PROVE  Future'
<1>1. /\ UNCHANGED <<queues, statuses, outbox, excused, source, crashes>>
      /\ retry \in [Sites -> Requests] /\ retry[x].step = "none"
  BY DEF RetryFailedCRR, Inv, RestOK
<1>2. \A s \in Sites : retry[s].step = "crr" => retry'[s].step = "crr"
  BY <1>1 DEF RetryFailedCRR
<1>3. \A s \in Sites : Keeps(s)
  BY <1>1, <1>2 DEF Keeps, Covered, Upstream, OpenEntry, Posted, LostSites, queues
<1>4. NoPendingPosted'
  BY <1>1 DEF Future, NoPendingPosted
<1> QED BY <1>1, <1>3, <1>4, StatusKept

(* The API makes a site PENDING, and owes it an entry *)
LEMMA PushStatusFuture ==
    ASSUME Inv, Inv', Future, NEW x \in Sites, PushRetryStatus(x)
    PROVE  Future'
<1> DEFINE e == StatusEntry(x, "PENDING", retry[x].entry)
<1>1. /\ UNCHANGED <<queues, statusTask, outbox, excused, source, crashes>>
      /\ retry \in [Sites -> Requests] /\ retry[x].step = "status"
  BY DEF PushRetryStatus, Inv, RestOK, bounds
<1>2. NoPendingPosted'
  BY <1>1 DEF Future, NoPendingPosted
<1>3. \A s \in Sites : s # x => retry'[s] = retry[s]
  BY <1>1 DEF PushRetryStatus
<1>4. \A s \in Sites : Keeps(s)
  BY <1>1, <1>3 DEF Keeps, Covered, Upstream, OpenEntry, Posted, LostSites, queues
<1>5. CASE statusTopic' = Append(statusTopic, e) /\ retry' = [retry EXCEPT ![x].step = "crr"]
  <2>1. retry[x] \in [step : {"status", "crr"},
                       entry : {f \in EntriesIn({"waiting"}) : f.count = Unset}]
    BY <1>1 DEF Requests
  <2>2. retry'[x].step = "crr"
    BY <1>1, <1>5, <2>1
  <2>3. Covered(x)'
    BY <2>2 DEF Covered, Upstream
  <2>4. e \in StatusEntries /\ e.stage = "waiting" /\ e.site = x /\ e.status = "PENDING"
    <3> DEFINE f == retry[x].entry
    <3>1. f \in EntriesIn({"waiting"})
      BY <2>1
    <3> HIDE DEF f
    <3>2. [f EXCEPT !.stage = "waiting"] \in EntriesIn({"waiting"})
      BY <3>1 DEF EntriesIn
    <3> QED BY <3>2 DEF StatusEntry, StatusEntries, Statuses, Stages, f
  <2> HIDE DEF e
  <2>5. PICK f \in StatusEntries : /\ statusTopic' = Append(statusTopic, f)
                                  /\ f.stage = "waiting" /\ f.site = x
    BY <1>5, <2>4
  <2>6. Covered(f.site)'
    BY <2>3, <2>5
  <2> QED BY <1>1, <1>2, <1>4, <2>5, <2>6, StatusAdded
<1>6. CASE statusTopic' = statusTopic
  BY <1>1, <1>2, <1>4, <1>6, StatusKept DEF statuses
<1> QED BY <1>5, <1>6 DEF PushRetryStatus

LEMMA PushEntryFuture ==
    ASSUME Inv, Inv', Future, NEW x \in Sites, PushRetryEntry(x)
    PROVE  Future'
<1>1. /\ UNCHANGED <<statuses, outbox, source, crashes>>
      /\ retry \in [Sites -> Requests] /\ retry[x].step = "crr" /\ excused \subseteq excused'
  BY DEF PushRetryEntry, Inv, RestOK, bounds, Excuse
<1>2. NoPendingPosted' /\ \A s : Posted(s) => Posted(s)'
  BY <1>1 DEF Future, NoPendingPosted, Posted, LostSites
<1>3. \A s \in Sites : s # x => retry'[s] = retry[s]
  BY <1>1 DEF PushRetryEntry
<1>4. CASE partition' = [partition EXCEPT ![Crr(x)] = Append(@, retry[x].entry)]
  <2> DEFINE p == Crr(x)
             e == retry[x].entry
             q == Append(partition[p], e)
  <2>1. p \in Processors /\ SiteOf(p) = x
    BY ProcessorSites
  <2>2. e \in EntriesOf(p) /\ e.stage = "waiting"
    <3>1. retry[x] \in [step : {"status", "crr"},
                         entry : {f \in EntriesIn({"waiting"}) : f.count = Unset}]
      BY <1>1 DEF Requests
    <3> QED BY <2>1, <3>1 DEF EntriesOf, EntriesIn, Fits, Stages
  <2>3. partition[p] \in Seq(EntriesOf(p)) /\ DOMAIN partition = Processors
    BY <2>1 DEF Inv, QueuesOK, QueueOK
  <2>4. OpenQueue(q) /\ partition' = [partition EXCEPT ![p] = q]
    BY <1>4, <2>1, <2>2, <2>3, EntriesStaged, OpenQueues
  <2> HIDE DEF q, p
  <2>5. \A s : OpenEntry(s) => OpenEntry(s)'
    BY <2>1, <2>4, OneQueue
  <2>6. OpenQueue(partition'[p])
    BY <2>1, <2>3, <2>4
  <2>7. OpenEntry(x)'
    BY <2>1, <2>6 DEF OpenEntry, OpenQueue
  <2>8. \A s \in Sites : Keeps(s)
    BY <1>1, <1>2, <1>3, <2>5, <2>7 DEF Keeps, Covered, Upstream
  <2> QED BY <1>1, <1>2, <2>8, StatusKept
<1>5. CASE Excuse({x}) /\ UNCHANGED partition
  <2>1. \A s \in Sites : Keeps(s)
    BY <1>1, <1>2, <1>3, <1>5 DEF Keeps, Covered, Upstream, OpenEntry, Excuse
  <2> QED BY <1>1, <1>2, <2>1, StatusKept
<1> QED BY <1>4, <1>5 DEF PushRetryEntry

LEMMA CrashProcessorFuture ==
    ASSUME Inv, Inv', Future, NEW p \in Processors, CrashProcessor(p)
    PROVE  Future'
<1>1. /\ UNCHANGED <<statuses, source, retry>>
      /\ crashes < MaxCrashes /\ p \in Processes
      /\ excused' = excused \cup LostSites(p)
      /\ outbox' = [outbox EXCEPT ![p] = <<>>]
  BY DEF CrashProcessor, Excuse, Processes
<1>2. NoPendingPosted'
  <2> DEFINE q == <<>>
  <2>1. \A i \in 1 .. Len(q) : q[i].topic = "status" => q[i].entry.status # "PENDING"
    OBVIOUS
  <2> QED BY <1>1, <2>1, SentStatus DEF Future
<1>3. \A s : Posted(s) => Posted(s)' \/ s \in LostSites(p)
  BY <1>1, OneOutbox
<1>4. PICK q \in Redelivered(partition[p]) : partition' = [partition EXCEPT ![p] = q]
  BY DEF CrashProcessor
<1>5. partition[p] \in Seq(EntriesOf(p)) /\ Staged(EntriesOf(p))
  BY EntriesStaged DEF Inv, QueuesOK, QueueOK
<1>6. OpenQueue(partition[p]) => OpenQueue(q)
  BY <1>5, OpenQueues
<1>7. \A s : OpenEntry(s) => OpenEntry(s)'
  BY <1>4, <1>6, OneQueue
<1>8. \A s \in Sites : Keeps(s)
  BY <1>1, <1>3, <1>7 DEF Keeps, Covered, Upstream
<1> QED BY <1>1, <1>2, <1>8, StatusKept

(* The first entry of the status topic that is not done is processed *)
LEMMA StatusEnded ==
    ASSUME Inv, Future, NoPendingPosted', NEW i \in 1 .. Len(statusTopic),
           \A j \in 1 .. i - 1 : statusTopic[j].stage = "done",
           statusTopic' = Processed(statusTopic, i), statusTask'.step = "idle",
           source' = source, crashes' = crashes,
           \A s \in Sites : Keeps(s),
           NEW x \in Sites, x = statusTopic[i].site,
           source.status[x] = "PENDING" =>
               Covered(x)' \/ (WaitingFor(statusTopic, x) /\ statusTopic[i].stage # "waiting")
    PROVE  Future'
<1> DEFINE again == crashes < MaxCrashes
<1>0. Ordered(statusTopic)
  BY DEF Future
<1>1. /\ Ordered(statusTopic')
      /\ \A s : Unanswered(statusTopic', s, again) => Unanswered(statusTopic, s, again)
      /\ \A s : s # x /\ OpenStatus(statusTopic, s) => OpenStatus(statusTopic', s)
      /\ WaitingFor(statusTopic, x) /\ statusTopic[i].stage # "waiting" =>
             WaitingFor(statusTopic', x)
  BY <1>0, ProcessedFuture
<1>2. WriteOK' /\ WrittenOK'
  BY DEF WriteOK, WrittenOK
<1>3. Ordered(statusTopic)'
  BY <1>1 DEF Ordered
<1>4. ASSUME NEW s \in Sites PROVE AnswersOK(s)' /\ PendingOK(s)'
  <2>1. Keeps(s) /\ AnswersOK(s) /\ PendingOK(s)
    BY DEF Future
  <2>2. Unanswered(statusTopic, s, crashes < MaxCrashes)' => Unanswered(statusTopic', s, again)
    BY DEF Unanswered, Pends, Answered
  <2>3. OpenStatus(statusTopic', s) => OpenStatus(statusTopic, s)'
    BY DEF OpenStatus
  <2>4. AnswersOK(s)'
    BY <1>1, <2>1, <2>2 DEF AnswersOK, Keeps
  <2>5. WaitingFor(statusTopic', s) => OpenStatus(statusTopic', s)
    BY DEF WaitingFor, OpenStatus
  <2>6. PendingOK(s)'
    <3>1. CASE s = x
      BY <1>1, <2>3, <2>5, <3>1 DEF PendingOK
    <3>2. CASE s # x
      BY <1>1, <2>1, <2>3, <3>2 DEF PendingOK, Keeps
    <3> QED BY <3>1, <3>2
  <2> QED BY <2>4, <2>6
<1> QED BY <1>2, <1>3, <1>4 DEF Future

(* The entries before the one that the status processor takes, or that it     *)
(* has in progress, are done                                                  *)
LEMMA DoneBefore ==
    ASSUME Inv, Ordered(statusTopic)
    PROVE  /\ statusTask.step = "idle" /\ First(statusTopic, "waiting") # 0 =>
                \A j \in 1 .. First(statusTopic, "waiting") - 1 : statusTopic[j].stage = "done"
           /\ statusTask.step # "idle" =>
                /\ First(statusTopic, "running") \in 1 .. Len(statusTopic)
                /\ StatusRunning = statusTopic[First(statusTopic, "running")]
                /\ StatusRunning.stage = "running"
                /\ \A j \in 1 .. First(statusTopic, "running") - 1 : statusTopic[j].stage = "done"
<1> DEFINE q == statusTopic
<1>0. /\ q \in Seq(StatusEntries) /\ Len(q) \in Nat
      /\ statusTask.step = "idle" <=> ~HasRunning(q)
      /\ \A j \in 1 .. Len(q) : q[j].stage \in Stages
  BY EntriesStaged DEF Inv, StatusOK, StatusEntries
<1>1. ASSUME statusTask.step = "idle", First(q, "waiting") # 0
      PROVE  \A j \in 1 .. First(q, "waiting") - 1 : q[j].stage = "done"
  <2> DEFINE i == First(q, "waiting")
  <2>1. /\ i \in 0 .. Len(q)
        /\ \A j \in 1 .. i - 1 : q[j].stage # "waiting"
    BY <1>0, <1>1, FirstProperties
  <2> HIDE DEF i
  <2>2. \A j \in 1 .. i - 1 : j \in 1 .. Len(q)
    BY <1>0, <2>1
  <2> QED BY <1>0, <1>1, <2>1, <2>2 DEF HasRunning, Stages, i
<1>2. ASSUME statusTask.step # "idle"
      PROVE  /\ First(q, "running") \in 1 .. Len(q)
             /\ q[First(q, "running")].stage = "running"
             /\ \A j \in 1 .. First(q, "running") - 1 : q[j].stage = "done"
  <2> DEFINE i == First(q, "running")
  <2>1. i \in 0 .. Len(q) /\ i # 0 /\ q[i].stage = "running"
    BY <1>0, <1>2, FirstProperties DEF HasRunning
  <2> HIDE DEF i
  <2>2. i \in 1 .. Len(q) /\ \A j \in 1 .. i - 1 : j \in 1 .. Len(q) /\ j < i
    BY <1>0, <2>1
  <2> QED BY <2>1, <2>2 DEF Ordered, i
<1> QED BY <1>1, <1>2 DEF StatusRunning

(* A failed entry is replayed whenever there are replay topics *)
LEMMA ReplaySent ==
    ASSUME NReplays > 0, NEW e \in StatusEntries, Replayable(e)
    PROVE  NextReplayCount(e) + 1 \in DOMAIN replayTopics
<1>1. e.entry.count \in Unset .. NReplays - 1 /\ e.entry.count # 0
  BY DEF StatusEntries, EntriesIn, Replayable
<1>2. NReplays \in Nat /\ DOMAIN replayTopics = 1 .. NReplays
  BY ReplayTopicsType
<1> HIDE DEF NReplays
<1> QED BY <1>1, <1>2 DEF NextReplayCount, Unset

LEMMA RefreshFuture ==
    ASSUME ReplayTopics # <<>> => NReplays > 0, Inv, Inv', Future, RefreshAndDecide
    PROVE  Future'
<1> DEFINE i == First(statusTopic, "waiting")
<1>1. /\ source' = source /\ crashes' = crashes /\ partition' = partition
      /\ retry' = retry /\ excused \subseteq excused' /\ statusTask.step = "idle" /\ i # 0
  BY DEF RefreshAndDecide, bounds, queues, Excuse
<1>2. Ordered(statusTopic) /\ NoPendingPosted /\ \A s \in Sites : PendingOK(s)
  BY DEF Future
<1>3. /\ i \in 1 .. Len(statusTopic) /\ statusTopic[i] \in StatusEntries
      /\ statusTopic[i].stage = "waiting"
      /\ \A j \in 1 .. i - 1 : statusTopic[j].stage = "done"
  BY <1>1, <1>2, WaitingStatus, DoneBefore
<1>4. PICK e \in StatusEntries : e = statusTopic[i]
  BY <1>3
<1>5. PICK k \in 1 .. Len(statusTopic) : k = i
  BY <1>3
<1> DEFINE End == statusTopic' = Processed(statusTopic, k) /\ UNCHANGED statusTask
<1>6. \/ End /\ Excuse({e.site}) /\ UNCHANGED outbox
      \/ Final(e.site) /\ End /\ UNCHANGED <<outbox, excused>>
      \/ Replayable(e) /\ PushReplayEntry(e, NextReplayCount(e)) /\ End /\ UNCHANGED excused
      \/ /\ ~Final(e.site)
         /\ statusTopic' = Mark(statusTopic, k, "running")
         /\ statusTask' = [step |-> "put", md |-> Updated(e)]
         /\ UNCHANGED <<outbox, excused>>
  BY <1>4, <1>5 DEF RefreshAndDecide
<1>7. /\ statusTopic[k] = e /\ e.stage = "waiting" /\ e.site \in Sites
      /\ \A j \in 1 .. k - 1 : statusTopic[j].stage = "done"
  BY <1>3, <1>4, <1>5 DEF StatusEntries
<1> HIDE DEF i
<1>8. UNCHANGED outbox => /\ NoPendingPosted'
                          /\ \A s \in Sites : Covered(s) => Covered(s)'
  BY <1>1, <1>2 DEF NoPendingPosted, Covered, Upstream, OpenEntry, Posted, LostSites
<1>9. (\A s \in Sites : Covered(s) => Covered(s)') => \A s \in Sites : Keeps(s)
  BY DEF Keeps
<1>10. CASE End /\ Excuse({e.site}) /\ UNCHANGED outbox
  <2>1. Covered(e.site)'
    BY <1>10 DEF Excuse, Covered
  <2> QED BY <1>1, <1>7, <1>8, <1>9, <1>10, <2>1, StatusEnded
<1>11. CASE Final(e.site) /\ End /\ UNCHANGED <<outbox, excused>>
  <2>1. source.status[e.site] # "PENDING"
    BY <1>11 DEF Final
  <2> QED BY <1>1, <1>7, <1>8, <1>9, <1>11, <2>1, StatusEnded
<1>12. CASE Replayable(e) /\ PushReplayEntry(e, NextReplayCount(e)) /\ End /\ UNCHANGED excused
  <2> DEFINE c == NextReplayCount(e)
             m == [topic |-> "replay", to |-> <<e.site, replayTopics[c + 1]>>,
                   entry |-> [e.entry EXCEPT !.count = c]]
  <2>1. Send(StatusProcessor, m)
    BY <1>12, ReplaySent DEF PushReplayEntry, Replayable
  <2>2. m.topic = "replay" /\ MsgSites(m) = {e.site}
    BY DEF MsgSites, SiteOf
  <2> HIDE DEF m
  <2>3. StatusProcessor \in Processes
    BY DEF Processes
  <2>4. NoPendingPosted' /\ \A s : Posted(s) \/ s \in MsgSites(m) => Posted(s)'
    BY <1>2, <2>1, <2>2, <2>3, SendFuture
  <2>5. \A s \in Sites : Covered(s) => Covered(s)'
    BY <1>1, <1>12, <2>4 DEF Covered, Upstream, OpenEntry
  <2>6. Covered(e.site)'
    BY <2>2, <2>4 DEF Covered, Upstream
  <2> QED BY <1>1, <1>7, <1>9, <1>12, <2>4, <2>5, <2>6, StatusEnded
<1>13. CASE /\ ~Final(e.site)
            /\ statusTopic' = Mark(statusTopic, k, "running")
            /\ statusTask' = [step |-> "put", md |-> Updated(e)]
            /\ UNCHANGED <<outbox, excused>>
  <2>1. /\ Ordered(statusTopic')
        /\ \A s, again : Unanswered(statusTopic', s, again) => Unanswered(statusTopic, s, again)
        /\ \A s : OpenStatus(statusTopic, s) => OpenStatus(statusTopic', s)
        /\ statusTopic'[k].site = e.site /\ statusTopic'[k].status = e.status
        /\ statusTopic'[k].stage = "running" /\ Len(statusTopic') = Len(statusTopic)
    BY <1>2, <1>7, <1>13, StartedFuture
  <2>2. StatusRunning' = statusTopic'[k]
    <3>1. statusTopic' \in Seq(StatusEntries') /\ OneRunning(statusTopic')
      BY DEF Inv, StatusOK
    <3> DEFINE f == First(statusTopic', "running")
    <3>2. f \in 0 .. Len(statusTopic') /\ f # 0 /\ statusTopic'[f].stage = "running"
      BY <2>1, <3>1, FirstProperties
    <3>3. f = k
      <4> HIDE DEF f
      <4>1. f \in 1 .. Len(statusTopic') /\ k \in 1 .. Len(statusTopic')
        BY <2>1, <3>2
      <4> QED BY <2>1, <3>1, <3>2, <4>1 DEF OneRunning
    <3>4. First(statusTopic, "running")' = f
      BY DEF First
    <3> QED BY <3>3, <3>4 DEF StatusRunning
  <2> HIDE DEF StatusRunning
  <2>3. WrittenOK'
    BY <1>13 DEF WrittenOK
  <2>4. WriteOK'
    <3>1. Updated(e).status = [source.status EXCEPT ![e.site] = e.status]
          /\ source.status \in [Sites -> Statuses]
      BY DEF Updated, Inv, SourceOK, Metadata
    <3>2. source.status[e.site] # "COMPLETED"
      BY <1>13 DEF Final
    <3>3. StatusRunning'.site = e.site /\ StatusRunning'.status = e.status
      BY <2>1, <2>2
    <3>4. statusTask'.md.status = [source.status EXCEPT ![e.site] = e.status]
      BY <1>13, <3>1
    <3> QED BY <1>1, <1>7, <3>1, <3>2, <3>3, <3>4 DEF WriteOK
  <2>5. ASSUME NEW s \in Sites PROVE AnswersOK(s)' /\ PendingOK(s)'
    <3>1. Covered(s) => Covered(s)'
      BY <1>8, <1>13
    <3>2. Unanswered(statusTopic, s, crashes < MaxCrashes)' =>
            Unanswered(statusTopic', s, crashes < MaxCrashes)
      BY <1>1 DEF Unanswered, Pends, Answered
    <3>3. OpenStatus(statusTopic', s) => OpenStatus(statusTopic, s)'
      BY DEF OpenStatus
    <3>4. AnswersOK(s) /\ PendingOK(s)
      BY DEF Future
    <3> QED BY <1>1, <2>1, <3>1, <3>2, <3>3, <3>4 DEF AnswersOK, PendingOK
  <2>6. Ordered(statusTopic)'
    BY <2>1 DEF Ordered
  <2> QED BY <1>8, <1>13, <2>3, <2>4, <2>5, <2>6 DEF Future
<1> HIDE DEF End
<1> QED BY <1>6, <1>10, <1>11, <1>12, <1>13

(* The status in progress is written, or its site is excused *)
LEMMA PutFuture ==
    ASSUME Inv, Inv', ReadIsCurrent, Future, PutSourceMetadata
    PROVE  Future'
<1>1. /\ crashes' = crashes /\ partition' = partition /\ outbox' = outbox
      /\ retry' = retry /\ excused \subseteq excused' /\ statusTask.step = "put"
  BY DEF PutSourceMetadata, bounds, queues, Excuse
<1>2. /\ NoPendingPosted'
      /\ \A s \in Sites : Covered(s) => Covered(s)'
  BY <1>1 DEF Future, NoPendingPosted, Covered, Upstream, OpenEntry, Posted, LostSites
<1>3. StatusRunning \in StatusEntries /\ StatusRunning.site \in Sites
  BY <1>1, RunningStatus
<1>4. CASE /\ source' = [statusTask.md EXCEPT !.data = source.data]
           /\ statusTask' = [statusTask EXCEPT !.step = "collect"]
           /\ UNCHANGED <<statusTopic, excused>>
  <2>1. statusTask \in [step : {"put", "collect"}, md : Metadata]
    BY <1>1 DEF Inv, StatusOK
  <2>2. source'.status = statusTask.md.status /\ statusTask'.step = "collect"
    BY <1>4, <2>1 DEF Metadata
  <2>3. StatusRunning' = StatusRunning
    BY <1>4 DEF StatusRunning, First
  <2> HIDE DEF StatusRunning
  <2>4. /\ source'.status[StatusRunning.site] = StatusRunning.status
        /\ \A s \in Sites : s # StatusRunning.site /\ source'.status[s] = "PENDING" =>
                               source.status[s] = "PENDING"
        /\ \A s \in Sites : source.status[s] = "COMPLETED" => source'.status[s] = "COMPLETED"
    BY <1>1, <2>2 DEF Future, WriteOK, ReadIsCurrent
  <2>5. WriteOK' /\ WrittenOK'
    BY <2>2, <2>3, <2>4 DEF WriteOK, WrittenOK
  <2>6. OpenStatus(statusTopic, StatusRunning.site)
    <3>1. /\ First(statusTopic, "running") \in 1 .. Len(statusTopic)
          /\ StatusRunning = statusTopic[First(statusTopic, "running")]
          /\ StatusRunning.stage = "running"
      BY <1>1, DoneBefore DEF Future
    <3> QED BY <3>1 DEF OpenStatus
  <2>7. ASSUME NEW s \in Sites PROVE AnswersOK(s)' /\ PendingOK(s)'
    <3>1. AnswersOK(s) /\ PendingOK(s) /\ (Covered(s) => Covered(s)')
      BY <1>2 DEF Future
    <3>2. Unanswered(statusTopic, s, crashes < MaxCrashes)' =>
            Unanswered(statusTopic, s, crashes < MaxCrashes)
      BY <1>1, <1>4 DEF Unanswered, Pends, Answered
    <3>3. OpenStatus(statusTopic, s) => OpenStatus(statusTopic, s)'
      BY <1>4 DEF OpenStatus
    <3> QED BY <2>4, <2>6, <3>1, <3>2, <3>3 DEF AnswersOK, PendingOK
  <2>8. Ordered(statusTopic)'
    BY <1>4 DEF Future, Ordered
  <2> QED BY <1>2, <2>5, <2>7, <2>8 DEF Future
<1>5. CASE EndStatusTask /\ Excuse({StatusRunning.site}) /\ UNCHANGED source
  <2>1. PICK k \in 1 .. Len(statusTopic) :
          /\ k = First(statusTopic, "running") /\ statusTopic[k] = StatusRunning
          /\ \A j \in 1 .. k - 1 : statusTopic[j].stage = "done"
    BY <1>1, DoneBefore DEF Future
  <2>2. statusTopic' = Processed(statusTopic, k) /\ statusTask'.step = "idle"
    BY <1>5, <2>1 DEF EndStatusTask
  <2>3. PICK x \in Sites : x = StatusRunning.site
    BY <1>3
  <2>4. Covered(x)'
    BY <1>5, <2>3 DEF Excuse, Covered
  <2>5. \A s \in Sites : Keeps(s)
    BY <1>2 DEF Keeps
  <2> QED BY <1>1, <1>2, <1>5, <2>1, <2>2, <2>3, <2>4, <2>5, StatusEnded
<1> QED BY <1>4, <1>5 DEF PutSourceMetadata

(* The end of a status task: the entry is answered later in the topic, or     *)
(* work is under way                                                          *)
LEMMA GarbageFuture ==
    ASSUME Inv, Inv', Future, HandleGarbageCollection
    PROVE  Future'
<1>1. /\ source' = source /\ crashes' = crashes /\ partition' = partition
      /\ retry' = retry /\ excused' = excused /\ statusTask.step = "collect"
  BY DEF HandleGarbageCollection, bounds, queues
<1>2. NoPendingPosted' /\ \A s : Posted(s) => Posted(s)'
  <2>1. CASE UNCHANGED outbox
    BY <2>1 DEF Future, NoPendingPosted, Posted, LostSites
  <2>2. CASE Send(StatusProcessor, [topic |-> "gc"])
    <3>1. PICK m : m = [topic |-> "gc"]
      OBVIOUS
    <3>2. StatusProcessor \in Processes /\ m.topic # "status" /\ Send(StatusProcessor, m)
      BY <2>2, <3>1 DEF Processes
    <3> QED BY <3>2, SendFuture DEF Future
  <2> QED BY <2>1, <2>2 DEF HandleGarbageCollection
<1>3. \A s \in Sites : Covered(s) => Covered(s)'
  BY <1>1, <1>2 DEF Covered, Upstream, OpenEntry
<1>4. \A s \in Sites : Keeps(s)
  BY <1>3 DEF Keeps
<1>5. PICK k \in 1 .. Len(statusTopic) :
        /\ k = First(statusTopic, "running") /\ statusTopic[k] = StatusRunning
        /\ \A j \in 1 .. k - 1 : statusTopic[j].stage = "done"
        /\ StatusRunning.stage = "running"
  BY <1>1, DoneBefore DEF Future
<1>6. statusTopic' = Processed(statusTopic, k) /\ statusTask'.step = "idle"
  BY <1>5 DEF HandleGarbageCollection, EndStatusTask
<1>7. PICK x \in Sites : x = StatusRunning.site
  BY <1>1, RunningStatus
<1> HIDE DEF StatusRunning
<1>8. ASSUME source.status[x] = "PENDING" PROVE Covered(x)' \/ WaitingFor(statusTopic, x)
  <2>1. CASE StatusRunning.status # "PENDING"
    <3>1. Covered(StatusRunning.site) \/ WaitingFor(statusTopic, StatusRunning.site)
      BY <1>1, <1>7, <1>8, <2>1 DEF Future, WrittenOK
    <3> QED BY <1>3, <1>7, <3>1
  <2>2. CASE StatusRunning.status = "PENDING" /\ Answered(statusTopic, x, k)
    <3>1. PICK j \in 1 .. Len(statusTopic) : k < j /\ statusTopic[j].site = x
      BY <2>2 DEF Answered
    <3>2. statusTopic[j].stage = "waiting"
      BY <1>5, <3>1 DEF Future, Ordered
    <3> QED BY <3>1, <3>2 DEF WaitingFor
  <2>3. CASE StatusRunning.status = "PENDING" /\ ~Answered(statusTopic, x, k)
    <3>1. Unanswered(statusTopic, x, crashes < MaxCrashes)
      BY <1>5, <1>7, <2>3 DEF Unanswered, Pends
    <3>2. Covered(x)
      BY <1>8, <3>1 DEF Future, AnswersOK
    <3> QED BY <1>3, <3>2
  <2> QED BY <2>1, <2>2, <2>3
<1> QED BY <1>1, <1>2, <1>4, <1>5, <1>6, <1>7, <1>8, StatusEnded

LEMMA CrashStatusFuture ==
    ASSUME Inv, Inv', Future, CrashStatusProcessor
    PROVE  Future'
<1>1. /\ UNCHANGED <<source, retry, partition>>
      /\ crashes < MaxCrashes /\ statusTask'.step = "idle"
      /\ excused' = excused \cup LostSites(StatusProcessor)
      /\ outbox' = [outbox EXCEPT ![StatusProcessor] = <<>>]
      /\ statusTopic' \in Redelivered(statusTopic)
  BY DEF CrashStatusProcessor, Excuse, queues
<1>2. StatusProcessor \in Processes
  BY DEF Processes
<1>3. NoPendingPosted'
  <2> DEFINE q == <<>>
  <2>1. \A i \in 1 .. Len(q) : q[i].topic = "status" => q[i].entry.status # "PENDING"
    OBVIOUS
  <2> QED BY <1>1, <1>2, <2>1, SentStatus DEF Future
<1>4. \A s : Posted(s) => Posted(s)' \/ s \in LostSites(StatusProcessor)
  BY <1>1, <1>2, OneOutbox
<1>5. \A s \in Sites : Covered(s) => Covered(s)'
  BY <1>1, <1>4 DEF Covered, Upstream, OpenEntry
<1>6. /\ Ordered(statusTopic')
      /\ \A s, again : Unanswered(statusTopic', s, again) => Unanswered(statusTopic, s, TRUE)
      /\ \A s : OpenStatus(statusTopic, s) => OpenStatus(statusTopic', s)
  BY <1>1, RedeliveredFuture
<1>7. WriteOK' /\ WrittenOK' /\ Ordered(statusTopic)'
  BY <1>1, <1>6 DEF WriteOK, WrittenOK, Ordered
<1>8. ASSUME NEW s \in Sites PROVE AnswersOK(s)' /\ PendingOK(s)'
  <2>1. AnswersOK(s) /\ PendingOK(s) /\ (Covered(s) => Covered(s)')
    BY <1>5 DEF Future
  <2>2. Unanswered(statusTopic, s, crashes < MaxCrashes)' => Unanswered(statusTopic, s, TRUE)
    <3>1. Unanswered(statusTopic, s, crashes < MaxCrashes)' =>
            Unanswered(statusTopic', s, (crashes < MaxCrashes)')
      BY DEF Unanswered, Pends, Answered
    <3> QED BY <1>6, <3>1
  <2>3. Unanswered(statusTopic, s, TRUE) => Unanswered(statusTopic, s, crashes < MaxCrashes)
    BY <1>1
  <2>4. OpenStatus(statusTopic', s) => OpenStatus(statusTopic, s)'
    BY DEF OpenStatus
  <2> QED BY <1>1, <1>6, <2>1, <2>2, <2>3, <2>4 DEF AnswersOK, PendingOK
<1> QED BY <1>3, <1>7, <1>8 DEF Future

(* An update makes every site PENDING, and gives an entry to each *)
LEMMA UserUpdateFuture ==
    ASSUME Inv, Inv', Future, UserUpdate
    PROVE  Future'
<1>1. UNCHANGED <<statuses, outbox, retry, excused, crashes>>
  BY DEF UserUpdate
<1>2. \A s \in Sites : source'.status[s] = "PENDING"
  BY DEF UserUpdate, Inv, SourceOK, Metadata
<1>3. ASSUME NEW s \in Sites PROVE OpenEntry(s)'
  <2> DEFINE p == Crr(s)
  <2>1. p \in Processors /\ SiteOf(p) = s
    BY ProcessorSites
  <2>2. PICK e : partition'[p] = Append(partition[p], e) /\ e.stage = "waiting"
    <3>1. \A md : Entry(s, md, Unset).stage = "waiting"
      BY DEF Entry
    <3> QED BY <2>1, <3>1 DEF UserUpdate
  <2> DEFINE S == EntriesOf(p) \cup {e}
  <2>3. partition[p] \in Seq(S) /\ e \in S
    BY <2>1, SeqMonotonic DEF Inv, QueuesOK, QueueOK
  <2> HIDE DEF S
  <2>4. /\ Len(Append(partition[p], e)) = Len(partition[p]) + 1
        /\ Append(partition[p], e)[Len(partition[p]) + 1] = e
        /\ Len(partition[p]) + 1 \in 1 .. Len(partition[p]) + 1
    BY <2>3, AppendProperties
  <2>5. OpenQueue(partition'[p])
    BY <2>2, <2>4 DEF OpenQueue
  <2> QED BY <2>1, <2>5 DEF OpenEntry, OpenQueue
<1>4. NoPendingPosted' /\ Ordered(statusTopic)'
  BY <1>1 DEF Future, NoPendingPosted, Ordered, statuses
<1>5. statusTask' = statusTask /\ StatusRunning' = StatusRunning
  BY <1>1 DEF statuses, StatusRunning, First
<1>6. \A s \in Sites : Covered(s)'
  BY <1>3 DEF Covered, Upstream
<1>7. statusTask.step # "idle" => StatusRunning.site \in Sites
  BY RunningStatus
<1> HIDE DEF StatusRunning
<1>8. WriteOK'
  BY <1>2, <1>5, <1>7 DEF Future, WriteOK
<1>9. WrittenOK'
  <2> SUFFICES ASSUME statusTask.step = "collect" PROVE Covered(StatusRunning.site)'
    BY <1>5 DEF WrittenOK
  <2>1. PICK x \in Sites : x = StatusRunning'.site
    BY <1>5, <1>7
  <2>2. Covered(x)'
    BY <1>6
  <2> QED BY <2>1, <2>2
<1>10. \A s \in Sites : AnswersOK(s)' /\ PendingOK(s)'
  BY <1>6 DEF AnswersOK, PendingOK
<1> QED BY <1>4, <1>8, <1>9, <1>10 DEF Future

LEMMA InitFuture == Init => Future
<1> SUFFICES ASSUME Init PROVE Future
  OBVIOUS
<1>0. Inv
  BY InitInv
<1>1. statusTopic = <<>> /\ statusTask.step = "idle" /\ outbox = [w \in Processes |-> <<>>]
  BY DEF Init
<1>2. Ordered(statusTopic) /\ NoPendingPosted /\ WriteOK /\ WrittenOK
  BY <1>1 DEF Ordered, NoPendingPosted, WriteOK, WrittenOK
<1>3. ASSUME NEW s \in Sites PROVE AnswersOK(s) /\ PendingOK(s)
  <2> DEFINE p == Crr(s)
  <2>1. p \in Processors /\ SiteOf(p) = s
    BY ProcessorSites
  <2>2. partition[p] = <<Entry(s, source, Unset)>>
    BY <2>1 DEF Init
  <2>3. OpenQueue(partition[p])
    <3>0. Entry(s, source, Unset).stage = "waiting"
      BY DEF Entry
    <3>1. PICK e : e = Entry(s, source, Unset) /\ e.stage = "waiting"
      BY <3>0
    <3>2. Len(<<e>>) = 1 /\ <<e>>[1] = e /\ 1 \in 1 .. 1
      OBVIOUS
    <3> QED BY <2>2, <3>1, <3>2 DEF OpenQueue
  <2>4. OpenEntry(s)
    BY <2>1, <2>3 DEF OpenEntry
  <2> QED BY <2>4 DEF AnswersOK, PendingOK, Covered, Upstream
<1> QED BY <1>2, <1>3 DEF Future

LEMMA NextFuture ==
    ASSUME ReplayTopics # <<>> => NReplays > 0
    PROVE  Inv /\ Inv' /\ ReadIsCurrent /\ Future /\ [Next]_vars => Future'
<1> SUFFICES ASSUME Inv, Inv', ReadIsCurrent, Future, [Next]_vars PROVE Future'
  OBVIOUS
<1>1. ASSUME NEW p \in Processors, ProcessorStep(p) PROVE Future'
  BY <1>1, TaskStepForm, TaskFuture, ProcessEntryFuture
<1>2. CASE StatusStep
  BY <1>2, RefreshFuture, PutFuture, GarbageFuture DEF StatusStep
<1>3. ASSUME NEW w \in Processes, Deliver(w) PROVE Future'
  BY <1>3, DeliverFuture
<1>4. CASE ExecuteDeleteData
  BY <1>4, CollectorFuture
<1>5. ASSUME NEW s \in Sites, ApiStep(s) PROVE Future'
  BY <1>5, PushStatusFuture, PushEntryFuture DEF ApiStep
<1>6. ASSUME NEW p \in Processors, CrashProcessor(p) PROVE Future'
  BY <1>6, CrashProcessorFuture
<1>7. CASE CrashStatusProcessor
  BY <1>7, CrashStatusFuture
<1>8. ASSUME NEW s \in Sites, RetryFailedCRR(s) PROVE Future'
  BY <1>8, RetryFuture
<1>9. CASE UserUpdate
  BY <1>9, UserUpdateFuture
<1>10. CASE UNCHANGED vars
  <2>1. /\ UNCHANGED <<statuses, source, crashes>> /\ UNCHANGED partition /\ UNCHANGED outbox
        /\ UNCHANGED retry /\ UNCHANGED excused
    BY <1>10 DEF vars, bounds, queues
  <2>2. NoPendingPosted'
    BY <2>1 DEF Future, NoPendingPosted
  <2>3. \A s \in Sites : Keeps(s)
    BY <2>1 DEF Keeps, Covered, Upstream, OpenEntry, Posted, LostSites
  <2> QED BY <2>1, <2>2, <2>3, StatusKept
<1> QED BY <1>1, <1>2, <1>3, <1>4, <1>5, <1>6, <1>7, <1>8, <1>9, <1>10 DEF Next, Progress

(* PendingHasFuture: whatever processors, status processor, API, users and   *)
(* crashes do, a site that is PENDING has something under way or met a       *)
(* documented dead end.  A configuration whose replay topics all have        *)
(* retries: 0, which ReplicationConfigValidator accepts, is left out: a failed*)
(* entry is then sent nowhere (_pushReplayEntry) and its site stays PENDING  *)
THEOREM NoSiteForgotten ==
    ASSUME ReplayTopics # <<>> => NReplays > 0
    PROVE  Spec => []PendingHasFuture
<1>1. Inv /\ Future => PendingHasFuture
  <2> SUFFICES ASSUME Inv, Future, NEW s \in Sites, source.status[s] = "PENDING"
               PROVE  InFlight(s) \/ s \in excused
    BY DEF PendingHasFuture
  <2>1. Covered(s) \/ OpenStatus(statusTopic, s)
    BY DEF Future, PendingOK
  <2>2. OpenStatus(statusTopic, s) => InFlight(s)
    <3>1. DOMAIN statusTopic = 1 .. Len(statusTopic)
      BY DEF Inv, StatusOK
    <3> QED BY <3>1 DEF OpenStatus, InFlight
  <2>3. OpenEntry(s) => InFlight(s)
    <3>1. \A p \in Processors : DOMAIN partition[p] = 1 .. Len(partition[p])
      BY DEF Inv, QueuesOK, QueueOK
    <3> QED BY <3>1 DEF OpenEntry, OpenQueue, InFlight
  <2>4. Posted(s) \/ retry[s].step = "crr" => InFlight(s)
    BY DEF Posted, InFlight
  <2> QED BY <2>1, <2>2, <2>3, <2>4 DEF Covered, Upstream
<1>2. Init => ReadIsCurrent
  BY DEF Init, ReadIsCurrent
<1>3. Inv /\ ReadIsCurrent /\ [Next]_vars => ReadIsCurrent'
  BY ReadStep
<1> QED BY <1>1, <1>2, <1>3, InitInv, InitFuture, NextInv, NextFuture, PTL DEF Spec
=============================================================================
