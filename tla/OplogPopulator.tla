--------------------------- MODULE OplogPopulator ---------------------------
(* The oplog populator decides which buckets' oplog is published to Kafka: it
   lists the buckets that have a feature enabled, follows the change stream of
   the bucket metastore, assigns every bucket to the least full connector, and a
   cron job creates, updates and deletes the connectors in Kafka Connect.

   The handler of an event is not awaited: the events of a batch of the change
   stream are handed over before the first handler goes on.  A call to Kafka
   Connect is in flight while events are handled and the cron job runs again.
   Mongo and Kafka Connect are outside the repository.                         *)
EXTENDS Integers, Sequences, FiniteSets, SequencesExt

CONSTANTS
    Buckets,
    NbConnectors,   \* numberOfConnectors
    MaxChanges,     \* changes of buckets (bound)
    MaxFaults       \* restarts, failed and silent calls, stream errors (bound)

ASSUME OplogAssumption ==
    /\ IsFiniteSet(Buckets)
    /\ {NbConnectors, MaxChanges, MaxFaults} \subseteq Nat /\ NbConnectors > 0

VARIABLES
    metastore,  \* the state of every bucket in Mongo
    oplog,      \* changes of the metastore: [bucket, op, to]
    proc,       \* where setup is
    valid,      \* buckets listed by setup
    pos,        \* first event that neither the listing nor the change stream gave
    token,      \* the resume token: the last event received, or 0
    owner,      \* _bucketsToConnectors
    awaited,    \* what handlers that wait will set in it, for every bucket
    conn,       \* the Connector objects
    calls,      \* calls to Kafka Connect in flight
    kafka,      \* the connectors of Kafka Connect
    silent,     \* connectors whose calls are never answered
    faults,     \* faults so far
    missed,     \* history: an event of the metastore was in no listing and no stream
    sameTime,   \* history: a bucket changed in the millisecond an update started
    doubled,    \* history: a bucket was in two connectors when the process started
    overtaken,  \* history: a connector was created with buckets it no longer had to send
    raced,      \* history: an event of a bucket came before the handler of the last was done
    strayed     \* history: a call of a process that died took effect under the next

vars == <<metastore, oplog, proc, valid, pos, token, owner, conn, awaited, calls, kafka, silent,
          faults, missed, sameTime, doubled, overtaken, raced, strayed>>
mongo == <<metastore, oplog>>
stream == <<pos, token>>
memory == <<owner, conn, awaited>>
kafkaConnect == <<kafka, silent>>
history == <<missed, sameTime, doubled, overtaken, raced, strayed>>

Connectors == 1..NbConnectors
NoConnector == 0
NoDate == 0
Enabled == {b \in Buckets : metastore[b] = "on"}

(* modified is bucketsGotModified; later is lastUpdated > timeBeforeUpdate;
   pipeline and resume are part of the configuration.                          *)
NewConnector ==
    [buckets |-> {}, running |-> FALSE, modified |-> TRUE, updating |-> FALSE, later |-> FALSE,
     pipeline |-> {}, resume |-> NoDate]

Fault ==
    /\ faults < MaxFaults
    /\ faults' = faults + 1

-----------------------------------------------------------------------------
(* Users create, change and delete buckets. *)
ChangeBucket(b, to) ==
    /\ Len(oplog) < MaxChanges
    /\ metastore[b] # to
    /\ metastore' = [metastore EXCEPT ![b] = to]
    /\ oplog' = Append(oplog, [bucket |-> b, to |-> to, op |-> IF to = "none" THEN "delete"
                                                              ELSE IF metastore[b] = "none" THEN "insert"
                                                              ELSE "update"])
    /\ UNCHANGED <<proc, valid, stream, memory, calls, kafkaConnect, faults, history>>

-----------------------------------------------------------------------------
(* Connector.addBucket and removeBucket: the pipeline is not computed again while
   an update is in flight.                                                     *)

(* Faulty variant: a change during an update is not noticed when it ends. *)
ModifiedUnnoticed(k, bs, later) ==
    [k EXCEPT !.buckets = bs, !.modified = TRUE, !.pipeline = IF k.updating THEN @ ELSE bs]

Modified(k, bs, later) ==
    [k EXCEPT !.buckets = bs, !.modified = TRUE,
              !.later = @ \/ (k.updating /\ later),
              !.pipeline = IF k.updating THEN @ ELSE bs]

SetResumePoint(k, date) == [k EXCEPT !.resume = IF @ = NoDate THEN date ELSE @]

GetConnector(cs) ==
    CHOOSE c \in Connectors :
        /\ \A d \in Connectors : Cardinality(cs[c].buckets) <= Cardinality(cs[d].buckets)
        /\ \A d \in 1..(c - 1) : Cardinality(cs[c].buckets) < Cardinality(cs[d].buckets)

Assignment == [owner |-> owner, conn |-> conn]

ListenToBucket(a, b, date, later) ==
    LET c == GetConnector(a.conn)
        k == IF date = NoDate THEN a.conn[c] ELSE SetResumePoint(a.conn[c], date)
    IN IF a.owner[b] # NoConnector THEN a
       ELSE [owner |-> [a.owner EXCEPT ![b] = c],
             conn |-> [a.conn EXCEPT ![c] = Modified(k, k.buckets \cup {b}, later)]]

StopListeningToBucket(a, b, later) ==
    LET c == a.owner[b] IN
    IF c = NoConnector THEN a
    ELSE [owner |-> [a.owner EXCEPT ![b] = NoConnector],
          conn |-> [a.conn EXCEPT ![c] = Modified(@, @.buckets \ {b}, later)]]

Assign(a) == owner' = a.owner /\ conn' = a.conn

-----------------------------------------------------------------------------
(* OplogPopulator.setup                                                        *)

(* The connectors found in Kafka Connect come back with the buckets of their
   pipeline; new ones are added up to the number configured.                   *)
InitializeConnectors ==
    LET old(c) == [NewConnector EXCEPT !.buckets = kafka[c].pipeline, !.running = TRUE,
                                       !.pipeline = kafka[c].pipeline, !.resume = kafka[c].resume]
        cs == [c \in Connectors |-> IF kafka[c].exists THEN old(c) ELSE NewConnector]
        holders(b) == {c \in Connectors : b \in cs[c].buckets}
    IN /\ proc = "down"
       /\ conn' = cs
       /\ owner' = [b \in Buckets |-> IF holders(b) = {} THEN NoConnector
                                      ELSE CHOOSE c \in holders(b) : \A d \in holders(b) : d <= c]
       /\ doubled' = \E b \in Buckets : Cardinality(holders(b)) > 1
       /\ proc' = "connected"
       /\ UNCHANGED <<mongo, valid, stream, awaited, calls, kafkaConnect, faults,
                      missed, sameTime, overtaken, raced, strayed>>

GetBackbeatEnabledBuckets ==
    /\ proc = "connected"
    /\ valid' = Enabled
    /\ pos' = Len(oplog) + 1
    /\ proc' = "listed"
    /\ UNCHANGED <<mongo, token, memory, calls, kafkaConnect, faults, history>>

(* One bucket after the other is assigned, or removed.  The map is set after an
   await, as it is for events; but no bucket comes twice and no event comes before
   all are done, so that nobody can tell.                                      *)
ListenToBuckets(a, bs) ==
    LET done[n \in 0..Len(bs)] ==
          IF n = 0 THEN a ELSE ListenToBucket(done[n - 1], bs[n], NoDate, FALSE)
    IN done[Len(bs)]

StopListeningToBuckets(a, bs) ==
    LET done[n \in 0..Len(bs)] ==
          IF n = 0 THEN a ELSE StopListeningToBucket(done[n - 1], bs[n], FALSE)
    IN done[Len(bs)]

(* Faulty variant: the buckets that are no longer valid stay in their connectors. *)
ListenToValidBucketsOnly == ListenToBuckets(Assignment, SetToSeq(valid))

(* The valid buckets are assigned, and those of the old connectors that are not
   valid are removed.                                                          *)
ListenToValidBuckets ==
    LET invalid == {b \in Buckets \ valid : owner[b] # NoConnector}
    IN StopListeningToBuckets(ListenToBuckets(Assignment, SetToSeq(valid)), SetToSeq(invalid))

(* The change stream starts with the events after its creation: what happened since
   the listing is missed.                                                      *)
SetMetastoreChangeStream ==
    /\ proc = "listed"
    /\ Assign(ListenToValidBuckets)
    /\ missed' = (pos <= Len(oplog))
    /\ pos' = Len(oplog) + 1
    /\ proc' = "up" /\ valid' = {}
    /\ UNCHANGED <<mongo, token, awaited, calls, kafkaConnect, faults,
                   sameTime, doubled, overtaken, raced, strayed>>

-----------------------------------------------------------------------------
(* The change stream                                                           *)

(* The document of an update is looked up when the event is delivered: it is that
   of any later change.  Other events have their own.                          *)
Documents(i) ==
    LET e == oplog[i] IN
    IF e.op = "update" THEN {oplog[j].to : j \in {j \in i..Len(oplog) : oplog[j].bucket = e.bucket}}
    ELSE {e.to}

(* Faulty variant: a bucket that changed is taken for an enabled one. *)
HandleEventUnchecked(b, document, date, later) ==
    IF document = "none" THEN StopListeningToBucket(Assignment, b, later)
    ELSE ListenToBucket(Assignment, b, date, later)

HandleEvent(b, document, date, later) ==
    IF document = "on" THEN ListenToBucket(Assignment, b, date, later)
    ELSE StopListeningToBucket(Assignment, b, later)

(* The handler looks the bucket up in the map and changes a connector at once; the
   map, after an await.                                                        *)
HandleChangeStreamChangeEvent ==
    /\ proc = "up" /\ pos <= Len(oplog)
    /\ LET b == oplog[pos].bucket IN
       /\ \E later \in BOOLEAN, document \in Documents(pos) :
            LET a == HandleEvent(b, document, pos, later) IN
            /\ conn' = a.conn
            /\ awaited' = IF a.owner[b] = owner[b] THEN awaited
                          ELSE [awaited EXCEPT ![b] = Append(@, a.owner[b])]
            /\ later \/ \E c \in Connectors : conn[c].updating /\ ~conn[c].later /\ a.conn[c] # conn[c]
            /\ sameTime' = (sameTime \/ ~later)
       /\ raced' = (raced \/ awaited[b] # <<>>)
    /\ token' = pos /\ pos' = pos + 1
    /\ UNCHANGED <<mongo, proc, valid, owner, calls, kafkaConnect, faults,
                   missed, doubled, overtaken, strayed>>

(* A handler goes on after its await, in the order of the events. *)
SetBucketsToConnectors(b) ==
    /\ awaited[b] # <<>>
    /\ owner' = [owner EXCEPT ![b] = Head(awaited[b])]
    /\ awaited' = [awaited EXCEPT ![b] = Tail(@)]
    /\ UNCHANGED <<mongo, proc, valid, stream, conn, calls, kafkaConnect, faults, history>>

(* Handlers have gone on before a timer, an answer or an error is looked at. *)
HandlersDone == \A b \in Buckets : awaited[b] = <<>>

(* The stream starts again after the last event received, or from now on when
   there was none.                                                             *)
HandleChangeStreamErrorEvent ==
    /\ proc = "up" /\ HandlersDone /\ Fault
    /\ pos' = IF token = 0 THEN Len(oplog) + 1 ELSE token + 1
    /\ missed' = (missed \/ pos' > pos)
    /\ UNCHANGED <<mongo, proc, valid, token, memory, calls, kafkaConnect,
                   sameTime, doubled, overtaken, raced, strayed>>

-----------------------------------------------------------------------------
(* ConnectorsManager: the cron job, for one connector.  It does not wait for the
   calls of its previous runs.                                                 *)

Call(c, kind) == [conn |-> c, kind |-> kind, pipeline |-> conn[c].pipeline, resume |-> conn[c].resume]

DestroyConnector(c) ==
    /\ conn[c].running /\ conn[c].buckets = {}
    /\ calls' = calls \cup {Call(c, "delete")}
    /\ UNCHANGED conn

SpawnConnector(c) ==
    /\ ~conn[c].running /\ conn[c].buckets # {}
    /\ calls' = calls \cup {Call(c, "create")}
    /\ UNCHANGED conn

(* The configuration is sent by reference: it is read when the PUT is. *)
UpdatePipeline(c) ==
    /\ conn[c].running /\ conn[c].buckets # {}
    /\ conn[c].modified /\ ~conn[c].updating
    /\ conn' = [conn EXCEPT ![c].pipeline = conn[c].buckets, ![c].updating = TRUE, ![c].later = FALSE]
    /\ calls' = calls \cup {[conn |-> c, kind |-> "check", pipeline |-> {}, resume |-> NoDate]}

UpdateConnector(c) ==
    /\ proc = "up" /\ HandlersDone
    /\ DestroyConnector(c) \/ SpawnConnector(c) \/ UpdatePipeline(c)
    /\ UNCHANGED <<mongo, proc, valid, stream, owner, awaited, kafkaConnect, faults, history>>

-----------------------------------------------------------------------------
(* Kafka Connect answers, or never does: no request has a time-out.            *)

Absent == [exists |-> FALSE, pipeline |-> {}, resume |-> NoDate]
Answered(call) == calls' = calls \ {call}
Configured(c, pipeline, resume) ==
    kafka' = [kafka EXCEPT ![c] = [exists |-> TRUE, pipeline |-> pipeline, resume |-> resume]]

(* The call of an earlier cron run may come after an update that has cleared
   bucketsGotModified: what it creates has the buckets of that run.            *)
Created(call) ==
    LET c == call.conn IN
    /\ Configured(c, call.pipeline, call.resume)
    /\ overtaken' = (overtaken \/ (~conn[c].modified /\ call.pipeline # conn[c].pipeline))

(* A connector that exists already is a conflict. *)
CreateConnector(call) ==
    LET c == call.conn IN
    /\ call.kind = "create"
    /\ IF kafka[c].exists THEN UNCHANGED <<kafka, conn, overtaken>>
       ELSE /\ Created(call)
            /\ conn' = [conn EXCEPT ![c].running = TRUE]
    /\ Answered(call)
    /\ UNCHANGED faults

(* One that does not exist is an error.  The resume point is forgotten. *)
DeleteConnector(call) ==
    LET c == call.conn IN
    /\ call.kind = "delete"
    /\ IF ~kafka[c].exists THEN UNCHANGED <<kafka, conn>>
       ELSE /\ kafka' = [kafka EXCEPT ![c] = Absent]
            /\ conn' = [conn EXCEPT ![c].running = FALSE, ![c].resume = NoDate]
    /\ Answered(call)
    /\ UNCHANGED <<faults, overtaken>>

UpdateFailed(k) == [k EXCEPT !.updating = FALSE, !.later = FALSE, !.modified = TRUE]

(* updateConnectorConfig: the connector must exist, *)
CheckConnector(call) ==
    LET c == call.conn IN
    /\ call.kind = "check"
    /\ IF kafka[c].exists
       THEN calls' = (calls \ {call}) \cup {[call EXCEPT !.kind = "put"]} /\ UNCHANGED conn
       ELSE Answered(call) /\ conn' = [conn EXCEPT ![c] = UpdateFailed(@)]
    /\ UNCHANGED <<kafka, faults, overtaken>>

(* and its configuration is put, which creates one that is gone meanwhile. *)
PutConnectorConfig(call) ==
    LET c == call.conn IN
    /\ call.kind = "put"
    /\ Configured(c, conn[c].pipeline, conn[c].resume)
    /\ conn' = [conn EXCEPT ![c].updating = FALSE, ![c].later = FALSE,
                           ![c].modified = @ /\ conn[c].later]
    /\ Answered(call)
    /\ UNCHANGED <<faults, overtaken>>

(* A call fails, with or without an effect. *)
CallFails(call) ==
    LET c == call.conn IN
    /\ Fault /\ Answered(call)
    /\ conn' = IF call.kind \in {"check", "put"} THEN [conn EXCEPT ![c] = UpdateFailed(@)] ELSE conn
    /\ \/ call.kind = "create" /\ ~kafka[c].exists /\ Created(call)
       \/ /\ \/ UNCHANGED kafka
             \/ call.kind = "delete" /\ kafka' = [kafka EXCEPT ![c] = Absent]
             \/ call.kind = "put" /\ Configured(c, conn[c].pipeline, conn[c].resume)
          /\ UNCHANGED overtaken

Answer(call) ==
    CreateConnector(call) \/ DeleteConnector(call) \/ CheckConnector(call) \/ PutConnectorConfig(call)

AnswerArrives(call) ==
    /\ HandlersDone /\ call.conn \notin silent
    /\ UNCHANGED <<mongo, proc, valid, stream, owner, awaited, silent,
                   missed, sameTime, doubled, raced, strayed>>

KafkaConnectStep(call) == (Answer(call) \/ CallFails(call)) /\ AnswerArrives(call)

NoAnswer(c) ==
    /\ Fault
    /\ \E call \in calls : call.conn = c
    /\ silent' = silent \cup {c}
    /\ UNCHANGED <<mongo, proc, valid, stream, memory, calls, kafka, history>>

(* The process stops; setup also exits when one of its calls fails.  Its calls in
   flight have taken effect or never will, or do when the next process has listed
   the connectors: strayed, and what they do then is left out.                 *)
Restart ==
    /\ proc # "down" /\ Fault
    /\ proc' = "down" /\ valid' = {} /\ pos' = 0 /\ token' = 0
    /\ owner' = [b \in Buckets |-> NoConnector]
    /\ conn' = [c \in Connectors |-> NewConnector]
    /\ awaited' = [b \in Buckets |-> <<>>]
    /\ calls' = {} /\ silent' = {}
    /\ missed' = FALSE /\ sameTime' = FALSE /\ doubled' = FALSE /\ overtaken' = FALSE /\ raced' = FALSE
    /\ strayed' \in {strayed, strayed \/ calls # {}}
    /\ UNCHANGED <<mongo, kafka>>

Next ==
    \/ \E b \in Buckets, to \in {"none", "off", "on"} : ChangeBucket(b, to)
    \/ InitializeConnectors \/ GetBackbeatEnabledBuckets \/ SetMetastoreChangeStream
    \/ HandleChangeStreamChangeEvent \/ HandleChangeStreamErrorEvent
    \/ \E b \in Buckets : SetBucketsToConnectors(b)
    \/ \E c \in Connectors : UpdateConnector(c) \/ NoAnswer(c)
    \/ \E call \in calls : KafkaConnectStep(call)
    \/ Restart

Init ==
    /\ metastore \in [Buckets -> {"none", "on"}]
    /\ oplog = <<>>
    /\ proc = "down" /\ valid = {} /\ pos = 0 /\ token = 0
    /\ owner = [b \in Buckets |-> NoConnector]
    /\ conn = [c \in Connectors |-> NewConnector]
    /\ awaited = [b \in Buckets |-> <<>>]
    /\ calls = {}
    /\ kafka = [c \in Connectors |-> Absent]
    /\ silent = {}
    /\ faults = 0
    /\ missed = FALSE /\ sameTime = FALSE /\ doubled = FALSE /\ overtaken = FALSE
    /\ raced = FALSE /\ strayed = FALSE

(* Setup goes on, events are delivered, handlers go on, the cron job runs, calls are
   answered unless Kafka Connect is silent.                                    *)
Fairness ==
    /\ WF_vars(InitializeConnectors \/ GetBackbeatEnabledBuckets \/ SetMetastoreChangeStream)
    /\ WF_vars(HandleChangeStreamChangeEvent)
    /\ \A b \in Buckets : WF_vars(SetBucketsToConnectors(b))
    /\ \A c \in Connectors : WF_vars(UpdateConnector(c))
    /\ \A c \in Connectors, kind \in {"create", "delete", "check", "put"} :
        WF_vars(\E call \in calls : /\ call.conn = c /\ call.kind = kind
                                    /\ Answer(call) /\ AnswerArrives(call))

Spec == Init /\ [][Next]_vars /\ Fairness

-----------------------------------------------------------------------------
(* The state is well formed; in particular a bucket is owned by a connector that
   has it, unless its handler waits or two of its events raced, a connector
   without changes to send has its buckets in its pipeline, and an update is in
   flight exactly when the connector says so.                                  *)
TypeOK ==
    /\ metastore \in [Buckets -> {"none", "off", "on"}]
    /\ proc \in {"down", "connected", "listed", "up"}
    /\ pos \in 0..(MaxChanges + 1)
    /\ silent \subseteq Connectors
    /\ raced \/ \A b \in Buckets :
        owner[b] = NoConnector \/ awaited[b] # <<>> \/ b \in conn[owner[b]].buckets
    /\ \A c \in Connectors :
        /\ conn[c].buckets \subseteq Buckets
        /\ conn[c].modified \/ sameTime \/ conn[c].pipeline = conn[c].buckets
        /\ conn[c].updating <=> \E call \in calls : call.conn = c /\ call.kind \in {"check", "put"}

(* Kafka Connect and the process disagree on whether a connector exists. *)
Disagree == proc = "up" /\ \E c \in Connectors : kafka[c].exists # conn[c].running

Listening == {c \in Connectors : kafka[c].exists}

(* The connectors listen to the enabled buckets, each in one connector. *)
ListensToEnabledBuckets ==
    /\ UNION {kafka[c].pipeline : c \in Listening} = Enabled
    /\ \A c, d \in Listening : c # d => kafka[c].pipeline \cap kafka[d].pipeline = {}

(* Events are handled, and connectors are as the cron job leaves them: running if
   they have buckets, with nothing to send.  Calls may be in flight.           *)
Settled ==
    /\ proc = "up" /\ pos > Len(oplog)
    /\ \A c \in Connectors : /\ conn[c].running <=> conn[c].buckets # {}
                             /\ conn[c].running => ~conn[c].modified

(* What the code does not recover from: a bucket that changed between the listing
   and the change stream, or in the millisecond an update started; one found in
   two connectors; a create call overtaken by updates, or of a process that died;
   an event of a bucket before the handler of the last was done; a disagreement
   on which connectors exist.                                                  *)
Excepted == missed \/ sameTime \/ doubled \/ overtaken \/ strayed \/ raced \/ Disagree

(* When there is nothing left to do for the populator, the oplog of every enabled
   bucket, and of no other, is published by one connector, whatever was the order
   of cron runs, answers, errors and restarts and of events of different buckets;
   but for what the code does not recover from (Excepted).                     *)
ListensWhenSettled == Settled => ListensToEnabledBuckets \/ Excepted

(* Once buckets no longer change and calls no longer fail, that is how it ends up;
   but for the same cases, and where Kafka Connect never answers a call.       *)
EventuallyListens == <>[](ListensToEnabledBuckets \/ Excepted \/ silent # {})
=============================================================================
