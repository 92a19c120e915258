------------------------ MODULE OplogPopulatorProofs ------------------------
(* For any buckets, connectors, changes and faults.                           *)
EXTENDS OplogPopulator, ProofLemmas

-----------------------------------------------------------------------------
(* Types *)

ConnectorStates ==
    [buckets : SUBSET Buckets, running : BOOLEAN, modified : BOOLEAN, updating : BOOLEAN,
     later : BOOLEAN, pipeline : SUBSET Buckets, resume : Nat]

Assignments == [owner : [Buckets -> 0..NbConnectors], conn : [Connectors -> ConnectorStates]]

Events == [bucket : Buckets, to : {"none", "off", "on"}, op : {"insert", "delete", "update"}]

Calls ==
    [conn : Connectors, kind : {"create", "delete", "check", "put"}, pipeline : SUBSET Buckets,
     resume : Nat]

Configurations == [exists : BOOLEAN, pipeline : SUBSET Buckets, resume : Nat]

Types ==
    /\ metastore \in [Buckets -> {"none", "off", "on"}]
    /\ oplog \in Seq(Events) /\ Len(oplog) <= MaxChanges
    /\ proc \in {"down", "connected", "listed", "up"}
    /\ valid \subseteq Buckets
    /\ token \in 0..Len(oplog) /\ pos \in 0..(Len(oplog) + 1) /\ (proc = "up" => pos # 0)
    /\ owner \in [Buckets -> 0..NbConnectors]
    /\ conn \in [Connectors -> ConnectorStates]
    /\ awaited \in [Buckets -> Seq(0..NbConnectors)]
    /\ proc # "up" => ~raced /\ \A b \in Buckets : awaited[b] = <<>>
    /\ calls \subseteq Calls
    /\ kafka \in [Connectors -> Configurations] /\ silent \subseteq Connectors
    /\ sameTime \in BOOLEAN /\ raced \in BOOLEAN

-----------------------------------------------------------------------------
(* The inductive invariant *)

(* What a connector knows of its buckets: when nothing has changed since they were
   sent they are in the pipeline, and so they are when nothing has changed since
   the update in flight began.  st: a bucket changed in the millisecond it began. *)
Tracked(k, st) ==
    /\ k.modified \/ st \/ k.pipeline = k.buckets
    /\ k.updating => k.later \/ st \/ k.pipeline = k.buckets

(* A bucket is owned by a connector that has it *)
Owned(a) == \A b \in Buckets : a.owner[b] # NoConnector => b \in a.conn[a.owner[b]].buckets

(* rc: two events of a bucket raced *)
AssignmentOK(a, st, rc) == (rc \/ Owned(a)) /\ \A c \in Connectors : Tracked(a.conn[c], st)

(* The assignment as it is once the handlers that wait have gone on *)
Settling(o, w, k) ==
    [owner |-> [b \in Buckets |-> IF w[b] = <<>> THEN o[b] ELSE w[b][Len(w[b])]], conn |-> k]

Effective == Settling(owner, awaited, conn)

Updates == {call \in calls : call.kind \in {"check", "put"}}

(* Only a process that is up has calls in flight, one update per connector at most,
   and the connector knows of it.                                              *)
CallsOK ==
    /\ proc # "up" => calls = {}
    /\ \A c \in Connectors : conn[c].updating <=> \E call \in Updates : call.conn = c
    /\ \A x, y \in Updates : x.conn = y.conn => x = y

(* TypeOK alone is not inductive: an answer clears the mark of the changes that it
   has sent, which needs to be told from those made while it was in flight, and
   another update of the connector in flight; and the map is late.             *)
Inv == Types /\ AssignmentOK(Effective, sameTime, raced) /\ CallsOK

LEMMA InvImpliesTypeOK ==
    ASSUME Inv PROVE TypeOK
<1>1. pos \in 0..(MaxChanges + 1)
  BY OplogAssumption DEF Inv, Types
<1>2. \A c \in Connectors :
        /\ conn[c].buckets \subseteq Buckets
        /\ conn[c].modified \/ sameTime \/ conn[c].pipeline = conn[c].buckets
  BY DEF Inv, Types, AssignmentOK, Effective, Settling, Tracked, ConnectorStates
<1>3. raced \/ \A b \in Buckets :
        owner[b] = NoConnector \/ awaited[b] # <<>> \/ b \in conn[owner[b]].buckets
  BY DEF Inv, AssignmentOK, Effective, Settling, Owned
<1>4. \A c \in Connectors :
        conn[c].updating <=> \E call \in calls : call.conn = c /\ call.kind \in {"check", "put"}
  BY DEF Inv, CallsOK, Updates
<1> QED BY <1>1, <1>2, <1>3, <1>4 DEF Inv, Types, TypeOK

-----------------------------------------------------------------------------
(* Allocation *)

(* The least full connector is one of the connectors *)
LEMMA GetConnectorType ==
    ASSUME NEW cs \in [Connectors -> ConnectorStates] PROVE GetConnector(cs) \in Connectors
<1> DEFINE size(c) == Cardinality(cs[c].buckets)
           T == {size(c) : c \in Connectors}
<1>0. Connectors \subseteq Nat /\ 1 \in Connectors
  BY OplogAssumption DEF Connectors
<1>1. \A c \in Connectors : size(c) \in Nat
  <2> TAKE c \in Connectors
  <2>1. cs[c].buckets \in SUBSET Buckets
    BY DEF ConnectorStates
  <2> QED BY <2>1, OplogAssumption, FS_Subset, FS_CardinalityType
<1> HIDE DEF size
<1>2. PICK m \in T : \A y \in T : m <= y
  <2>1. T \subseteq Nat /\ T # {}
    BY <1>0, <1>1
  <2> HIDE DEF T
  <2> QED BY <2>1, LeastNatural
<1> DEFINE L == {c \in Connectors : size(c) = m}
<1>3. PICK c \in L : \A d \in L : c <= d
  <2>1. L \subseteq Nat /\ L # {}
    BY <1>0, <1>2
  <2> HIDE DEF L
  <2> QED BY <2>1, LeastNatural
<1>4. \A d \in Connectors : size(c) <= size(d)
  BY <1>2, <1>3
<1>5. ASSUME NEW d \in 1..(c - 1) PROVE size(c) < size(d)
  <2>1. d \in Connectors /\ d \notin L
    BY <1>0, <1>3, <1>5, OplogAssumption DEF Connectors
  <2>2. size(d) # m /\ m <= size(d) /\ m \in Nat /\ size(d) \in Nat /\ size(c) = m
    BY <1>1, <1>2, <1>3, <2>1
  <2> QED BY <2>2
<1> QED BY <1>3, <1>4, <1>5 DEF GetConnector, size

(* A change of a connector's buckets that no update in flight can miss *)
LEMMA ModifiedOK ==
    ASSUME NEW k \in ConnectorStates, NEW bs \in SUBSET Buckets, NEW later \in BOOLEAN,
           NEW st \in BOOLEAN, Tracked(k, st), later \/ st \/ ~k.updating
    PROVE  /\ Modified(k, bs, later) \in ConnectorStates
           /\ Modified(k, bs, later).buckets = bs
           /\ Modified(k, bs, later).updating = k.updating
           /\ Tracked(Modified(k, bs, later), st)
<1> DEFINE n == Modified(k, bs, later)
<1>1. /\ n \in ConnectorStates
      /\ n.buckets = bs /\ n.modified = TRUE /\ n.updating = k.updating
      /\ n.later = (k.later \/ (k.updating /\ later))
      /\ n.pipeline = IF k.updating THEN k.pipeline ELSE bs
  BY DEF Modified, ConnectorStates
<1> HIDE DEF n
<1>2. Tracked(n, st)
  BY <1>1 DEF Tracked, ConnectorStates
<1> QED BY <1>1, <1>2 DEF n

LEMMA SetResumePointOK ==
    ASSUME NEW k \in ConnectorStates, NEW date \in Nat, NEW st \in BOOLEAN, Tracked(k, st)
    PROVE  /\ SetResumePoint(k, date) \in ConnectorStates
           /\ SetResumePoint(k, date).buckets = k.buckets
           /\ SetResumePoint(k, date).updating = k.updating
           /\ Tracked(SetResumePoint(k, date), st)
<1> DEFINE n == SetResumePoint(k, date)
<1>1. /\ n \in ConnectorStates
      /\ n.buckets = k.buckets /\ n.modified = k.modified /\ n.updating = k.updating
      /\ n.later = k.later /\ n.pipeline = k.pipeline
  BY DEF SetResumePoint, ConnectorStates
<1> HIDE DEF n
<1>2. Tracked(n, st)
  BY <1>1 DEF Tracked
<1> QED BY <1>1, <1>2 DEF n

(* Nothing is in flight that could miss a change, in a good assignment *)
Heard(a, later, st) == later \/ st \/ \A c \in Connectors : ~a.conn[c].updating

SameUpdates(a, b) == \A c \in Connectors : b.conn[c].updating = a.conn[c].updating

LEMMA ListenToBucketOK ==
    ASSUME NEW a \in Assignments, NEW b \in Buckets, NEW date \in Nat, NEW later \in BOOLEAN,
           NEW st \in BOOLEAN, NEW rc \in BOOLEAN, AssignmentOK(a, st, rc), Heard(a, later, st)
    PROVE  /\ ListenToBucket(a, b, date, later) \in Assignments
           /\ AssignmentOK(ListenToBucket(a, b, date, later), st, rc)
           /\ SameUpdates(a, ListenToBucket(a, b, date, later))
<1>1. CASE a.owner[b] # NoConnector
  <2>1. ListenToBucket(a, b, date, later) = a
    BY <1>1 DEF ListenToBucket
  <2> QED BY <2>1 DEF SameUpdates
<1>2. CASE a.owner[b] = NoConnector
  <2>0. /\ a.conn \in [Connectors -> ConnectorStates] /\ a.owner \in [Buckets -> 0..NbConnectors]
        /\ \A c \in Connectors : a.conn[c] \in ConnectorStates /\ Tracked(a.conn[c], st)
    BY DEF Assignments, AssignmentOK
  <2>1. PICK c \in Connectors : c = GetConnector(a.conn)
    BY <2>0, GetConnectorType
  <2>2. PICK k : k = IF date = NoDate THEN a.conn[c] ELSE SetResumePoint(a.conn[c], date)
    OBVIOUS
  <2>3. /\ k \in ConnectorStates /\ k.buckets = a.conn[c].buckets
        /\ k.updating = a.conn[c].updating /\ Tracked(k, st)
    BY <2>0, <2>2, SetResumePointOK
  <2>4. PICK bs : bs = k.buckets \cup {b}
    OBVIOUS
  <2>5. bs \in SUBSET Buckets /\ (later \/ st \/ ~k.updating)
    BY <2>3, <2>4 DEF ConnectorStates, Heard
  <2>6. PICK n : n = Modified(k, bs, later)
    OBVIOUS
  <2>7. /\ n \in ConnectorStates /\ n.buckets = bs /\ n.updating = k.updating /\ Tracked(n, st)
    <3>1. PICK x \in ConnectorStates : x = k
      BY <2>3
    <3> QED BY <2>3, <2>5, <2>6, <3>1, ModifiedOK
  <2>8. PICK r : r = ListenToBucket(a, b, date, later)
    OBVIOUS
  <2>9. r = [owner |-> [a.owner EXCEPT ![b] = c], conn |-> [a.conn EXCEPT ![c] = n]]
    BY <1>2, <2>1, <2>2, <2>4, <2>6, <2>8 DEF ListenToBucket
  <2>10. /\ r.owner = [a.owner EXCEPT ![b] = c] /\ r.conn = [a.conn EXCEPT ![c] = n]
    BY <2>9
  <2>11. c \in 0..NbConnectors
    BY OplogAssumption DEF Connectors
  <2>12. r \in Assignments
    <3>1. /\ [a.owner EXCEPT ![b] = c] \in [Buckets -> 0..NbConnectors]
          /\ [a.conn EXCEPT ![c] = n] \in [Connectors -> ConnectorStates]
      BY <2>0, <2>7, <2>11
    <3> QED BY <2>9, <3>1 DEF Assignments
  <2>13. /\ \A d \in Connectors : r.conn[d] = IF d = c THEN n ELSE a.conn[d]
         /\ \A e \in Buckets : r.owner[e] = IF e = b THEN c ELSE a.owner[e]
    BY <2>0, <2>10
  <2>14. ASSUME ~rc PROVE Owned(r)
    <3> SUFFICES ASSUME NEW e \in Buckets, r.owner[e] # NoConnector
                 PROVE  e \in r.conn[r.owner[e]].buckets
      BY DEF Owned
    <3>1. CASE e = b
      BY <2>4, <2>7, <2>13, <3>1
    <3>2. CASE e # b
      <4>1. PICK d \in Connectors : d = a.owner[e] /\ r.owner[e] = d /\ e \in a.conn[d].buckets
        BY <2>0, <2>13, <2>14, <3>2, OplogAssumption DEF AssignmentOK, Owned, Connectors, NoConnector
      <4> QED BY <2>3, <2>4, <2>7, <2>13, <4>1
    <3> QED BY <3>1, <3>2
  <2>15. AssignmentOK(r, st, rc)
    BY <2>0, <2>7, <2>13, <2>14 DEF AssignmentOK
  <2>16. SameUpdates(a, r)
    BY <2>3, <2>7, <2>13 DEF SameUpdates
  <2> QED BY <2>8, <2>12, <2>15, <2>16
<1> QED BY <1>1, <1>2

LEMMA StopListeningToBucketOK ==
    ASSUME NEW a \in Assignments, NEW b \in Buckets, NEW later \in BOOLEAN,
           NEW st \in BOOLEAN, NEW rc \in BOOLEAN, AssignmentOK(a, st, rc), Heard(a, later, st)
    PROVE  /\ StopListeningToBucket(a, b, later) \in Assignments
           /\ AssignmentOK(StopListeningToBucket(a, b, later), st, rc)
           /\ SameUpdates(a, StopListeningToBucket(a, b, later))
<1>1. CASE a.owner[b] = NoConnector
  <2>1. StopListeningToBucket(a, b, later) = a
    BY <1>1 DEF StopListeningToBucket
  <2> QED BY <2>1 DEF SameUpdates
<1>2. CASE a.owner[b] # NoConnector
  <2>0. /\ a.conn \in [Connectors -> ConnectorStates] /\ a.owner \in [Buckets -> 0..NbConnectors]
        /\ \A c \in Connectors : a.conn[c] \in ConnectorStates /\ Tracked(a.conn[c], st)
    BY DEF Assignments, AssignmentOK
  <2>1. PICK c \in Connectors : c = a.owner[b]
    BY <1>2, <2>0, OplogAssumption DEF Connectors, NoConnector
  <2>2. PICK k \in ConnectorStates : k = a.conn[c] /\ Tracked(k, st)
    BY <2>0
  <2>4. PICK bs : bs = k.buckets \ {b}
    OBVIOUS
  <2>5. bs \in SUBSET Buckets /\ (later \/ st \/ ~k.updating)
    BY <2>2, <2>4 DEF ConnectorStates, Heard
  <2>6. PICK n : n = Modified(k, bs, later)
    OBVIOUS
  <2>7. /\ n \in ConnectorStates /\ n.buckets = bs /\ n.updating = k.updating /\ Tracked(n, st)
    BY <2>2, <2>5, <2>6, ModifiedOK
  <2>8. PICK r : r = StopListeningToBucket(a, b, later)
    OBVIOUS
  <2>9. r = [owner |-> [a.owner EXCEPT ![b] = NoConnector], conn |-> [a.conn EXCEPT ![c] = n]]
    BY <1>2, <2>0, <2>1, <2>2, <2>4, <2>6, <2>8 DEF StopListeningToBucket
  <2>10. /\ r.owner = [a.owner EXCEPT ![b] = NoConnector] /\ r.conn = [a.conn EXCEPT ![c] = n]
    BY <2>9
  <2>11. NoConnector \in 0..NbConnectors
    BY OplogAssumption DEF NoConnector
  <2>12. r \in Assignments
    <3>1. /\ [a.owner EXCEPT ![b] = NoConnector] \in [Buckets -> 0..NbConnectors]
          /\ [a.conn EXCEPT ![c] = n] \in [Connectors -> ConnectorStates]
      BY <2>0, <2>7, <2>11
    <3> QED BY <2>9, <3>1 DEF Assignments
  <2>13. /\ \A d \in Connectors : r.conn[d] = IF d = c THEN n ELSE a.conn[d]
         /\ \A e \in Buckets : r.owner[e] = IF e = b THEN NoConnector ELSE a.owner[e]
    BY <2>0, <2>10
  <2>14. ASSUME ~rc PROVE Owned(r)
    <3> SUFFICES ASSUME NEW e \in Buckets, r.owner[e] # NoConnector
                 PROVE  e \in r.conn[r.owner[e]].buckets
      BY DEF Owned
    <3>1. e # b
      BY <2>13
    <3>2. PICK d \in Connectors : d = a.owner[e] /\ r.owner[e] = d /\ e \in a.conn[d].buckets
      BY <2>0, <2>13, <2>14, <3>1, OplogAssumption DEF AssignmentOK, Owned, Connectors, NoConnector
    <3> QED BY <2>2, <2>4, <2>7, <2>13, <3>1, <3>2
  <2>15. AssignmentOK(r, st, rc)
    BY <2>0, <2>7, <2>13, <2>14 DEF AssignmentOK
  <2>16. SameUpdates(a, r)
    BY <2>2, <2>7, <2>13 DEF SameUpdates
  <2> QED BY <2>8, <2>12, <2>15, <2>16
<1> QED BY <1>1, <1>2

-----------------------------------------------------------------------------
(* Loops over the buckets *)

(* A loop that takes one of A to one of A at each of its n steps, from a *)
StaysIn(A, n, step) == \A i \in 1..n, x \in A : step[i][x] \in A

IsLoop(f, A, n, a, step) ==
    f \in [0..n -> A] /\ f[0] = a /\ \A i \in 1..n : f[i] = step[i][f[i - 1]]

LEMMA LoopExists ==
    ASSUME NEW A, NEW n \in Nat, NEW a \in A, NEW step, StaysIn(A, n, step)
    PROVE  \E f : IsLoop(f, A, n, a, step)
<1> USE DEF StaysIn
<1> DEFINE Rec(f, m) == /\ f \in [0..m -> A]
                        /\ f[0] = a /\ \A i \in 1..m : f[i] = step[i][f[i - 1]]
           Good == {m \in Nat : m <= n => \E f : Rec(f, m)}
<1>1. 0 \in Good
  <2>1. Rec([i \in 0..0 |-> a], 0)
    OBVIOUS
  <2> QED BY <2>1
<1>2. ASSUME NEW m \in Nat, m \in Good PROVE m + 1 \in Good
  <2> HIDE DEF Rec
  <2>1. SUFFICES ASSUME m + 1 <= n PROVE \E f : Rec(f, m + 1)
    OBVIOUS
  <2>2. PICK f : Rec(f, m)
    BY <1>2, <2>1
  <2> USE DEF Rec
  <2> DEFINE e == step[m + 1][f[m]]
             g == [i \in 0..m + 1 |-> IF i = m + 1 THEN e ELSE f[i]]
  <2>3. e \in A
    BY <2>1, <2>2
  <2> HIDE DEF e
  <2>4. g \in [0..m + 1 -> A] /\ g[0] = a
    BY <2>2, <2>3
  <2>5. ASSUME NEW i \in 1..m + 1 PROVE g[i] = step[i][g[i - 1]]
    <3>1. CASE i = m + 1
      BY <3>1 DEF e
    <3>2. CASE i # m + 1
      <4>1. i \in 1..m /\ i - 1 \in 0..m
        BY <3>2
      <4>2. g[i] = f[i] /\ g[i - 1] = f[i - 1]
        BY <4>1
      <4> QED BY <2>2, <4>1, <4>2
    <3> QED BY <3>1, <3>2
  <2>6. Rec(g, m + 1)
    BY <2>4, <2>5
  <2> QED BY <2>6
<1>3. n \in Good
  <2> HIDE DEF Good
  <2> QED BY <1>1, <1>2, NatSetInduction
<1>4. PICK f : Rec(f, n)
  BY <1>3
<1> QED BY <1>4 DEF IsLoop

(* The assignments of a set-up: no update is in flight *)
Quiet(a) == \A c \in Connectors : ~a.conn[c].updating

SetUps(st) == {a \in Assignments : AssignmentOK(a, st, FALSE) /\ Quiet(a)}

LEMMA ListenToBucketsSteps ==
    ASSUME NEW st \in BOOLEAN, NEW a \in SetUps(st), NEW bs \in Seq(Buckets)
    PROVE  \E g \in [0..Len(bs) -> SetUps(st)] :
             /\ g[0] = a /\ ListenToBuckets(a, bs) = g[Len(bs)]
             /\ \A i \in 1..Len(bs) : g[i] = ListenToBucket(g[i - 1], bs[i], NoDate, FALSE)
<1> DEFINE A == SetUps(st)
           n == Len(bs)
           step == [i \in 1..n |-> [x \in A |-> ListenToBucket(x, bs[i], NoDate, FALSE)]]
<1>1. n \in Nat /\ \A i \in 1..n : bs[i] \in Buckets
  OBVIOUS
<1>2. ASSUME NEW x \in A, NEW b \in Buckets PROVE ListenToBucket(x, b, NoDate, FALSE) \in A
  <2>1. x \in Assignments /\ AssignmentOK(x, st, FALSE) /\ Heard(x, FALSE, st) /\ Quiet(x)
    BY DEF SetUps, Heard, Quiet
  <2>2. PICK y : y = ListenToBucket(x, b, NoDate, FALSE)
    OBVIOUS
  <2>3. NoDate \in Nat
    BY DEF NoDate
  <2>4. y \in Assignments /\ AssignmentOK(y, st, FALSE) /\ SameUpdates(x, y)
    BY <2>1, <2>2, <2>3, ListenToBucketOK
  <2> QED BY <2>1, <2>2, <2>4 DEF SetUps, Quiet, SameUpdates
<1> HIDE DEF A, n
<1>3. step \in [1..n -> [A -> A]]
  BY <1>1, <1>2
<1>4. a \in A
  BY DEF A
<1>5. PICK loop : loop = step
  OBVIOUS
<1> HIDE DEF step
<1>6. PICK f \in [0..n -> A] : f[0] = a /\ \A i \in 1..n : f[i] = loop[i][f[i - 1]]
  <2>1. StaysIn(A, n, loop)
    BY <1>3, <1>5 DEF StaysIn
  <2>2. \E f : IsLoop(f, A, n, a, loop)
    BY <1>1, <1>4, <2>1, LoopExists
  <2> QED BY <2>2 DEF IsLoop
<1> DEFINE Rec(g) == g = [i \in 0..n |-> IF i = 0 THEN a
                                         ELSE ListenToBucket(g[i - 1], bs[i], NoDate, FALSE)]
<1>7. Rec(f)
  <2>1. ASSUME NEW i \in 1..n PROVE f[i] = ListenToBucket(f[i - 1], bs[i], NoDate, FALSE)
    <3>1. PICK x \in A : x = f[i - 1]
      BY <1>1
    <3>2. f[i] = step[i][x]
      BY <1>5, <1>6, <3>1
    <3>3. step[i][x] = ListenToBucket(x, bs[i], NoDate, FALSE)
      BY DEF step
    <3> QED BY <3>1, <3>2, <3>3
  <2>2. ASSUME NEW i \in 0..n PROVE f[i] = IF i = 0 THEN a ELSE ListenToBucket(f[i - 1], bs[i], NoDate, FALSE)
    <3>1. CASE i = 0
      BY <1>6, <3>1
    <3>2. CASE i # 0
      <4>1. i \in 1..n
        BY <1>1, <3>2
      <4> QED BY <2>1, <3>2, <4>1, Zenon
    <3> QED BY <3>1, <3>2
  <2> QED BY <2>2, Zenon
<1>8. PICK g : g = CHOOSE h : Rec(h)
  OBVIOUS
<1>9. Rec(g)
  <2> HIDE DEF Rec
  <2> QED BY <1>7, <1>8
<1>10. ASSUME NEW i \in 1..n PROVE g[i] = ListenToBucket(g[i - 1], bs[i], NoDate, FALSE)
  <2>1. i \in 0..n /\ i # 0
    BY <1>1
  <2>2. g[i] = IF i = 0 THEN a ELSE ListenToBucket(g[i - 1], bs[i], NoDate, FALSE)
    BY <1>9, <2>1
  <2> QED BY <2>1, <2>2
<1>11. g[0] = a
  BY <1>1, <1>9
<1> DEFINE Good == {i \in Nat : i <= n => g[i] \in A}
<1>12. ASSUME NEW i \in Nat, i \in Good PROVE i + 1 \in Good
  <2>1. SUFFICES ASSUME i + 1 <= n PROVE g[i + 1] \in A
    OBVIOUS
  <2>2. PICK j \in 1..n : j = i + 1 /\ j - 1 = i
    BY <1>1, <2>1
  <2>3. g[j - 1] \in A /\ bs[j] \in Buckets
    BY <1>1, <1>12, <2>1, <2>2
  <2> QED BY <1>2, <1>10, <2>2, <2>3
<1>13. \A m \in Nat : m \in Good
  <2>1. 0 \in Good
    BY <1>4, <1>11
  <2> HIDE DEF Good
  <2> QED BY <1>12, <2>1, NatSetInduction
<1>14. g \in [0..n -> A]
  <2>1. g = [i \in 0..n |-> g[i]]
    BY <1>9
  <2>2. \A i \in 0..n : g[i] \in A
    BY <1>1, <1>13
  <2> QED BY <2>1, <2>2
<1>15. ListenToBuckets(a, bs) = g[n]
  BY <1>8, Zenon DEF ListenToBuckets, n
<1> QED BY <1>10, <1>11, <1>14, <1>15 DEF A, n

LEMMA StopListeningToBucketsSteps ==
    ASSUME NEW st \in BOOLEAN, NEW a \in SetUps(st), NEW bs \in Seq(Buckets)
    PROVE  \E g \in [0..Len(bs) -> SetUps(st)] :
             /\ g[0] = a /\ StopListeningToBuckets(a, bs) = g[Len(bs)]
             /\ \A i \in 1..Len(bs) : g[i] = StopListeningToBucket(g[i - 1], bs[i], FALSE)
<1> DEFINE A == SetUps(st)
           n == Len(bs)
           step == [i \in 1..n |-> [x \in A |-> StopListeningToBucket(x, bs[i], FALSE)]]
<1>1. n \in Nat /\ \A i \in 1..n : bs[i] \in Buckets
  OBVIOUS
<1>2. ASSUME NEW x \in A, NEW b \in Buckets PROVE StopListeningToBucket(x, b, FALSE) \in A
  <2>1. x \in Assignments /\ AssignmentOK(x, st, FALSE) /\ Heard(x, FALSE, st) /\ Quiet(x)
    BY DEF SetUps, Heard, Quiet
  <2>2. PICK y : y = StopListeningToBucket(x, b, FALSE)
    OBVIOUS
  <2>3. y \in Assignments /\ AssignmentOK(y, st, FALSE) /\ SameUpdates(x, y)
    BY <2>1, <2>2, StopListeningToBucketOK
  <2> QED BY <2>1, <2>2, <2>3 DEF SetUps, Quiet, SameUpdates
<1> HIDE DEF A, n
<1>3. step \in [1..n -> [A -> A]]
  BY <1>1, <1>2
<1>4. a \in A
  BY DEF A
<1>5. PICK loop : loop = step
  OBVIOUS
<1> HIDE DEF step
<1>6. PICK f \in [0..n -> A] : f[0] = a /\ \A i \in 1..n : f[i] = loop[i][f[i - 1]]
  <2>1. StaysIn(A, n, loop)
    BY <1>3, <1>5 DEF StaysIn
  <2>2. \E f : IsLoop(f, A, n, a, loop)
    BY <1>1, <1>4, <2>1, LoopExists
  <2> QED BY <2>2 DEF IsLoop
<1> DEFINE Rec(g) == g = [i \in 0..n |-> IF i = 0 THEN a
                                         ELSE StopListeningToBucket(g[i - 1], bs[i], FALSE)]
<1>7. Rec(f)
  <2>1. ASSUME NEW i \in 1..n PROVE f[i] = StopListeningToBucket(f[i - 1], bs[i], FALSE)
    <3>1. PICK x \in A : x = f[i - 1]
      BY <1>1
    <3>2. f[i] = step[i][x]
      BY <1>5, <1>6, <3>1
    <3>3. step[i][x] = StopListeningToBucket(x, bs[i], FALSE)
      BY DEF step
    <3> QED BY <3>1, <3>2, <3>3
  <2>2. ASSUME NEW i \in 0..n PROVE f[i] = IF i = 0 THEN a ELSE StopListeningToBucket(f[i - 1], bs[i], FALSE)
    <3>1. CASE i = 0
      BY <1>6, <3>1
    <3>2. CASE i # 0
      <4>1. i \in 1..n
        BY <1>1, <3>2
      <4> QED BY <2>1, <3>2, <4>1, Zenon
    <3> QED BY <3>1, <3>2
  <2> QED BY <2>2, Zenon
<1>8. PICK g : g = CHOOSE h : Rec(h)
  OBVIOUS
<1>9. Rec(g)
  <2> HIDE DEF Rec
  <2> QED BY <1>7, <1>8
<1>10. ASSUME NEW i \in 1..n PROVE g[i] = StopListeningToBucket(g[i - 1], bs[i], FALSE)
  <2>1. i \in 0..n /\ i # 0
    BY <1>1
  <2>2. g[i] = IF i = 0 THEN a ELSE StopListeningToBucket(g[i - 1], bs[i], FALSE)
    BY <1>9, <2>1
  <2> QED BY <2>1, <2>2
<1>11. g[0] = a
  BY <1>1, <1>9
<1> DEFINE Good == {i \in Nat : i <= n => g[i] \in A}
<1>12. ASSUME NEW i \in Nat, i \in Good PROVE i + 1 \in Good
  <2>1. SUFFICES ASSUME i + 1 <= n PROVE g[i + 1] \in A
    OBVIOUS
  <2>2. PICK j \in 1..n : j = i + 1 /\ j - 1 = i
    BY <1>1, <2>1
  <2>3. g[j - 1] \in A /\ bs[j] \in Buckets
    BY <1>1, <1>12, <2>1, <2>2
  <2> QED BY <1>2, <1>10, <2>2, <2>3
<1>13. \A m \in Nat : m \in Good
  <2>1. 0 \in Good
    BY <1>4, <1>11
  <2> HIDE DEF Good
  <2> QED BY <1>12, <2>1, NatSetInduction
<1>14. g \in [0..n -> A]
  <2>1. g = [i \in 0..n |-> g[i]]
    BY <1>9
  <2>2. \A i \in 0..n : g[i] \in A
    BY <1>1, <1>13
  <2> QED BY <2>1, <2>2
<1>15. StopListeningToBuckets(a, bs) = g[n]
  BY <1>8, Zenon DEF StopListeningToBuckets, n
<1> QED BY <1>10, <1>11, <1>14, <1>15 DEF A, n

(* Every bucket of a set is met once *)
LEMMA BucketSeq ==
    ASSUME NEW S \in SUBSET Buckets
    PROVE  /\ SetToSeq(S) \in Seq(Buckets)
           /\ {SetToSeq(S)[i] : i \in 1..Len(SetToSeq(S))} = S
<1>1. IsFiniteSet(S)
  BY OplogAssumption, FS_Subset
<1>2. PICK n \in Nat : n = Cardinality(S) /\ ExistsBijection(1..n, S)
  BY <1>1, FS_CardinalityType
<1>3. PICK f \in [1..n -> S] : IsInjective(f) /\ S \subseteq {f[i] : i \in 1..n}
  <2>1. PICK f : f \in Bijection(1..n, S)
    BY <1>2 DEF ExistsBijection
  <2>2. f \in [1..n -> S] /\ IsInjective(f)
    BY <2>1 DEF Bijection, Injection, IsInjective
  <2>3. S \subseteq {f[i] : i \in 1..n}
    BY <2>1 DEF Bijection, Surjection
  <2> QED BY <2>2, <2>3
<1>4. PICK s \in [1..n -> S] : s = SetToSeq(S) /\ IsInjective(s)
  BY <1>2, <1>3 DEF SetToSeq
<1>5. s \in [1..n -> Buckets] /\ s \in Seq(Buckets) /\ Len(s) = n
  BY <1>4
<1>6. {s[i] : i \in 1..n} = S
  <2>1. s \in Injection(1..n, S)
    BY <1>4 DEF Injection, IsInjective
  <2>2. IsFiniteSet(1..n) /\ Cardinality(1..n) = n
    BY FS_Interval
  <2>3. s \in Surjection(1..n, S)
    BY <1>1, <1>2, <2>1, <2>2, FS_Injection
  <2> QED BY <1>4, <2>3 DEF Surjection
<1> QED BY <1>4, <1>5, <1>6

-----------------------------------------------------------------------------
(* Who owns which buckets *)

(* A bucket is in the connector that owns it only *)
Single(a) == \A b \in Buckets, c \in Connectors : b \in a.conn[c].buckets => a.owner[b] = c

Taken(a) == {b \in Buckets : a.owner[b] # NoConnector}

(* A connector that changes is marked *)
Marked(a, r) == \A c \in Connectors : r.conn[c].modified \/ r.conn[c] = a.conn[c]

LEMMA MarkedTwice ==
    ASSUME NEW a, NEW r, NEW s, Marked(a, r), Marked(r, s) PROVE Marked(a, s)
BY DEF Marked

LEMMA ListenToBucketEffect ==
    ASSUME NEW a \in Assignments, NEW b \in Buckets, NEW date \in Nat, NEW later \in BOOLEAN,
           NEW r, r = ListenToBucket(a, b, date, later)
    PROVE  /\ Taken(r) = Taken(a) \cup {b} /\ Marked(a, r)
           /\ Single(a) => Single(r)
<1>1. CASE a.owner[b] # NoConnector
  <2>1. r = a
    BY <1>1 DEF ListenToBucket
  <2> QED BY <1>1, <2>1 DEF Taken, Marked
<1>2. CASE a.owner[b] = NoConnector
  <2>0. a.conn \in [Connectors -> ConnectorStates] /\ a.owner \in [Buckets -> 0..NbConnectors]
    BY DEF Assignments
  <2>1. PICK c \in Connectors : c = GetConnector(a.conn)
    BY <2>0, GetConnectorType
  <2>2. PICK k : k = IF date = NoDate THEN a.conn[c] ELSE SetResumePoint(a.conn[c], date)
    OBVIOUS
  <2>3. k \in ConnectorStates /\ k.buckets = a.conn[c].buckets
    BY <2>0, <2>2 DEF SetResumePoint, ConnectorStates
  <2>4. PICK n : n = Modified(k, k.buckets \cup {b}, later)
    OBVIOUS
  <2>5. n.buckets = a.conn[c].buckets \cup {b} /\ n.modified = TRUE
    BY <2>3, <2>4 DEF Modified, ConnectorStates
  <2>6. r = [owner |-> [a.owner EXCEPT ![b] = c], conn |-> [a.conn EXCEPT ![c] = n]]
    BY <1>2, <2>1, <2>2, <2>4 DEF ListenToBucket
  <2>7. /\ \A d \in Connectors : r.conn[d] = IF d = c THEN n ELSE a.conn[d]
        /\ \A e \in Buckets : r.owner[e] = IF e = b THEN c ELSE a.owner[e]
    BY <2>0, <2>6
  <2>8. c # NoConnector /\ \A d \in Connectors : d # NoConnector
    BY OplogAssumption DEF Connectors, NoConnector
  <2>9. Taken(r) = Taken(a) \cup {b}
    BY <2>7, <2>8 DEF Taken
  <2>10. Marked(a, r)
    BY <2>5, <2>7 DEF Marked
  <2>11. ASSUME Single(a) PROVE Single(r)
    <3> SUFFICES ASSUME NEW e \in Buckets, NEW d \in Connectors, e \in r.conn[d].buckets
                 PROVE  r.owner[e] = d
      BY DEF Single
    <3>1. \A f \in Connectors : b \notin a.conn[f].buckets
      BY <1>2, <2>8, <2>11 DEF Single
    <3>2. CASE e = b
      BY <2>7, <3>1, <3>2
    <3>3. CASE e # b
      <4>1. e \in a.conn[d].buckets
        BY <2>5, <2>7, <3>3
      <4> QED BY <2>7, <2>11, <3>3, <4>1 DEF Single
    <3> QED BY <3>2, <3>3
  <2> QED BY <2>9, <2>10, <2>11
<1> QED BY <1>1, <1>2

LEMMA StopListeningToBucketEffect ==
    ASSUME NEW a \in Assignments, NEW b \in Buckets, NEW later \in BOOLEAN,
           NEW r, r = StopListeningToBucket(a, b, later)
    PROVE  /\ Taken(r) = Taken(a) \ {b} /\ Marked(a, r)
           /\ Single(a) => Single(r)
<1>1. CASE a.owner[b] = NoConnector
  <2>1. r = a
    BY <1>1 DEF StopListeningToBucket
  <2> QED BY <1>1, <2>1 DEF Taken, Marked
<1>2. CASE a.owner[b] # NoConnector
  <2>0. a.conn \in [Connectors -> ConnectorStates] /\ a.owner \in [Buckets -> 0..NbConnectors]
    BY DEF Assignments
  <2>1. PICK c \in Connectors : c = a.owner[b]
    BY <1>2, <2>0, OplogAssumption DEF Connectors, NoConnector
  <2>2. PICK k \in ConnectorStates : k = a.conn[c]
    BY <2>0
  <2>4. PICK n : n = Modified(k, k.buckets \ {b}, later)
    OBVIOUS
  <2>5. n.buckets = a.conn[c].buckets \ {b} /\ n.modified = TRUE
    BY <2>2, <2>4 DEF Modified, ConnectorStates
  <2>6. r = [owner |-> [a.owner EXCEPT ![b] = NoConnector], conn |-> [a.conn EXCEPT ![c] = n]]
    BY <1>2, <2>0, <2>1, <2>2, <2>4 DEF StopListeningToBucket
  <2>7. /\ \A d \in Connectors : r.conn[d] = IF d = c THEN n ELSE a.conn[d]
        /\ \A e \in Buckets : r.owner[e] = IF e = b THEN NoConnector ELSE a.owner[e]
    BY <2>0, <2>6
  <2>9. Taken(r) = Taken(a) \ {b}
    BY <2>7 DEF Taken
  <2>10. Marked(a, r)
    BY <2>5, <2>7 DEF Marked
  <2>11. ASSUME Single(a) PROVE Single(r)
    <3> SUFFICES ASSUME NEW e \in Buckets, NEW d \in Connectors, e \in r.conn[d].buckets
                 PROVE  r.owner[e] = d
      BY DEF Single
    <3>1. e \in a.conn[d].buckets /\ (d = c => e # b)
      BY <2>5, <2>7
    <3>2. a.owner[e] = d
      BY <2>11, <3>1 DEF Single
    <3> QED BY <2>1, <2>7, <3>1, <3>2
  <2> QED BY <2>9, <2>10, <2>11
<1> QED BY <1>1, <1>2

(* What a loop over the buckets of a sequence leaves *)
LEMMA ListenToBucketsEffect ==
    ASSUME NEW st \in BOOLEAN, NEW a \in SetUps(st), NEW bs \in Seq(Buckets), NEW r,
           r = ListenToBuckets(a, bs)
    PROVE  /\ r \in SetUps(st)
           /\ Taken(r) = Taken(a) \cup {bs[i] : i \in 1..Len(bs)} /\ Marked(a, r)
           /\ Single(a) => Single(r)
<1> DEFINE n == Len(bs)
<1>1. n \in Nat /\ \A i \in 1..n : bs[i] \in Buckets
  OBVIOUS
<1>2. PICK g \in [0..n -> SetUps(st)] :
        /\ g[0] = a /\ r = g[n]
        /\ \A i \in 1..n : g[i] = ListenToBucket(g[i - 1], bs[i], NoDate, FALSE)
  <2>1. \E g \in [0..Len(bs) -> SetUps(st)] :
          /\ g[0] = a /\ ListenToBuckets(a, bs) = g[Len(bs)]
          /\ \A i \in 1..Len(bs) : g[i] = ListenToBucket(g[i - 1], bs[i], NoDate, FALSE)
    BY ListenToBucketsSteps, Zenon
  <2> QED BY <2>1, Zenon
<1> HIDE DEF n
<1> DEFINE Done(i) == /\ Taken(g[i]) = Taken(a) \cup {bs[m] : m \in 1..i} /\ Marked(a, g[i])
                      /\ Single(a) => Single(g[i])
           Good == {i \in Nat : i <= n => Done(i)}
<1>3. Done(0)
  BY <1>2 DEF Marked
<1>4. ASSUME NEW i \in Nat, i \in Good PROVE i + 1 \in Good
  <2>1. SUFFICES ASSUME i + 1 <= n PROVE Done(i + 1)
    OBVIOUS
  <2>2. PICK j \in 1..n : j = i + 1 /\ j - 1 = i
    BY <1>1, <2>1
  <2>3. Done(i) /\ i \in 0..n
    BY <1>1, <1>4, <2>1
  <2>4. PICK x \in Assignments, b \in Buckets, date \in Nat, later \in BOOLEAN :
          x = g[i] /\ b = bs[j] /\ date = NoDate /\ later = FALSE
    BY <1>1, <1>2, <2>3 DEF SetUps, NoDate
  <2>5. PICK y : y = g[j] /\ y = ListenToBucket(x, b, date, later)
    BY <1>2, <2>2, <2>4
  <2>6. Taken(y) = Taken(x) \cup {b} /\ Marked(x, y) /\ (Single(x) => Single(y))
    BY <2>5, ListenToBucketEffect
  <2>7. {bs[m] : m \in 1..j} = {bs[m] : m \in 1..i} \cup {b}
    <3>1. 1..j = (1..i) \cup {j}
      BY <2>2
    <3> QED BY <2>4, <3>1
  <2>8. Taken(y) = Taken(a) \cup {bs[m] : m \in 1..j}
    BY <2>3, <2>4, <2>6, <2>7
  <2>9. Marked(a, y)
    BY <2>3, <2>4, <2>6, MarkedTwice
  <2>10. Single(a) => Single(y)
    BY <2>3, <2>4, <2>6
  <2> QED BY <2>2, <2>5, <2>8, <2>9, <2>10
<1>5. n \in Good
  <2>1. 0 \in Good
    BY <1>3
  <2> HIDE DEF Good
  <2> QED BY <1>1, <1>4, <2>1, NatSetInduction
<1>6. Done(n)
  BY <1>1, <1>5
<1>7. r \in SetUps(st)
  BY <1>1, <1>2
<1> QED BY <1>2, <1>6, <1>7 DEF n

LEMMA StopListeningToBucketsEffect ==
    ASSUME NEW st \in BOOLEAN, NEW a \in SetUps(st), NEW bs \in Seq(Buckets), NEW r,
           r = StopListeningToBuckets(a, bs)
    PROVE  /\ r \in SetUps(st)
           /\ Taken(r) = Taken(a) \ {bs[i] : i \in 1..Len(bs)} /\ Marked(a, r)
           /\ Single(a) => Single(r)
<1> DEFINE n == Len(bs)
<1>1. n \in Nat /\ \A i \in 1..n : bs[i] \in Buckets
  OBVIOUS
<1>2. PICK g \in [0..n -> SetUps(st)] :
        /\ g[0] = a /\ r = g[n]
        /\ \A i \in 1..n : g[i] = StopListeningToBucket(g[i - 1], bs[i], FALSE)
  <2>1. \E g \in [0..Len(bs) -> SetUps(st)] :
          /\ g[0] = a /\ StopListeningToBuckets(a, bs) = g[Len(bs)]
          /\ \A i \in 1..Len(bs) : g[i] = StopListeningToBucket(g[i - 1], bs[i], FALSE)
    BY StopListeningToBucketsSteps, Zenon
  <2> QED BY <2>1, Zenon
<1> HIDE DEF n
<1> DEFINE Done(i) == /\ Taken(g[i]) = Taken(a) \ {bs[m] : m \in 1..i} /\ Marked(a, g[i])
                      /\ Single(a) => Single(g[i])
           Good == {i \in Nat : i <= n => Done(i)}
<1>3. Done(0)
  BY <1>2 DEF Marked
<1>4. ASSUME NEW i \in Nat, i \in Good PROVE i + 1 \in Good
  <2>1. SUFFICES ASSUME i + 1 <= n PROVE Done(i + 1)
    OBVIOUS
  <2>2. PICK j \in 1..n : j = i + 1 /\ j - 1 = i
    BY <1>1, <2>1
  <2>3. Done(i) /\ i \in 0..n
    BY <1>1, <1>4, <2>1
  <2>4. PICK x \in Assignments, b \in Buckets, later \in BOOLEAN :
          x = g[i] /\ b = bs[j] /\ later = FALSE
    BY <1>1, <1>2, <2>3 DEF SetUps
  <2>5. PICK y : y = g[j] /\ y = StopListeningToBucket(x, b, later)
    BY <1>2, <2>2, <2>4
  <2>6. Taken(y) = Taken(x) \ {b} /\ Marked(x, y) /\ (Single(x) => Single(y))
    BY <2>5, StopListeningToBucketEffect
  <2>7. {bs[m] : m \in 1..j} = {bs[m] : m \in 1..i} \cup {b}
    <3>1. 1..j = (1..i) \cup {j}
      BY <2>2
    <3> QED BY <2>4, <3>1
  <2>8. Taken(y) = Taken(a) \ {bs[m] : m \in 1..j}
    BY <2>3, <2>4, <2>6, <2>7
  <2>9. Marked(a, y)
    BY <2>3, <2>4, <2>6, MarkedTwice
  <2>10. Single(a) => Single(y)
    BY <2>3, <2>4, <2>6
  <2> QED BY <2>2, <2>5, <2>8, <2>9, <2>10
<1>5. n \in Good
  <2>1. 0 \in Good
    BY <1>3
  <2> HIDE DEF Good
  <2> QED BY <1>1, <1>4, <2>1, NatSetInduction
<1>6. Done(n)
  BY <1>1, <1>5
<1>7. r \in SetUps(st)
  BY <1>1, <1>2
<1> QED BY <1>2, <1>6, <1>7 DEF n

(* Set-up leaves the valid buckets with a connector, and no other *)
LEMMA ListenToValidBucketsOK ==
    ASSUME NEW st \in BOOLEAN, Assignment \in SetUps(st), valid \subseteq Buckets,
           NEW r, r = ListenToValidBuckets
    PROVE  /\ r \in SetUps(st) /\ Taken(r) = valid /\ Marked(Assignment, r)
           /\ Single(Assignment) => Single(r)
<1> DEFINE invalid == {b \in Buckets \ valid : owner[b] # NoConnector}
<1>a. PICK new \in Seq(Buckets), old \in Seq(Buckets) :
        new = SetToSeq(valid) /\ old = SetToSeq(invalid)
  BY BucketSeq
<1>1. PICK a : /\ new = SetToSeq(valid) /\ old = SetToSeq(invalid) /\ a = Assignment
  BY <1>a
<1>2. {new[i] : i \in 1..Len(new)} = valid /\ {old[i] : i \in 1..Len(old)} = invalid
  <2>1. {SetToSeq(valid)[i] : i \in 1..Len(SetToSeq(valid))} = valid
    BY BucketSeq
  <2>2. {SetToSeq(invalid)[i] : i \in 1..Len(SetToSeq(invalid))} = invalid
    BY BucketSeq
  <2> QED BY <1>1, <2>1, <2>2
<1>3. PICK m : m = ListenToBuckets(a, new)
  OBVIOUS
<1>4. r = StopListeningToBuckets(m, old)
  BY <1>1, <1>3, Zenon DEF ListenToValidBuckets
<1>5. /\ m \in SetUps(st) /\ Taken(m) = Taken(a) \cup valid /\ Marked(a, m)
      /\ Single(a) => Single(m)
  BY <1>1, <1>2, <1>3, ListenToBucketsEffect
<1>6. /\ r \in SetUps(st) /\ Taken(r) = Taken(m) \ invalid /\ Marked(m, r)
      /\ Single(m) => Single(r)
  BY <1>2, <1>4, <1>5, StopListeningToBucketsEffect
<1>7. Taken(r) = valid
  BY <1>1, <1>5, <1>6 DEF Taken, Assignment
<1>8. Marked(a, r)
  BY <1>5, <1>6, MarkedTwice
<1> QED BY <1>1, <1>5, <1>6, <1>7, <1>8

-----------------------------------------------------------------------------
(* The steps *)

Allocated == AssignmentOK(Effective, sameTime, raced)

LEMMA AssignmentType ==
    ASSUME Types PROVE Assignment \in Assignments
BY DEF Types, Assignment, Assignments

LEMMA LastInSet ==
    ASSUME NEW S, NEW q \in Seq(S), q # <<>> PROVE q[Len(q)] \in S
<1>1. Len(q) \in 1..Len(q)
  OBVIOUS
<1>2. \A i \in 1..Len(q) : q[i] \in S
  OBVIOUS
<1> QED BY <1>1, <1>2

(* What is left of a queue, and its last element *)
LEMMA TailOfQueue ==
    ASSUME NEW S, NEW q \in Seq(S), q # <<>>
    PROVE  /\ Head(q) \in S /\ Tail(q) \in Seq(S)
           /\ IF Tail(q) = <<>> THEN Head(q) = q[Len(q)] ELSE Tail(q)[Len(Tail(q))] = q[Len(q)]
<1>1. /\ Head(q) \in S /\ Tail(q) \in Seq(S) /\ Head(q) = q[1]
      /\ \A i \in 1..Len(Tail(q)) : Tail(q)[i] = q[i + 1]
  BY HeadTailProperties
<1>2. PICK n \in Nat : n = Len(q) /\ n > 0 /\ Len(Tail(q)) = n - 1
  OBVIOUS
<1>3. CASE Tail(q) = <<>>
  <2>1. Len(Tail(q)) = Len(<<>>)
    BY <1>3, Zenon
  <2>2. Len(<<>>) = 0
    OBVIOUS
  <2>3. Len(Tail(q)) = 0
    BY <2>1, <2>2, Zenon
  <2>4. n = 1
    <3>1. PICK m \in Nat : m = Len(Tail(q)) /\ m = n - 1
      BY <1>2
    <3>2. m = 0
      BY <2>3, <3>1, Zenon
    <3>3. m = n - 1
      BY <3>1
    <3> QED BY <3>2, <3>3
  <2> QED BY <1>1, <1>2, <1>3, <2>4
<1>4. CASE Tail(q) # <<>>
  <2>1. n - 1 # 0
    BY <1>1, <1>2, <1>4
  <2>2. n - 1 \in 1..Len(Tail(q)) /\ n - 1 + 1 = n
    BY <1>2, <2>1
  <2>3. Tail(q)[n - 1] = q[n]
    BY <1>1, <2>2
  <2> QED BY <1>1, <1>2, <1>4, <2>3
<1> QED BY <1>3, <1>4

LEMMA SettlingType ==
    ASSUME NEW o \in [Buckets -> 0..NbConnectors], NEW w \in [Buckets -> Seq(0..NbConnectors)],
           NEW k \in [Connectors -> ConnectorStates]
    PROVE  Settling(o, w, k) \in Assignments
<1>1. ASSUME NEW b \in Buckets, w[b] # <<>> PROVE w[b][Len(w[b])] \in 0..NbConnectors
  <2>1. PICK q \in Seq(0..NbConnectors) : q = w[b] /\ q # <<>>
    BY <1>1
  <2>4. q[Len(q)] \in 0..NbConnectors
    BY <2>1, LastInSet
  <2> QED BY <2>1, <2>4
<1> QED BY <1>1 DEF Settling, Assignments

LEMMA EffectiveType ==
    ASSUME Types PROVE Effective \in Assignments
BY SettlingType DEF Types, Effective

(* Without handlers that wait the assignment is what the process has in memory *)
LEMMA HandlersGone ==
    ASSUME NEW o \in [Buckets -> 0..NbConnectors], NEW w, NEW k, \A b \in Buckets : w[b] = <<>>
    PROVE  Settling(o, w, k) = [owner |-> o, conn |-> k]
BY DEF Settling

LEMMA SameAllocation ==
    ASSUME Allocated, UNCHANGED <<owner, conn, awaited, sameTime, raced>> PROVE Allocated'
BY DEF Allocated, Effective, Settling, AssignmentOK, Owned

(* One connector changes, and keeps its buckets *)
LEMMA OneConnector ==
    ASSUME Types, Allocated, UNCHANGED <<owner, awaited, sameTime, raced>>, NEW c \in Connectors,
           NEW k \in ConnectorStates, conn' = [conn EXCEPT ![c] = k],
           k.buckets = conn[c].buckets, Tracked(k, sameTime)
    PROVE  /\ conn' \in [Connectors -> ConnectorStates] /\ Allocated'
           /\ \A d \in Connectors : conn'[d] = IF d = c THEN k ELSE conn[d]
<1>0. conn \in [Connectors -> ConnectorStates] /\ Effective \in Assignments
  BY EffectiveType DEF Types
<1>1. \A d \in Connectors : conn'[d] = IF d = c THEN k ELSE conn[d]
  BY <1>0
<1>2. conn' \in [Connectors -> ConnectorStates]
  BY <1>0
<1>3. PICK o : /\ o = Effective.owner /\ o \in [Buckets -> 0..NbConnectors]
              /\ Effective.conn = conn /\ Effective'.owner = o /\ Effective'.conn = conn'
  BY <1>0 DEF Assignments, Effective, Settling
<1>4. ASSUME ~raced, NEW b \in Buckets, o[b] # NoConnector PROVE b \in conn'[o[b]].buckets
  <2>1. o[b] \in Connectors /\ b \in conn[o[b]].buckets
    BY <1>3, <1>4, OplogAssumption DEF Allocated, AssignmentOK, Owned, Connectors, NoConnector
  <2> QED BY <1>1, <2>1
<1>5. \A d \in Connectors : Tracked(conn'[d], sameTime)
  BY <1>1, <1>3 DEF Allocated, AssignmentOK
<1>6. AssignmentOK(Effective', sameTime, raced)
  BY <1>3, <1>4, <1>5 DEF AssignmentOK, Owned
<1>7. Allocated'
  BY <1>6 DEF Allocated, AssignmentOK, Owned
<1> QED BY <1>1, <1>2, <1>7

LEMMA InitInv ==
    ASSUME Init PROVE Inv
<1>1. NewConnector \in ConnectorStates /\ Tracked(NewConnector, FALSE)
  BY DEF NewConnector, ConnectorStates, NoDate, Tracked
<1>2. Types
  <2>1. oplog \in Seq(Events) /\ Len(oplog) = 0
    BY DEF Init
  <2>2. Absent \in Configurations
    BY DEF Absent, Configurations, NoDate
  <2>3. conn \in [Connectors -> ConnectorStates] /\ kafka \in [Connectors -> Configurations]
    BY <1>1, <2>2 DEF Init
  <2>4. owner \in [Buckets -> 0..NbConnectors]
    BY OplogAssumption DEF Init, NoConnector
  <2>5. metastore \in [Buckets -> {"none", "off", "on"}]
    BY DEF Init
  <2>6. /\ proc = "down" /\ valid = {} /\ pos = 0 /\ token = 0 /\ calls = {} /\ sameTime = FALSE
        /\ MaxChanges \in Nat
    BY OplogAssumption DEF Init
  <2>7. token \in 0..Len(oplog) /\ pos \in 0..(Len(oplog) + 1) /\ Len(oplog) <= MaxChanges
    BY <2>1, <2>6
  <2>8. proc \in {"down", "connected", "listed", "up"} /\ (proc = "up" => pos # 0)
    BY <2>6
  <2>9. valid \subseteq Buckets /\ calls \subseteq Calls /\ sameTime \in BOOLEAN
    BY <2>6
  <2>10. /\ awaited \in [Buckets -> Seq(0..NbConnectors)] /\ \A b \in Buckets : awaited[b] = <<>>
         /\ silent \subseteq Connectors /\ raced \in BOOLEAN /\ ~raced
    <3>1. <<>> \in Seq(0..NbConnectors)
      OBVIOUS
    <3> QED BY <3>1 DEF Init
  <2> QED BY <2>1, <2>3, <2>4, <2>5, <2>7, <2>8, <2>9, <2>10 DEF Types
<1>3. Allocated
  BY <1>1 DEF Init, Allocated, Effective, Settling, AssignmentOK, Owned
<1>4. CallsOK
  BY DEF Init, CallsOK, Updates, NewConnector
<1> QED BY <1>2, <1>3, <1>4 DEF Inv, Allocated

LEMMA ChangeBucketInv ==
    ASSUME Inv, NEW b \in Buckets, NEW to \in {"none", "off", "on"}, ChangeBucket(b, to) PROVE Inv'
<1>1. /\ UNCHANGED <<proc, valid, pos, token, owner, conn, awaited, calls, kafka, silent, sameTime, raced>>
      /\ Len(oplog) < MaxChanges /\ metastore' = [metastore EXCEPT ![b] = to]
      /\ \E e \in Events : oplog' = Append(oplog, e)
  BY DEF ChangeBucket, stream, memory, kafkaConnect, history, Events
<1>2. Types'
  <2>1. oplog' \in Seq(Events) /\ Len(oplog') = Len(oplog) + 1 /\ Len(oplog) \in Nat
    BY <1>1 DEF Inv, Types
  <2>2. metastore' \in [Buckets -> {"none", "off", "on"}]
    BY <1>1 DEF Inv, Types
  <2> QED BY <1>1, <2>1, <2>2, OplogAssumption DEF Inv, Types
<1>3. Allocated'
  BY <1>1, SameAllocation DEF Inv, Allocated
<1>4. CallsOK'
  BY <1>1 DEF Inv, CallsOK, Updates
<1> QED BY <1>2, <1>3, <1>4 DEF Inv, Allocated

LEMMA InitializeConnectorsInv ==
    ASSUME Inv, InitializeConnectors PROVE Inv'
<1> DEFINE old(c) == [NewConnector EXCEPT !.buckets = kafka[c].pipeline, !.running = TRUE,
                                          !.pipeline = kafka[c].pipeline, !.resume = kafka[c].resume]
           cs == [c \in Connectors |-> IF kafka[c].exists THEN old(c) ELSE NewConnector]
           holders(b) == {c \in Connectors : b \in cs[c].buckets}
<1>1. /\ conn' = cs
      /\ owner' = [b \in Buckets |-> IF holders(b) = {} THEN NoConnector
                                     ELSE CHOOSE c \in holders(b) : \A d \in holders(b) : d <= c]
      /\ proc = "down" /\ proc' = "connected"
      /\ UNCHANGED <<metastore, oplog, valid, pos, token, awaited, calls, kafka, silent, sameTime, raced>>
  BY DEF InitializeConnectors, mongo, stream, kafkaConnect
<1>2. ASSUME NEW c \in Connectors
      PROVE  cs[c] \in ConnectorStates /\ Tracked(cs[c], sameTime) /\ ~cs[c].updating
  <2>1. kafka[c].pipeline \in SUBSET Buckets /\ kafka[c].resume \in Nat
    BY DEF Inv, Types, Configurations
  <2>2. /\ NewConnector \in ConnectorStates /\ old(c) \in ConnectorStates
        /\ NewConnector.modified /\ ~NewConnector.updating /\ old(c).modified /\ ~old(c).updating
    BY <2>1 DEF NewConnector, ConnectorStates, NoDate
  <2> HIDE DEF old
  <2> QED BY <2>2 DEF Tracked
<1> HIDE DEF cs
<1>3. conn' \in [Connectors -> ConnectorStates]
  <2>1. conn' = [c \in Connectors |-> cs[c]]
    BY <1>1 DEF cs
  <2> QED BY <1>2, <2>1
<1>4. ASSUME NEW b \in Buckets
      PROVE  owner'[b] \in 0..NbConnectors /\ (owner'[b] # NoConnector => owner'[b] \in holders(b))
  <2>1. CASE holders(b) = {}
    BY <1>1, <2>1, OplogAssumption DEF NoConnector
  <2>2. CASE holders(b) # {}
    <3> DEFINE T == {NbConnectors - c : c \in holders(b)}
    <3>1. \A c \in holders(b) : c \in Nat /\ c <= NbConnectors /\ NbConnectors - c \in Nat
      BY OplogAssumption DEF Connectors
    <3>2. PICK m \in T : \A y \in T : m <= y
      <4>1. T \subseteq Nat /\ T # {}
        BY <2>2, <3>1
      <4> HIDE DEF T
      <4> QED BY <4>1, LeastNatural
    <3>3. PICK c \in holders(b) : m = NbConnectors - c
      BY <3>2
    <3>4. \A d \in holders(b) : d <= c
      <4> TAKE d \in holders(b)
      <4>1. m <= NbConnectors - d
        BY <3>2
      <4> QED BY <3>1, <3>3, <4>1, OplogAssumption
    <3> HIDE DEF holders
    <3>5. owner'[b] \in holders(b)
      BY <1>1, <2>2, <3>3, <3>4
    <3> QED BY <3>1, <3>5
  <2> QED BY <2>1, <2>2
<1>5. owner' \in [Buckets -> 0..NbConnectors]
  <2> HIDE DEF holders
  <2> QED BY <1>1, <1>4
<1>6. Types'
  BY <1>1, <1>3, <1>5 DEF Inv, Types
<1>7. Allocated'
  <2>1. \A b \in Buckets : awaited'[b] = <<>>
    BY <1>1 DEF Inv, Types
  <2>2. Effective' = [owner |-> owner', conn |-> conn']
    BY <1>5, <2>1, HandlersGone DEF Effective
  <2>3. \A c \in Connectors : Tracked(conn'[c], sameTime')
    BY <1>1, <1>2
  <2>4. \A b \in Buckets : owner'[b] # NoConnector => b \in conn'[owner'[b]].buckets
    BY <1>1, <1>4
  <2> QED BY <2>2, <2>3, <2>4 DEF Allocated, AssignmentOK, Owned
<1>8. CallsOK'
  BY <1>1, <1>2 DEF Inv, CallsOK, Updates
<1> QED BY <1>6, <1>7, <1>8 DEF Inv, Allocated

LEMMA GetBackbeatEnabledBucketsInv ==
    ASSUME Inv, GetBackbeatEnabledBuckets PROVE Inv'
<1>1. /\ UNCHANGED <<metastore, oplog, token, owner, conn, awaited, calls, kafka, silent, sameTime, raced>>
      /\ valid' = Enabled /\ pos' = Len(oplog) + 1 /\ proc = "connected" /\ proc' = "listed"
  BY DEF GetBackbeatEnabledBuckets, mongo, memory, kafkaConnect, history
<1>2. Types'
  BY <1>1 DEF Inv, Types, Enabled
<1>3. Allocated'
  BY <1>1, SameAllocation DEF Inv, Allocated
<1>4. CallsOK'
  BY <1>1 DEF Inv, CallsOK, Updates
<1> QED BY <1>2, <1>3, <1>4 DEF Inv, Allocated

LEMMA SetMetastoreChangeStreamInv ==
    ASSUME Inv, SetMetastoreChangeStream PROVE Inv'
<1>1. /\ UNCHANGED <<metastore, oplog, token, awaited, calls, kafka, silent, sameTime, raced>>
      /\ valid' = {} /\ pos' = Len(oplog) + 1 /\ proc = "listed" /\ proc' = "up"
      /\ Assign(ListenToValidBuckets)
  BY DEF SetMetastoreChangeStream, mongo, kafkaConnect
<1>2. calls = {} /\ \A c \in Connectors : ~conn[c].updating
  BY <1>1 DEF Inv, CallsOK, Updates
<1>3. Assignment \in SetUps(sameTime)
  <2>1. \A b \in Buckets : awaited[b] = <<>>
    BY <1>1 DEF Inv, Types
  <2>2. Effective = Assignment /\ ~raced
    BY <1>1, <2>1, HandlersGone DEF Inv, Types, Effective, Assignment
  <2>3. AssignmentOK(Assignment, sameTime, FALSE)
    BY <2>2 DEF Inv, AssignmentOK
  <2> QED BY <1>2, <2>3, AssignmentType DEF Inv, SetUps, Quiet, Assignment
<1>4. PICK a \in SetUps(sameTime) : a = ListenToValidBuckets
  <2>1. sameTime \in BOOLEAN /\ valid \subseteq Buckets
    BY DEF Inv, Types
  <2> QED BY <1>3, <2>1, ListenToValidBucketsOK
<1>5. a \in Assignments /\ AssignmentOK(a, sameTime, FALSE) /\ Quiet(a) /\ Assign(a)
  BY <1>1, <1>4 DEF SetUps
<1>6. owner' \in [Buckets -> 0..NbConnectors] /\ conn' \in [Connectors -> ConnectorStates]
  BY <1>5 DEF Assign, Assignments
<1>7. Allocated'
  <2>1. \A b \in Buckets : awaited'[b] = <<>>
    BY <1>1 DEF Inv, Types
  <2>2. Effective' = [owner |-> a.owner, conn |-> a.conn]
    BY <1>5, <1>6, <2>1, HandlersGone DEF Effective, Assign
  <2> QED BY <1>1, <1>5, <2>2 DEF Allocated, AssignmentOK, Owned
<1>8. Types'
  BY <1>1, <1>6 DEF Inv, Types
<1>9. CallsOK'
  <2>1. \A c \in Connectors : ~conn'[c].updating
    BY <1>5 DEF Quiet, Assign
  <2> QED BY <1>1, <1>2, <2>1 DEF CallsOK, Updates
<1> QED BY <1>7, <1>8, <1>9 DEF Inv, Allocated

(* The handler of an event, on any assignment *)
HandleOn(a, b, document, date, later) ==
    IF document = "on" THEN ListenToBucket(a, b, date, later) ELSE StopListeningToBucket(a, b, later)

LEMMA HandleOnOK ==
    ASSUME NEW a \in Assignments, NEW b \in Buckets, NEW document, NEW date \in Nat,
           NEW later \in BOOLEAN, NEW st \in BOOLEAN, NEW rc \in BOOLEAN,
           AssignmentOK(a, st, rc), Heard(a, later, st),
           NEW r, r = HandleOn(a, b, document, date, later)
    PROVE  r \in Assignments /\ AssignmentOK(r, st, rc) /\ SameUpdates(a, r)
<1>1. CASE document = "on"
  <2>1. r = ListenToBucket(a, b, date, later)
    BY <1>1 DEF HandleOn
  <2> QED BY <2>1, ListenToBucketOK
<1>2. CASE document # "on"
  <2>1. r = StopListeningToBucket(a, b, later)
    BY <1>2 DEF HandleOn
  <2> QED BY <2>1, StopListeningToBucketOK
<1> QED BY <1>1, <1>2

LEMMA HandleOnEffect ==
    ASSUME NEW a \in Assignments, NEW b \in Buckets, NEW document, NEW date \in Nat,
           NEW later \in BOOLEAN, NEW r, r = HandleOn(a, b, document, date, later)
    PROVE  /\ Taken(r) = IF document = "on" THEN Taken(a) \cup {b} ELSE Taken(a) \ {b}
           /\ Marked(a, r) /\ (Single(a) => Single(r))
<1>1. CASE document = "on"
  <2>1. r = ListenToBucket(a, b, date, later)
    BY <1>1 DEF HandleOn
  <2> QED BY <1>1, <2>1, ListenToBucketEffect
<1>2. CASE document # "on"
  <2>1. r = StopListeningToBucket(a, b, later)
    BY <1>2 DEF HandleOn
  <2> QED BY <1>2, <2>1, StopListeningToBucketEffect
<1> QED BY <1>1, <1>2

(* It depends on the connectors and on the owner of its bucket only, and changes
   no other owner.                                                             *)
LEMMA HandleOnSame ==
    ASSUME NEW x \in Assignments, NEW y \in Assignments, NEW b \in Buckets, NEW document, NEW date,
           NEW later, x.conn = y.conn, x.owner[b] = y.owner[b],
           NEW r, r = HandleOn(x, b, document, date, later),
           NEW t, t = HandleOn(y, b, document, date, later)
    PROVE  r.conn = t.conn /\ t = [owner |-> [y.owner EXCEPT ![b] = r.owner[b]], conn |-> r.conn]
<1>0. /\ x.owner \in [Buckets -> 0..NbConnectors] /\ y.owner \in [Buckets -> 0..NbConnectors]
      /\ y = [owner |-> y.owner, conn |-> y.conn]
  BY DEF Assignments
<1>1. CASE document = "on" /\ x.owner[b] # NoConnector
  <2>1. r = x /\ t = y
    BY <1>1 DEF HandleOn, ListenToBucket
  <2> QED BY <1>0, <2>1
<1>2. CASE document = "on" /\ x.owner[b] = NoConnector
  <2>1. PICK c, n :
          /\ r = [owner |-> [x.owner EXCEPT ![b] = c], conn |-> [x.conn EXCEPT ![c] = n]]
          /\ t = [owner |-> [y.owner EXCEPT ![b] = c], conn |-> [y.conn EXCEPT ![c] = n]]
    <3>1. PICK c : c = GetConnector(x.conn)
      OBVIOUS
    <3>2. PICK k : k = IF date = NoDate THEN x.conn[c] ELSE SetResumePoint(x.conn[c], date)
      OBVIOUS
    <3>3. PICK n : n = Modified(k, k.buckets \cup {b}, later)
      OBVIOUS
    <3>4. r = [owner |-> [x.owner EXCEPT ![b] = c], conn |-> [x.conn EXCEPT ![c] = n]]
      BY <1>2, <3>1, <3>2, <3>3 DEF HandleOn, ListenToBucket
    <3>5. t = [owner |-> [y.owner EXCEPT ![b] = c], conn |-> [y.conn EXCEPT ![c] = n]]
      BY <1>2, <3>1, <3>2, <3>3 DEF HandleOn, ListenToBucket
    <3> QED BY <3>4, <3>5
  <2>2. r.owner[b] = c
    BY <1>0, <2>1
  <2> QED BY <2>1, <2>2
<1>3. CASE document # "on" /\ x.owner[b] = NoConnector
  <2>1. r = x /\ t = y
    BY <1>3 DEF HandleOn, StopListeningToBucket
  <2> QED BY <1>0, <2>1
<1>4. CASE document # "on" /\ x.owner[b] # NoConnector
  <2>1. PICK c : c = x.owner[b] /\ c = y.owner[b]
    OBVIOUS
  <2>2. PICK n : n = Modified(x.conn[c], x.conn[c].buckets \ {b}, later)
    OBVIOUS
  <2>3. /\ r.owner = [x.owner EXCEPT ![b] = NoConnector]
        /\ r.conn = [x.conn EXCEPT ![c] = Modified(@, @.buckets \ {b}, later)]
    BY <1>4, <2>1 DEF HandleOn, StopListeningToBucket
  <2>4. t = [owner |-> [y.owner EXCEPT ![b] = NoConnector],
             conn |-> [y.conn EXCEPT ![c] = Modified(@, @.buckets \ {b}, later)]]
    BY <1>4, <2>1 DEF HandleOn, StopListeningToBucket
  <2>5. r.owner[b] = NoConnector
    BY <1>0, <2>3
  <2> QED BY <2>3, <2>4, <2>5
<1> QED BY <1>1, <1>2, <1>3, <1>4

LEMMA HandleOnOwner ==
    ASSUME NEW a \in Assignments, NEW b \in Buckets, NEW document, NEW date, NEW later
    PROVE  HandleOn(a, b, document, date, later).owner[b] \in 0..NbConnectors
<1>1. /\ a.owner \in [Buckets -> 0..NbConnectors] /\ a.conn \in [Connectors -> ConnectorStates]
      /\ NoConnector \in 0..NbConnectors
  BY OplogAssumption DEF Assignments, NoConnector
<1>2. GetConnector(a.conn) \in 0..NbConnectors
  BY <1>1, GetConnectorType, OplogAssumption DEF Connectors
<1>3. ListenToBucket(a, b, date, later).owner[b] \in 0..NbConnectors
  BY <1>1, <1>2 DEF ListenToBucket
<1>4. StopListeningToBucket(a, b, later).owner[b] \in 0..NbConnectors
  BY <1>1 DEF StopListeningToBucket
<1> QED BY <1>3, <1>4 DEF HandleOn

(* An event whose bucket no handler waits for is handled as if none waited *)
LEMMA EventHandled ==
    ASSUME Types, HandleChangeStreamChangeEvent
    PROVE  \E b \in Buckets, document \in {"none", "off", "on"}, date \in Nat, later \in BOOLEAN :
             /\ b = oplog[pos].bucket /\ document \in Documents(pos)
             /\ conn' = HandleOn(Assignment, b, document, date, later).conn
             /\ awaited' \in [Buckets -> Seq(0..NbConnectors)]
             /\ raced' = (raced \/ awaited[b] # <<>>) /\ sameTime' = (sameTime \/ ~later)
             /\ awaited[b] = <<>> => Effective' = HandleOn(Effective, b, document, date, later)
<1>1. PICK b \in Buckets, date \in Nat : b = oplog[pos].bucket /\ date = pos
  <2>1. pos \in 1..Len(oplog) /\ oplog \in Seq(Events)
    BY DEF Types, HandleChangeStreamChangeEvent
  <2>2. oplog[pos] \in Events
    BY <2>1
  <2> QED BY <2>1, <2>2 DEF Events
<1>2. PICK later \in BOOLEAN, document \in Documents(pos) :
        /\ conn' = HandleEvent(b, document, date, later).conn
        /\ awaited' = IF HandleEvent(b, document, date, later).owner[b] = owner[b] THEN awaited
                      ELSE [awaited EXCEPT ![b] = Append(@, HandleEvent(b, document, date, later).owner[b])]
        /\ sameTime' = (sameTime \/ ~later)
  BY <1>1, Zenon DEF HandleChangeStreamChangeEvent
<1>a. PICK a : a = HandleEvent(b, document, date, later)
  OBVIOUS
<1>b. /\ conn' = a.conn
      /\ awaited' = IF a.owner[b] = owner[b] THEN awaited
                    ELSE [awaited EXCEPT ![b] = Append(@, a.owner[b])]
  BY <1>2, <1>a
<1>3. raced' = (raced \/ awaited[b] # <<>>) /\ owner' = owner
  BY <1>1 DEF HandleChangeStreamChangeEvent
<1>4. document \in {"none", "off", "on"}
  <2>1. pos \in 1..Len(oplog) /\ oplog \in Seq(Events)
    BY DEF Types, HandleChangeStreamChangeEvent
  <2>2. \A j \in pos..Len(oplog) : oplog[j] \in Events
    BY <2>1
  <2>3. \A j \in pos..Len(oplog) : oplog[j].to \in {"none", "off", "on"}
    BY <2>2 DEF Events
  <2>4. pos \in pos..Len(oplog)
    BY <2>1
  <2> QED BY <1>2, <2>3, <2>4 DEF Documents
<1>5. a = HandleOn(Assignment, b, document, date, later)
  BY <1>a DEF HandleEvent, HandleOn
<1>6. /\ Assignment \in Assignments /\ Effective \in Assignments
      /\ Assignment.conn = conn /\ Assignment.owner = owner /\ Effective.conn = conn
      /\ owner \in [Buckets -> 0..NbConnectors] /\ awaited \in [Buckets -> Seq(0..NbConnectors)]
  BY AssignmentType, EffectiveType DEF Types, Assignment, Effective, Settling
<1>7. a.owner[b] \in 0..NbConnectors
  BY <1>5, <1>6, HandleOnOwner
<1>8. awaited' \in [Buckets -> Seq(0..NbConnectors)]
  <2>1. Append(awaited[b], a.owner[b]) \in Seq(0..NbConnectors)
    BY <1>6, <1>7
  <2> QED BY <1>b, <1>6, <2>1
<1>9. ASSUME awaited[b] = <<>> PROVE Effective' = HandleOn(Effective, b, document, date, later)
  <2>1. Effective.owner[b] = owner[b]
    BY <1>9 DEF Effective, Settling
  <2>2. PICK t : t = HandleOn(Effective, b, document, date, later)
    OBVIOUS
  <2>3. t = [owner |-> [Effective.owner EXCEPT ![b] = a.owner[b]], conn |-> a.conn]
    <3>1. PICK x \in Assignments, y \in Assignments : x = Assignment /\ y = Effective
      BY <1>6
    <3>2. /\ x.conn = y.conn /\ x.owner[b] = y.owner[b]
          /\ a = HandleOn(x, b, document, date, later) /\ t = HandleOn(y, b, document, date, later)
      BY <1>5, <1>6, <2>1, <2>2, <3>1
    <3>3. t = [owner |-> [y.owner EXCEPT ![b] = a.owner[b]], conn |-> a.conn]
      BY <3>2, HandleOnSame
    <3> QED BY <3>1, <3>3
  <2>4. Effective'.conn = a.conn /\ Effective' = [owner |-> Effective'.owner, conn |-> Effective'.conn]
    BY <1>b DEF Effective, Settling
  <2>5. Effective'.owner = [d \in Buckets |-> IF awaited'[d] = <<>> THEN owner[d]
                                               ELSE awaited'[d][Len(awaited'[d])]]
    BY <1>3 DEF Effective, Settling
  <2>6. ASSUME NEW d \in Buckets
        PROVE  (IF awaited'[d] = <<>> THEN owner[d] ELSE awaited'[d][Len(awaited'[d])])
               = IF d = b THEN a.owner[b] ELSE Effective.owner[d]
    <3>1. CASE d # b
      <4>1. awaited'[d] = awaited[d]
        BY <1>b, <1>6, <3>1
      <4> QED BY <3>1, <4>1 DEF Effective, Settling
    <3>2. CASE d = b /\ a.owner[b] = owner[b]
      BY <1>b, <1>9, <3>2
    <3>3. CASE d = b /\ a.owner[b] # owner[b]
      <4>1. awaited'[d] = Append(<<>>, a.owner[b])
        BY <1>b, <1>6, <1>9, <3>3
      <4>2. awaited'[d] # <<>> /\ Len(awaited'[d]) = 1 /\ awaited'[d][1] = a.owner[b]
        BY <4>1
      <4> QED BY <3>3, <4>2
    <3> QED BY <3>1, <3>2, <3>3
  <2>7. Effective.owner \in [Buckets -> 0..NbConnectors]
    BY <1>6 DEF Assignments
  <2>8. Effective'.owner = [Effective.owner EXCEPT ![b] = a.owner[b]]
    BY <2>5, <2>6, <2>7
  <2> QED BY <2>2, <2>3, <2>4, <2>8
<1> QED BY <1>1, <1>2, <1>b, <1>3, <1>4, <1>5, <1>8, <1>9

LEMMA HandleChangeStreamChangeEventInv ==
    ASSUME Inv, HandleChangeStreamChangeEvent PROVE Inv'
<1>1. /\ proc = "up" /\ pos <= Len(oplog) /\ token' = pos /\ pos' = pos + 1
      /\ UNCHANGED <<metastore, oplog, proc, valid, owner, calls, kafka, silent>>
  BY DEF HandleChangeStreamChangeEvent, mongo, kafkaConnect
<1>2. PICK b \in Buckets, document \in {"none", "off", "on"}, date \in Nat, later \in BOOLEAN :
        /\ conn' = HandleOn(Assignment, b, document, date, later).conn
        /\ awaited' \in [Buckets -> Seq(0..NbConnectors)]
        /\ raced' = (raced \/ awaited[b] # <<>>) /\ sameTime' = (sameTime \/ ~later)
        /\ awaited[b] = <<>> => Effective' = HandleOn(Effective, b, document, date, later)
  <2>1. Types
    BY DEF Inv
  <2> QED BY <2>1, EventHandled, Zenon
<1>3. PICK st \in BOOLEAN, rc \in BOOLEAN : st = (sameTime \/ ~later) /\ rc = raced'
  BY <1>2 DEF Inv, Types
<1>4. \A c \in Connectors : Tracked(conn[c], st)
  BY <1>3 DEF Inv, AssignmentOK, Effective, Settling, Tracked
<1>5. PICK a : a = HandleOn(Assignment, b, document, date, later)
  OBVIOUS
<1>6. a \in Assignments /\ AssignmentOK(a, st, TRUE) /\ SameUpdates(Assignment, a)
  <2>1. AssignmentOK(Assignment, st, TRUE) /\ Heard(Assignment, later, st)
    BY <1>3, <1>4 DEF AssignmentOK, Assignment, Heard
  <2> QED BY <1>5, <2>1, AssignmentType, HandleOnOK DEF Inv
<1>7. conn' \in [Connectors -> ConnectorStates] /\ \A c \in Connectors : Tracked(conn'[c], st)
  BY <1>2, <1>5, <1>6 DEF Assignments, AssignmentOK
<1>8. Allocated'
  <2>1. CASE rc
    BY <1>2, <1>3, <1>7, <2>1 DEF Allocated, AssignmentOK, Effective, Settling
  <2>2. CASE ~rc
    <3>1. PICK t : t = HandleOn(Effective, b, document, date, later) /\ Effective' = t
      BY <1>2, <1>3, <2>2
    <3>2. AssignmentOK(Effective, st, rc) /\ Heard(Effective, later, st)
      BY <1>2, <1>3, <2>2 DEF Inv, AssignmentOK, Heard, Tracked
    <3>3. AssignmentOK(t, st, rc)
      BY <3>1, <3>2, EffectiveType, HandleOnOK DEF Inv
    <3> QED BY <1>2, <1>3, <3>1, <3>3 DEF Allocated, AssignmentOK, Owned
  <2> QED BY <2>1, <2>2
<1>9. Types'
  <2>1. pos \in 1..Len(oplog) /\ Len(oplog) \in Nat
    BY <1>1 DEF Inv, Types
  <2>2. token' \in 0..Len(oplog') /\ pos' \in 0..(Len(oplog') + 1) /\ pos' # 0
    BY <1>1, <2>1
  <2>3. sameTime' \in BOOLEAN /\ raced' \in BOOLEAN
    BY <1>2, <1>3
  <2> QED BY <1>1, <1>2, <1>7, <2>2, <2>3 DEF Inv, Types
<1>10. CallsOK'
  <2>1. \A c \in Connectors : conn'[c].updating = conn[c].updating
    BY <1>2, <1>5, <1>6 DEF SameUpdates, Assignment
  <2> QED BY <1>1, <2>1 DEF Inv, CallsOK, Updates
<1> QED BY <1>8, <1>9, <1>10 DEF Inv, Allocated

(* A handler that goes on changes nothing of the assignment as it will be *)
LEMMA SameEffective ==
    ASSUME Types, NEW b \in Buckets, SetBucketsToConnectors(b)
    PROVE  /\ Effective' = Effective
           /\ owner' \in [Buckets -> 0..NbConnectors] /\ awaited' \in [Buckets -> Seq(0..NbConnectors)]
<1>1. PICK q \in Seq(0..NbConnectors) :
        /\ q = awaited[b] /\ q # <<>>
        /\ owner' = [owner EXCEPT ![b] = Head(q)] /\ awaited' = [awaited EXCEPT ![b] = Tail(q)]
        /\ conn' = conn
  BY DEF Types, SetBucketsToConnectors
<1>2. /\ Head(q) \in 0..NbConnectors /\ Tail(q) \in Seq(0..NbConnectors)
      /\ IF Tail(q) = <<>> THEN Head(q) = q[Len(q)] ELSE Tail(q)[Len(Tail(q))] = q[Len(q)]
  BY <1>1, TailOfQueue
<1>3. /\ owner \in [Buckets -> 0..NbConnectors] /\ awaited \in [Buckets -> Seq(0..NbConnectors)]
  BY DEF Types
<1>4. /\ owner' \in [Buckets -> 0..NbConnectors] /\ awaited' \in [Buckets -> Seq(0..NbConnectors)]
  BY <1>1, <1>2, <1>3
<1>5. ASSUME NEW d \in Buckets
      PROVE  (IF awaited'[d] = <<>> THEN owner'[d] ELSE awaited'[d][Len(awaited'[d])])
             = (IF awaited[d] = <<>> THEN owner[d] ELSE awaited[d][Len(awaited[d])])
  <2>1. CASE d # b
    BY <1>1, <1>3, <2>1
  <2>2. CASE d = b
    <3>1. awaited'[d] = Tail(q) /\ owner'[d] = Head(q) /\ awaited[d] = q
      BY <1>1, <1>3, <2>2
    <3> QED BY <1>1, <1>2, <3>1
  <2> QED BY <2>1, <2>2
<1> QED BY <1>1, <1>4, <1>5 DEF Effective, Settling

LEMMA SetBucketsToConnectorsInv ==
    ASSUME Inv, NEW b \in Buckets, SetBucketsToConnectors(b) PROVE Inv'
<1>1. /\ UNCHANGED <<metastore, oplog, proc, valid, pos, token, conn, calls, kafka, silent, sameTime, raced>>
      /\ awaited[b] # <<>>
  BY DEF SetBucketsToConnectors, mongo, stream, kafkaConnect, history
<1>2. /\ Effective' = Effective
      /\ owner' \in [Buckets -> 0..NbConnectors] /\ awaited' \in [Buckets -> Seq(0..NbConnectors)]
  BY SameEffective DEF Inv
<1>3. Types'
  BY <1>1, <1>2 DEF Inv, Types
<1>4. Allocated'
  BY <1>1, <1>2 DEF Inv, Allocated, AssignmentOK, Owned
<1>5. CallsOK'
  BY <1>1 DEF Inv, CallsOK, Updates
<1> QED BY <1>3, <1>4, <1>5 DEF Inv, Allocated

LEMMA HandleChangeStreamErrorEventInv ==
    ASSUME Inv, HandleChangeStreamErrorEvent PROVE Inv'
<1>1. /\ UNCHANGED <<metastore, oplog, proc, valid, token, owner, conn, awaited, calls, kafka, silent,
                  sameTime, raced>>
      /\ pos' = IF token = 0 THEN Len(oplog) + 1 ELSE token + 1
  BY DEF HandleChangeStreamErrorEvent, mongo, memory, kafkaConnect
<1>2. Types'
  BY <1>1 DEF Inv, Types
<1>3. Allocated'
  BY <1>1, SameAllocation DEF Inv, Allocated
<1>4. CallsOK'
  BY <1>1 DEF Inv, CallsOK, Updates
<1> QED BY <1>2, <1>3, <1>4 DEF Inv, Allocated

(* A call that is no update begins *)
LEMMA OtherCallBegins ==
    ASSUME Inv, proc = "up", NEW call \in Calls, call.kind \notin {"check", "put"},
           calls' = calls \cup {call}, UNCHANGED <<proc, conn>>
    PROVE  CallsOK'
BY DEF Inv, CallsOK, Updates

LEMMA UpdateConnectorInv ==
    ASSUME Inv, NEW c \in Connectors, UpdateConnector(c) PROVE Inv'
<1>1. /\ proc = "up"
      /\ UNCHANGED <<metastore, oplog, proc, valid, pos, token, owner, awaited, kafka, silent, sameTime, raced>>
      /\ DestroyConnector(c) \/ SpawnConnector(c) \/ UpdatePipeline(c)
  BY DEF UpdateConnector, mongo, stream, kafkaConnect, history
<1>2. conn[c] \in ConnectorStates /\ Tracked(conn[c], sameTime)
  BY DEF Inv, Types, AssignmentOK, Effective, Settling
<1>3. CASE DestroyConnector(c) \/ SpawnConnector(c)
  <2>a. PICK kind \in {"create", "delete"} :
          calls' = calls \cup {Call(c, kind)} /\ conn' = conn
    BY <1>3 DEF DestroyConnector, SpawnConnector
  <2>1. PICK call : call = Call(c, kind) /\ calls' = calls \cup {call} /\ conn' = conn
    BY <2>a
  <2>2. call \in Calls /\ call.kind \notin {"check", "put"}
    BY <1>2, <2>1 DEF Call, Calls, ConnectorStates
  <2>3. CallsOK'
    BY <1>1, <2>1, <2>2, OtherCallBegins
  <2>4. Types'
    BY <1>1, <2>1, <2>2 DEF Inv, Types
  <2>5. Allocated'
    BY <1>1, <2>1, SameAllocation DEF Inv, Allocated
  <2> QED BY <2>3, <2>4, <2>5 DEF Inv, Allocated
<1>4. CASE UpdatePipeline(c)
  <2>1. PICK call : call = [conn |-> c, kind |-> "check", pipeline |-> {}, resume |-> NoDate]
    OBVIOUS
  <2>2. call \in Calls /\ call.kind = "check" /\ call.conn = c
    BY <2>1 DEF Calls, NoDate
  <2>3. PICK k : k = [conn[c] EXCEPT !.pipeline = conn[c].buckets, !.updating = TRUE, !.later = FALSE]
    OBVIOUS
  <2>4. conn' = [conn EXCEPT ![c] = k] /\ calls' = calls \cup {call} /\ ~conn[c].updating
    BY <1>4, <2>1, <2>3 DEF UpdatePipeline, Inv, Types, ConnectorStates
  <2>5. /\ k \in ConnectorStates /\ k.buckets = conn[c].buckets /\ k.pipeline = conn[c].buckets
        /\ k.updating = TRUE
    BY <1>2, <2>3 DEF ConnectorStates
  <2>6. Tracked(k, sameTime)
    BY <2>5 DEF Tracked
  <2>7. /\ conn' \in [Connectors -> ConnectorStates] /\ Allocated'
        /\ \A d \in Connectors : conn'[d] = IF d = c THEN k ELSE conn[d]
    BY <1>1, <2>4, <2>5, <2>6, OneConnector DEF Inv, Allocated
  <2>8. Types'
    BY <1>1, <2>2, <2>4, <2>7 DEF Inv, Types
  <2>9. CallsOK'
    <3>1. \A x \in Updates : x.conn # c
      BY <2>4 DEF Inv, CallsOK, Updates
    <3>2. Updates' = Updates \cup {call}
      BY <2>2, <2>4 DEF Updates
    <3> QED BY <1>1, <2>2, <2>5, <2>7, <3>1, <3>2 DEF Inv, CallsOK
  <2> QED BY <2>7, <2>8, <2>9 DEF Inv, Allocated
<1> QED BY <1>1, <1>3, <1>4

(* What Kafka Connect holds once it has taken a configuration, or dropped it *)
LEMMA ConfiguredOK ==
    ASSUME Types, NEW c \in Connectors, NEW pipeline \in SUBSET Buckets, NEW resume \in Nat,
           Configured(c, pipeline, resume)
    PROVE  kafka' \in [Connectors -> Configurations]
BY DEF Configured, Types, Configurations

LEMMA DroppedOK ==
    ASSUME Types, NEW c \in Connectors, kafka' = [kafka EXCEPT ![c] = Absent]
    PROVE  kafka' \in [Connectors -> Configurations]
BY DEF Absent, Types, Configurations, NoDate

(* An answer changes at most its connector: how it must be left *)
AnsweredOK(call, k) ==
    /\ k \in ConnectorStates /\ k.buckets = conn[call.conn].buckets /\ Tracked(k, sameTime)
    /\ k.updating = (conn[call.conn].updating /\ call \notin Updates)

LEMMA AnswerInv ==
    ASSUME Inv, NEW call \in calls, UNCHANGED <<metastore, oplog, proc, valid, pos, token, owner>>,
           UNCHANGED <<awaited, silent, sameTime, raced>>,
           calls' = calls \ {call}, kafka' \in [Connectors -> Configurations],
           NEW k, conn' = [conn EXCEPT ![call.conn] = k], AnsweredOK(call, k)
    PROVE  Inv'
<1>1. PICK c \in Connectors : c = call.conn
  BY DEF Inv, Types, Calls
<1>2. /\ conn' \in [Connectors -> ConnectorStates] /\ Allocated'
      /\ \A d \in Connectors : conn'[d] = IF d = c THEN k ELSE conn[d]
  BY <1>1, OneConnector DEF Inv, Allocated, AnsweredOK
<1>3. Types'
  BY <1>2 DEF Inv, Types
<1>4. CallsOK'
  <2>1. Updates' = Updates \ {call}
    BY DEF Updates
  <2>2. \A x, y \in Updates : x.conn = y.conn => x = y
    BY DEF Inv, CallsOK
  <2>3. \A d \in Connectors : conn[d].updating <=> \E x \in Updates : x.conn = d
    BY DEF Inv, CallsOK
  <2>4. ASSUME NEW d \in Connectors PROVE conn'[d].updating <=> \E x \in Updates' : x.conn = d
    <3>1. CASE d # c
      BY <1>1, <1>2, <2>1, <2>3, <3>1
    <3>2. CASE d = c /\ call \in Updates
      BY <1>1, <1>2, <2>1, <2>2, <3>2 DEF AnsweredOK
    <3>3. CASE d = c /\ call \notin Updates
      BY <1>1, <1>2, <2>1, <2>3, <3>3 DEF AnsweredOK
    <3> QED BY <3>1, <3>2, <3>3
  <2>5. proc' # "up" => calls' = {}
    BY DEF Inv, CallsOK
  <2> QED BY <2>1, <2>2, <2>4, <2>5 DEF CallsOK
<1> QED BY <1>2, <1>3, <1>4 DEF Inv, Allocated

LEMMA KafkaConnectStepInv ==
    ASSUME Inv, NEW call \in calls, KafkaConnectStep(call) PROVE Inv'
<1>1. /\ UNCHANGED <<metastore, oplog, proc, valid, pos, token, owner>>
      /\ UNCHANGED <<awaited, silent, sameTime, raced>>
      /\ Answer(call) \/ CallFails(call)
  BY DEF KafkaConnectStep, AnswerArrives, mongo, stream
<1>2. PICK c \in Connectors, pipeline \in SUBSET Buckets, resume \in Nat :
        c = call.conn /\ pipeline = call.pipeline /\ resume = call.resume
  BY DEF Inv, Types, Calls
<1>3. /\ conn[c] \in ConnectorStates /\ Tracked(conn[c], sameTime)
      /\ conn[c].pipeline \in SUBSET Buckets /\ conn[c].resume \in Nat
      /\ conn \in [Connectors -> ConnectorStates] /\ kafka \in [Connectors -> Configurations]
      /\ call.kind \in {"create", "delete", "check", "put"}
  BY DEF Inv, Types, AssignmentOK, Effective, Settling, ConnectorStates, Calls
<1>4. call \in Updates <=> call.kind \in {"check", "put"}
  BY DEF Updates
<1>5. call \in Updates => conn[c].updating
  BY <1>2 DEF Inv, CallsOK
(* The connector as it is, when it is not told *)
<1>6. conn' = conn => conn' = [conn EXCEPT ![call.conn] = conn[c]]
  BY <1>2, <1>3
<1>7. call \notin Updates => AnsweredOK(call, conn[c])
  BY <1>2, <1>3 DEF AnsweredOK, ConnectorStates
<1>8. AnsweredOK(call, UpdateFailed(conn[c])) \/ call \notin Updates
  <2>1. PICK k : k = UpdateFailed(conn[c])
    OBVIOUS
  <2>2. /\ k \in ConnectorStates /\ k.buckets = conn[c].buckets /\ k.modified = TRUE
        /\ k.updating = FALSE
    BY <1>3, <2>1 DEF UpdateFailed, ConnectorStates
  <2>3. Tracked(k, sameTime)
    BY <2>2 DEF Tracked
  <2> QED BY <1>2, <2>1, <2>2, <2>3 DEF AnsweredOK
<1>9. CASE CreateConnector(call)
  <2>1. PICK k : k = IF kafka[c].exists THEN conn[c] ELSE [conn[c] EXCEPT !.running = TRUE]
    OBVIOUS
  <2>2. /\ k \in ConnectorStates /\ k.buckets = conn[c].buckets /\ k.updating = conn[c].updating
        /\ k.modified = conn[c].modified /\ k.later = conn[c].later /\ k.pipeline = conn[c].pipeline
    BY <1>3, <2>1 DEF ConnectorStates
  <2>3. AnsweredOK(call, k)
    BY <1>2, <1>3, <1>4, <1>9, <2>2 DEF AnsweredOK, Tracked, CreateConnector, ConnectorStates
  <2>4. conn' = [conn EXCEPT ![call.conn] = k] /\ calls' = calls \ {call}
    BY <1>2, <1>3, <1>6, <1>9, <2>1 DEF CreateConnector, Answered
  <2>5. kafka' \in [Connectors -> Configurations]
    <3>1. kafka' = kafka \/ Configured(c, pipeline, resume)
      BY <1>2, <1>9 DEF CreateConnector, Created
    <3> QED BY <1>3, <3>1, ConfiguredOK DEF Inv
  <2> QED BY <1>1, <2>3, <2>4, <2>5, AnswerInv
<1>10. CASE DeleteConnector(call)
  <2>1. PICK k : k = IF kafka[c].exists THEN [conn[c] EXCEPT !.running = FALSE, !.resume = NoDate]
                     ELSE conn[c]
    OBVIOUS
  <2>2. /\ k \in ConnectorStates /\ k.buckets = conn[c].buckets /\ k.updating = conn[c].updating
        /\ k.modified = conn[c].modified /\ k.later = conn[c].later /\ k.pipeline = conn[c].pipeline
    BY <1>3, <2>1 DEF ConnectorStates, NoDate
  <2>3. AnsweredOK(call, k)
    BY <1>2, <1>3, <1>4, <1>10, <2>2 DEF AnsweredOK, Tracked, DeleteConnector, ConnectorStates
  <2>4. conn' = [conn EXCEPT ![call.conn] = k] /\ calls' = calls \ {call}
    BY <1>2, <1>3, <1>6, <1>10, <2>1 DEF DeleteConnector, Answered
  <2>5. kafka' \in [Connectors -> Configurations]
    <3>1. kafka' = kafka \/ kafka' = [kafka EXCEPT ![c] = Absent]
      BY <1>2, <1>10 DEF DeleteConnector
    <3> QED BY <1>3, <3>1, DroppedOK DEF Inv
  <2> QED BY <1>1, <2>3, <2>4, <2>5, AnswerInv
<1>11. CASE CheckConnector(call)
  <2>0. kafka' = kafka /\ call.kind = "check"
    BY <1>11 DEF CheckConnector
  <2>1. CASE kafka[c].exists
    <3>1. PICK put : put = [call EXCEPT !.kind = "put"]
      OBVIOUS
    <3>2. put \in Calls /\ put.kind = "put" /\ put.conn = c
      BY <1>2, <3>1 DEF Inv, Types, Calls
    <3>3. calls' = (calls \ {call}) \cup {put} /\ conn' = conn
      BY <1>2, <1>11, <2>1, <3>1 DEF CheckConnector
    <3>4. Types'
      BY <1>1, <2>0, <3>2, <3>3 DEF Inv, Types
    <3>5. Allocated'
      BY <1>1, <3>3, SameAllocation DEF Inv, Allocated
    <3>6. CallsOK'
      <4>1. Updates' = (Updates \ {call}) \cup {put} /\ call \in Updates
        BY <1>4, <2>0, <3>2, <3>3 DEF Updates
      <4>2. /\ \A x, y \in Updates : x.conn = y.conn => x = y
            /\ \A d \in Connectors : conn[d].updating <=> \E x \in Updates : x.conn = d
        BY DEF Inv, CallsOK
      <4>3. \A x, y \in Updates' : x.conn = y.conn => x = y
        BY <1>2, <3>2, <4>1, <4>2
      <4>4. \A d \in Connectors : conn'[d].updating <=> \E x \in Updates' : x.conn = d
        <5> SUFFICES ASSUME NEW d \in Connectors
                     PROVE  conn[d].updating <=> \E x \in Updates' : x.conn = d
          BY <3>3
        <5>1. CASE d = c
          BY <1>2, <3>2, <4>1, <4>2, <5>1
        <5>2. CASE d # c
          BY <1>2, <3>2, <4>1, <4>2, <5>2
        <5> QED BY <5>1, <5>2
      <4>5. proc' # "up" => calls' = {}
        BY <1>1 DEF Inv, CallsOK
      <4> QED BY <4>3, <4>4, <4>5 DEF CallsOK
    <3> QED BY <3>4, <3>5, <3>6 DEF Inv, Allocated
  <2>2. CASE ~kafka[c].exists
    <3>1. PICK k : k = UpdateFailed(conn[c])
      OBVIOUS
    <3>2. conn' = [conn EXCEPT ![call.conn] = k] /\ calls' = calls \ {call}
      BY <1>2, <1>11, <2>2, <3>1 DEF CheckConnector, Answered
    <3>3. AnsweredOK(call, k)
      BY <1>4, <1>8, <2>0, <3>1
    <3> QED BY <1>1, <1>3, <2>0, <3>2, <3>3, AnswerInv
  <2> QED BY <2>1, <2>2
<1>12. CASE PutConnectorConfig(call)
  <2>0. call.kind = "put" /\ call \in Updates /\ calls' = calls \ {call}
    BY <1>4, <1>12 DEF PutConnectorConfig, Answered
  <2>1. PICK k : k = [conn[c] EXCEPT !.updating = FALSE, !.later = FALSE,
                                     !.modified = conn[c].modified /\ conn[c].later]
    OBVIOUS
  <2>2. conn' = [conn EXCEPT ![call.conn] = k]
    BY <1>2, <1>3, <1>12, <2>1 DEF PutConnectorConfig
  <2>3. /\ k \in ConnectorStates /\ k.buckets = conn[c].buckets /\ k.updating = FALSE
        /\ k.modified = (conn[c].modified /\ conn[c].later) /\ k.pipeline = conn[c].pipeline
    BY <1>3, <2>1 DEF ConnectorStates
  <2>4. Tracked(k, sameTime)
    BY <1>3, <1>5, <2>0, <2>3 DEF Tracked
  <2>5. AnsweredOK(call, k)
    BY <1>2, <2>0, <2>3, <2>4 DEF AnsweredOK
  <2>6. kafka' \in [Connectors -> Configurations]
    <3>1. PICK p \in SUBSET Buckets, r \in Nat : Configured(c, p, r)
      BY <1>2, <1>3, <1>12 DEF PutConnectorConfig
    <3> QED BY <3>1, ConfiguredOK DEF Inv
  <2> QED BY <1>1, <2>0, <2>2, <2>5, <2>6, AnswerInv
<1>13. CASE CallFails(call)
  <2>1. kafka' \in [Connectors -> Configurations]
    <3>1. \/ kafka' = kafka \/ kafka' = [kafka EXCEPT ![c] = Absent]
          \/ \E p \in SUBSET Buckets, r \in Nat : Configured(c, p, r)
      BY <1>2, <1>3, <1>13 DEF CallFails, Created
    <3> QED BY <1>3, <3>1, ConfiguredOK, DroppedOK DEF Inv
  <2>2. calls' = calls \ {call}
    BY <1>13 DEF CallFails, Answered
  <2>3. PICK k : k = IF call \in Updates THEN UpdateFailed(conn[c]) ELSE conn[c]
    OBVIOUS
  <2>4. AnsweredOK(call, k)
    BY <1>7, <1>8, <2>3
  <2>5. conn' = [conn EXCEPT ![call.conn] = k]
    BY <1>2, <1>4, <1>6, <1>13, <2>3 DEF CallFails
  <2> QED BY <1>1, <2>1, <2>2, <2>4, <2>5, AnswerInv
<1> QED BY <1>1, <1>9, <1>10, <1>11, <1>12, <1>13 DEF Answer

LEMMA NoAnswerInv ==
    ASSUME Inv, NEW c \in Connectors, NoAnswer(c) PROVE Inv'
<1>1. /\ UNCHANGED <<metastore, oplog, proc, valid, pos, token, owner, conn, awaited, calls, kafka>>
      /\ UNCHANGED <<sameTime, raced>> /\ silent' = silent \cup {c}
  BY DEF NoAnswer, mongo, stream, memory, history
<1>2. Types'
  BY <1>1 DEF Inv, Types
<1>3. Allocated'
  BY <1>1, SameAllocation DEF Inv, Allocated
<1>4. CallsOK'
  BY <1>1 DEF Inv, CallsOK, Updates
<1> QED BY <1>2, <1>3, <1>4 DEF Inv, Allocated

LEMMA RestartInv ==
    ASSUME Inv, Restart PROVE Inv'
<1>1. NewConnector \in ConnectorStates /\ Tracked(NewConnector, FALSE) /\ ~NewConnector.updating
  BY DEF NewConnector, ConnectorStates, NoDate, Tracked
<1>2. /\ UNCHANGED <<metastore, oplog, kafka>>
      /\ proc' = "down" /\ valid' = {} /\ pos' = 0 /\ token' = 0 /\ calls' = {} /\ sameTime' = FALSE
      /\ raced' = FALSE /\ silent' = {} /\ awaited' = [b \in Buckets |-> <<>>]
      /\ owner' = [b \in Buckets |-> NoConnector] /\ conn' = [c \in Connectors |-> NewConnector]
  BY DEF Restart, mongo
<1>3. Types'
  <2>1. owner' \in [Buckets -> 0..NbConnectors]
    BY <1>2, OplogAssumption DEF NoConnector
  <2>2. conn' \in [Connectors -> ConnectorStates]
    BY <1>1, <1>2
  <2>3. Len(oplog) \in Nat /\ oplog \in Seq(Events)
    BY DEF Inv, Types
  <2>4. token' \in 0..Len(oplog') /\ pos' \in 0..(Len(oplog') + 1)
    BY <1>2, <2>3
  <2>5. proc' \in {"down", "connected", "listed", "up"} /\ (proc' = "up" => pos' # 0)
    BY <1>2
  <2>6. valid' \subseteq Buckets /\ calls' \subseteq Calls /\ sameTime' \in BOOLEAN
    BY <1>2
  <2>7. /\ awaited' \in [Buckets -> Seq(0..NbConnectors)] /\ \A b \in Buckets : awaited'[b] = <<>>
        /\ silent' \subseteq Connectors /\ raced' \in BOOLEAN /\ ~raced'
    <3>1. <<>> \in Seq(0..NbConnectors)
      OBVIOUS
    <3> QED BY <1>2, <3>1
  <2> QED BY <1>2, <2>1, <2>2, <2>4, <2>5, <2>6, <2>7 DEF Inv, Types
<1>4. Allocated'
  BY <1>1, <1>2 DEF Allocated, Effective, Settling, AssignmentOK, Owned
<1>5. CallsOK'
  BY <1>1, <1>2 DEF CallsOK, Updates
<1> QED BY <1>3, <1>4, <1>5 DEF Inv, Allocated

LEMMA StutterInv ==
    ASSUME Inv, UNCHANGED vars PROVE Inv'
<1>1. UNCHANGED <<metastore, oplog, proc, valid, pos, token, owner, conn, awaited, calls, kafka, silent,
                sameTime, raced>>
  BY DEF vars
<1>2. Allocated'
  BY <1>1, SameAllocation DEF Inv, Allocated
<1> QED BY <1>1, <1>2 DEF Inv, Types, Allocated, CallsOK, Updates

LEMMA NextInv ==
    ASSUME Inv, [Next]_vars PROVE Inv'
<1>1. ASSUME NEW b \in Buckets, NEW to \in {"none", "off", "on"}, ChangeBucket(b, to) PROVE Inv'
  BY <1>1, ChangeBucketInv
<1>2. CASE InitializeConnectors
  BY <1>2, InitializeConnectorsInv
<1>3. CASE GetBackbeatEnabledBuckets
  BY <1>3, GetBackbeatEnabledBucketsInv
<1>4. CASE SetMetastoreChangeStream
  BY <1>4, SetMetastoreChangeStreamInv
<1>5. CASE HandleChangeStreamChangeEvent
  BY <1>5, HandleChangeStreamChangeEventInv
<1>6. CASE HandleChangeStreamErrorEvent
  BY <1>6, HandleChangeStreamErrorEventInv
<1>7. ASSUME NEW c \in Connectors, UpdateConnector(c) PROVE Inv'
  BY <1>7, UpdateConnectorInv
<1>8. ASSUME NEW call \in calls, KafkaConnectStep(call) PROVE Inv'
  BY <1>8, KafkaConnectStepInv
<1>9. CASE Restart
  BY <1>9, RestartInv
<1>10. CASE UNCHANGED vars
  BY <1>10, StutterInv
<1>11. ASSUME NEW b \in Buckets, SetBucketsToConnectors(b) PROVE Inv'
  BY <1>11, SetBucketsToConnectorsInv
<1>12. ASSUME NEW c \in Connectors, NoAnswer(c) PROVE Inv'
  BY <1>12, NoAnswerInv
<1> QED BY <1>1, <1>2, <1>3, <1>4, <1>5, <1>6, <1>7, <1>8, <1>9, <1>10, <1>11, <1>12 DEF Next

-----------------------------------------------------------------------------
(* The theorem *)

(* A bucket is owned by a connector that has it unless its handler waits or two of
   its events raced, a connector without changes to send has its buckets in its
   pipeline unless one changed in the millisecond its update started, and an
   update is in flight exactly when the connector says so
   (Connector.addBucket, removeBucket, updatePipeline, _updateConnectorState).  *)
THEOREM TypeCorrect == Spec => []TypeOK
<1>1. Init => Inv
  BY InitInv
<1>2. Inv /\ [Next]_vars => Inv'
  BY NextInv
<1>3. Inv => TypeOK
  BY InvImpliesTypeOK
<1> QED BY <1>1, <1>2, <1>3, PTL DEF Spec

-----------------------------------------------------------------------------
(* What is published once the populator has nothing left to do *)

(* Kafka Connect has the pipeline of a connector without changes to send *)
Sent(kc, k) == kc.exists /\ ~k.modified => kc.pipeline = k.pipeline

AllSent == \A c \in Connectors : Sent(kafka[c], conn[c])

(* An event of the bucket is still to come *)
Pending(b) == \E i \in pos..Len(oplog) : oplog[i].bucket = b

(* The last event of a bucket tells its state *)
IsLast(log, i) == \A j \in (i + 1)..Len(log) : log[j].bucket # log[i].bucket

LastEventsOK ==
    \A i \in 1..Len(oplog) :
        IsLast(oplog, i) => oplog[i].to = metastore[oplog[i].bucket]

(* The buckets listed, then those with a connector, are the enabled ones but for
   the events to come.                                                         *)
FollowedBy(S) == \A b \in Buckets : Pending(b) \/ (b \in S <=> metastore[b] = "on")

Followed ==
    /\ proc = "listed" => pos # 0 /\ FollowedBy(valid)
    /\ proc = "up" => missed \/ raced \/ FollowedBy(Taken(Effective))

Flags == {missed, doubled, overtaken, raced} \subseteq BOOLEAN

(* ListensWhenSettled relates the buckets of Mongo to those of Kafka Connect, at
   the end of a chain that every step keeps unless two events of a bucket race:
   bucket, event, owner, connector, pipeline.                                                                   *)
Chain ==
    /\ Flags
    /\ doubled \/ raced \/ Single(Effective)
    /\ overtaken \/ AllSent
    /\ LastEventsOK /\ Followed

LEMMA ChainImpliesListens ==
    ASSUME Inv, Chain PROVE ListensWhenSettled
<1> SUFFICES ASSUME Settled, ~missed, ~sameTime, ~doubled, ~overtaken, ~raced, ~Disagree
             PROVE  ListensToEnabledBuckets
  BY DEF ListensWhenSettled, Excepted
<1>1. Taken(Effective) = Enabled
  <2>1. \A b \in Buckets : ~Pending(b)
    BY DEF Settled, Pending, Inv, Types
  <2>2. FollowedBy(Taken(Effective))
    BY DEF Chain, Followed, Settled
  <2>3. Taken(Effective) \subseteq Buckets /\ Enabled \subseteq Buckets
    BY DEF Taken, Enabled
  <2>4. \A b \in Buckets : b \in Taken(Effective) <=> b \in Enabled
    BY <2>1, <2>2 DEF FollowedBy, Enabled
  <2> QED BY <2>3, <2>4
<1>a. PICK o \in [Buckets -> 0..NbConnectors] :
        o = Effective.owner /\ Effective.conn = conn
  BY EffectiveType DEF Inv, Assignments, Effective, Settling
<1>2. \A b \in Buckets, c \in Connectors : b \in conn[c].buckets <=> o[b] = c
  <2>1. \A b \in Buckets, c \in Connectors : b \in conn[c].buckets => o[b] = c
    BY <1>a DEF Chain, Single
  <2>2. \A b \in Buckets : o[b] # NoConnector => b \in conn[o[b]].buckets
    BY <1>a DEF Inv, AssignmentOK, Owned
  <2>3. \A c \in Connectors : c # NoConnector
    BY OplogAssumption DEF Connectors, NoConnector
  <2> QED BY <2>1, <2>2, <2>3
<1>3. \A c \in Connectors : conn[c].buckets # {} <=> c \in Listening
  BY DEF Settled, Disagree, Listening, Inv, Types, Configurations, ConnectorStates
<1>4. \A c \in Listening : kafka[c].pipeline = conn[c].buckets
  <2> TAKE c \in Listening
  <2>1. c \in Connectors /\ kafka[c].exists /\ conn[c].running
    BY DEF Listening, Disagree, Settled, Inv, Types, Configurations, ConnectorStates
  <2>2. ~conn[c].modified
    BY <2>1 DEF Settled
  <2>3. kafka[c].pipeline = conn[c].pipeline
    BY <2>1, <2>2 DEF Chain, AllSent, Sent
  <2>4. conn[c].pipeline = conn[c].buckets
    BY <2>1, <2>2 DEF Inv, AssignmentOK, Effective, Settling, Tracked
  <2> QED BY <2>3, <2>4
<1>5. UNION {kafka[c].pipeline : c \in Listening} = Enabled
  <2>1. ASSUME NEW c \in Listening, NEW b \in kafka[c].pipeline PROVE b \in Enabled
    <3>1. c \in Connectors /\ b \in conn[c].buckets /\ b \in Buckets
      BY <1>4, <2>1 DEF Listening, Inv, Types, ConnectorStates
    <3>2. o[b] = c /\ c # NoConnector
      BY <1>2, <3>1, OplogAssumption DEF Connectors, NoConnector
    <3> QED BY <1>1, <1>a, <3>1, <3>2 DEF Taken
  <2>2. ASSUME NEW b \in Enabled PROVE \E c \in Listening : b \in kafka[c].pipeline
    <3>1. b \in Buckets /\ o[b] # NoConnector
      BY <1>1, <1>a DEF Taken
    <3>2. PICK c \in Connectors : c = o[b]
      BY <3>1, OplogAssumption DEF Connectors, NoConnector
    <3>3. b \in conn[c].buckets
      BY <1>2, <3>1, <3>2
    <3>4. c \in Listening
      BY <1>3, <3>3
    <3> QED BY <1>4, <3>3, <3>4
  <2> QED BY <2>1, <2>2
<1>6. ASSUME NEW c \in Listening, NEW d \in Listening, c # d
      PROVE  kafka[c].pipeline \cap kafka[d].pipeline = {}
  <2>1. c \in Connectors /\ d \in Connectors
    BY DEF Listening
  <2>2. conn[c].buckets \subseteq Buckets
    BY <2>1 DEF Inv, Types, ConnectorStates
  <2>3. \A b \in Buckets : ~(b \in conn[c].buckets /\ b \in conn[d].buckets)
    BY <1>2, <1>6, <2>1
  <2> QED BY <1>4, <2>2, <2>3
<1> QED BY <1>5, <1>6 DEF ListensToEnabledBuckets

LEMMA InitChain ==
    ASSUME Init PROVE Chain
<1>1. Single(Effective)
  BY DEF Init, Single, Effective, Settling, NewConnector
<1>2. AllSent
  BY DEF Init, AllSent, Sent, NewConnector
<1>3. LastEventsOK /\ Followed /\ Flags
  <2>1. Len(oplog) = 0 /\ proc = "down"
    BY DEF Init
  <2>2. Flags
    BY DEF Init, Flags
  <2> QED BY <2>1, <2>2 DEF LastEventsOK, Followed
<1> QED BY <1>1, <1>2, <1>3 DEF Chain

(* A step of Kafka Connect or of the cron job changes no bucket and no event *)
LEMMA SameFollowed ==
    ASSUME LastEventsOK, Followed, UNCHANGED <<metastore, oplog, proc, valid, pos>>, UNCHANGED <<missed, raced>>,
           Effective' = Effective \/ UNCHANGED <<owner, awaited>>
    PROVE  LastEventsOK' /\ Followed'
<1>1. LastEventsOK'
  BY DEF LastEventsOK, IsLast
<1>2. Taken(Effective)' = Taken(Effective)
  BY DEF Taken, Effective, Settling
<1>3. Followed'
  BY <1>2 DEF Followed, FollowedBy, Pending
<1> QED BY <1>1, <1>3

LEMMA ChangeBucketChain ==
    ASSUME Inv, Chain, NEW b \in Buckets, NEW to \in {"none", "off", "on"}, ChangeBucket(b, to)
    PROVE  Chain'
<1>1. PICK e \in Events :
        /\ e.bucket = b /\ e.to = to /\ oplog' = Append(oplog, e)
        /\ metastore' = [metastore EXCEPT ![b] = to]
        /\ UNCHANGED <<proc, valid, pos, owner, conn, awaited, kafka, missed, doubled, overtaken, raced>>
  <2>1. PICK e : e = [bucket |-> b, to |-> to, op |-> IF to = "none" THEN "delete"
                                                    ELSE IF metastore[b] = "none" THEN "insert"
                                                    ELSE "update"]
    OBVIOUS
  <2>2. e \in Events /\ e.bucket = b /\ e.to = to
    BY <2>1 DEF Events
  <2> QED BY <2>1, <2>2 DEF ChangeBucket, stream, memory, kafkaConnect, history
<1>2. PICK n \in Nat : n = Len(oplog) /\ oplog \in Seq(Events)
  BY DEF Inv, Types
<1>3. /\ Len(oplog') = n + 1 /\ oplog'[n + 1] = e
      /\ \A i \in 1..n : oplog'[i] = oplog[i] /\ oplog[i].bucket \in Buckets
  <2>1. Len(oplog') = n + 1 /\ oplog'[n + 1] = e /\ \A i \in 1..n : oplog'[i] = oplog[i]
    BY <1>1, <1>2
  <2>2. \A i \in 1..n : oplog[i] \in Events
    BY <1>2
  <2> QED BY <2>1, <2>2 DEF Events
<1>4. \A d \in Buckets : metastore'[d] = IF d = b THEN to ELSE metastore[d]
  BY <1>1 DEF Inv, Types
<1>5. LastEventsOK'
  <2> SUFFICES ASSUME NEW i \in 1..n + 1, IsLast(oplog', i)
               PROVE  oplog'[i].to = metastore'[oplog'[i].bucket]
    BY <1>3 DEF LastEventsOK
  <2>1. CASE i = n + 1
    BY <1>1, <1>3, <1>4, <2>1
  <2>2. CASE i # n + 1
    <3>1. i \in 1..n /\ n + 1 \in (i + 1)..(n + 1)
      BY <1>2, <2>2
    <3>2. oplog[i].bucket # b
      BY <1>1, <1>3, <3>1 DEF IsLast
    <3>3. IsLast(oplog, i)
      <4> SUFFICES ASSUME NEW j \in (i + 1)..n PROVE oplog[j].bucket # oplog[i].bucket
        BY <1>2 DEF IsLast
      <4>1. j \in 1..n /\ j \in (i + 1)..(n + 1)
        BY <1>2, <3>1
      <4> QED BY <1>3, <3>1, <4>1 DEF IsLast
    <3>4. oplog[i].to = metastore[oplog[i].bucket]
      BY <1>2, <3>1, <3>3 DEF Chain, LastEventsOK
    <3> QED BY <1>3, <1>4, <3>1, <3>2, <3>4
  <2> QED BY <2>1, <2>2
<1>6. ASSUME NEW S, FollowedBy(S), pos # 0
      PROVE  \A d \in Buckets : Pending(d)' \/ (d \in S <=> metastore'[d] = "on")
  <2> TAKE d \in Buckets
  <2>0. pos \in 1..n + 1
    BY <1>2, <1>6 DEF Inv, Types
  <2>1. CASE d = b
    <3>1. n + 1 \in pos..(n + 1)
      BY <1>2, <2>0
    <3> QED BY <1>1, <1>3, <2>1, <3>1 DEF Pending
  <2>2. CASE Pending(d)
    <3>1. PICK i \in pos..n : oplog[i].bucket = d
      BY <1>2, <2>2 DEF Pending
    <3>2. i \in 1..n /\ i \in pos..(n + 1)
      BY <1>2, <2>0
    <3> QED BY <1>1, <1>3, <3>1, <3>2 DEF Pending
  <2>3. CASE d # b /\ ~Pending(d)
    BY <1>4, <1>6, <2>3 DEF FollowedBy
  <2> QED BY <2>1, <2>2, <2>3
<1>7. Followed'
  <2>1. ASSUME proc = "listed" PROVE pos # 0 /\ FollowedBy(valid)'
    BY <1>1, <1>6, <2>1 DEF Chain, Followed, FollowedBy
  <2>2. ASSUME proc = "up", ~missed, ~raced PROVE FollowedBy(Taken(Effective))'
    <3>1. PICK S : S = Taken(Effective) /\ S = Taken(Effective)'
      BY <1>1 DEF Taken, Effective, Settling
    <3>2. FollowedBy(S) /\ pos # 0
      BY <2>2, <3>1 DEF Chain, Followed, Inv, Types
    <3> QED BY <1>6, <3>1, <3>2 DEF FollowedBy
  <2> QED BY <1>1, <2>1, <2>2 DEF Followed
<1>8. Flags' /\ (doubled' \/ raced' \/ Single(Effective)') /\ (overtaken' \/ AllSent')
  BY <1>1 DEF Chain, Flags, Single, Effective, Settling, AllSent
<1> QED BY <1>5, <1>7, <1>8 DEF Chain

LEMMA InitializeConnectorsChain ==
    ASSUME Inv, Chain, InitializeConnectors PROVE Chain'
<1> DEFINE old(c) == [NewConnector EXCEPT !.buckets = kafka[c].pipeline, !.running = TRUE,
                                          !.pipeline = kafka[c].pipeline, !.resume = kafka[c].resume]
           cs == [c \in Connectors |-> IF kafka[c].exists THEN old(c) ELSE NewConnector]
           holders(b) == {c \in Connectors : b \in cs[c].buckets}
<1>1. /\ conn' = cs
      /\ owner' = [b \in Buckets |-> IF holders(b) = {} THEN NoConnector
                                     ELSE CHOOSE c \in holders(b) : \A d \in holders(b) : d <= c]
      /\ doubled' = \E b \in Buckets : Cardinality(holders(b)) > 1
      /\ proc' = "connected"
      /\ UNCHANGED <<metastore, oplog, awaited, missed, overtaken, raced>>
  BY DEF InitializeConnectors, mongo
<1>2. \A c \in Connectors : cs[c].modified
  BY DEF NewConnector
<1> HIDE DEF cs
<1>3. ASSUME ~doubled', NEW b \in Buckets, NEW c \in Connectors, b \in cs[c].buckets
      PROVE  owner'[b] = c
  <2>1. PICK H : H = holders(b)
    OBVIOUS
  <2>2. H \subseteq Connectors /\ c \in H /\ ~(Cardinality(H) > 1)
    BY <1>1, <1>3, <2>1
  <2>3. IsFiniteSet(H) /\ Cardinality(H) \in Nat
    <3>1. IsFiniteSet(Connectors)
      BY OplogAssumption, FS_Interval DEF Connectors
    <3> QED BY <2>2, <3>1, FS_Subset, FS_CardinalityType
  <2>4. H = {c}
    <3>1. Cardinality(H) # 0
      BY <2>2, <2>3, FS_EmptySet
    <3>2. Cardinality(H) = 1
      BY <2>2, <2>3, <3>1
    <3>3. PICK x : H = {x}
      BY <2>3, <3>2, FS_Singleton
    <3> QED BY <2>2, <3>3
  <2>5. c <= c
    BY OplogAssumption DEF Connectors
  <2>6. owner'[b] = IF H = {} THEN NoConnector ELSE CHOOSE d \in H : \A e \in H : e <= d
    BY <1>1, <2>1
  <2>7. owner'[b] \in H
    <3>1. \E d \in H : \A e \in H : e <= d
      BY <2>4, <2>5
    <3> QED BY <2>2, <2>6, <3>1
  <2> QED BY <2>4, <2>7
<1>4. doubled' \/ raced' \/ Single(Effective)'
  <2>1. \A b \in Buckets : awaited'[b] = <<>>
    BY <1>1 DEF InitializeConnectors, Inv, Types
  <2> QED BY <1>1, <1>3, <2>1 DEF Single, Effective, Settling
<1>5. AllSent'
  BY <1>1, <1>2 DEF AllSent, Sent
<1>6. LastEventsOK' /\ Followed'
  BY <1>1 DEF Chain, LastEventsOK, IsLast, Followed
<1>7. doubled' \in BOOLEAN
  <2> HIDE DEF holders
  <2> QED BY <1>1
<1>8. Flags'
  BY <1>1, <1>7 DEF Chain, Flags
<1> QED BY <1>4, <1>5, <1>6, <1>8 DEF Chain

LEMMA GetBackbeatEnabledBucketsChain ==
    ASSUME Inv, Chain, GetBackbeatEnabledBuckets PROVE Chain'
<1>1. /\ UNCHANGED <<metastore, oplog, owner, conn, awaited, kafka, missed, doubled, overtaken, raced>>
      /\ valid' = Enabled /\ pos' = Len(oplog) + 1 /\ proc' = "listed"
  BY DEF GetBackbeatEnabledBuckets, mongo, memory, kafkaConnect, history
<1>2. Flags' /\ (doubled' \/ raced' \/ Single(Effective)') /\ (overtaken' \/ AllSent')
  BY <1>1 DEF Chain, Flags, Single, Effective, Settling, AllSent
<1>3. LastEventsOK'
  BY <1>1 DEF Chain, LastEventsOK, IsLast
<1>4. pos' # 0
  BY <1>1 DEF Inv, Types
<1>5. FollowedBy(valid)'
  BY <1>1 DEF FollowedBy, Enabled
<1> QED BY <1>1, <1>2, <1>3, <1>4, <1>5 DEF Chain, Followed

LEMMA SetMetastoreChangeStreamChain ==
    ASSUME Inv, Chain, SetMetastoreChangeStream PROVE Chain'
<1>1. /\ UNCHANGED <<metastore, oplog, awaited, kafka, doubled, overtaken, raced>>
      /\ proc = "listed" /\ proc' = "up" /\ missed' = (pos <= Len(oplog))
      /\ Assign(ListenToValidBuckets)
  BY DEF SetMetastoreChangeStream, mongo, kafkaConnect
<1>2. PICK st \in BOOLEAN : st = sameTime
  BY DEF Inv, Types
<1>a. \A b \in Buckets : awaited[b] = <<>> /\ awaited'[b] = <<>>
  BY <1>1 DEF Inv, Types
<1>b. Effective = Assignment /\ ~raced
  BY <1>1, <1>a, HandlersGone DEF Inv, Types, Effective, Assignment
<1>3. Assignment \in SetUps(st)
  <2>1. AssignmentOK(Assignment, st, FALSE)
    BY <1>2, <1>b DEF Inv, AssignmentOK
  <2> QED BY <1>1, <2>1, AssignmentType DEF Inv, CallsOK, Updates, SetUps, Quiet, Assignment
<1>4. PICK a : a = ListenToValidBuckets
  OBVIOUS
<1>5. /\ Taken(a) = valid /\ Marked(Assignment, a) /\ (Single(Assignment) => Single(a))
      /\ owner' = a.owner /\ conn' = a.conn
  <2>1. valid \subseteq Buckets
    BY DEF Inv, Types
  <2> QED BY <1>1, <1>3, <1>4, <2>1, ListenToValidBucketsOK DEF Assign
<1>6. doubled' \/ raced' \/ Single(Effective)'
  <2>1. Single(a) => Single(Effective)'
    BY <1>5, <1>a DEF Single, Effective, Settling
  <2> QED BY <1>1, <1>5, <1>b, <2>1 DEF Chain
<1>7. overtaken' \/ AllSent'
  BY <1>1, <1>5 DEF Chain, AllSent, Sent, Marked, Assignment
<1>8. LastEventsOK'
  BY <1>1 DEF Chain, LastEventsOK, IsLast
<1>9. missed' \/ FollowedBy(Taken(Effective))'
  <2> SUFFICES ASSUME ~(pos <= Len(oplog)) PROVE FollowedBy(Taken(Effective))'
    BY <1>1
  <2>1. \A b \in Buckets : ~Pending(b)
    BY DEF Pending, Inv, Types
  <2>2. \A b \in Buckets : b \in valid <=> metastore[b] = "on"
    BY <1>1, <2>1 DEF Chain, Followed, FollowedBy
  <2>3. Taken(Effective)' = valid
    BY <1>5, <1>a DEF Taken, Effective, Settling
  <2> QED BY <1>1, <2>2, <2>3 DEF FollowedBy
<1>10. Flags'
  BY <1>1 DEF Chain, Flags
<1> QED BY <1>1, <1>6, <1>7, <1>8, <1>9, <1>10 DEF Chain, Followed

LEMMA HandleChangeStreamChangeEventChain ==
    ASSUME Inv, Chain, HandleChangeStreamChangeEvent PROVE Chain'
<1>1. /\ proc = "up" /\ pos <= Len(oplog) /\ pos' = pos + 1
      /\ UNCHANGED <<metastore, oplog, proc, kafka, missed, doubled, overtaken>>
  BY DEF HandleChangeStreamChangeEvent, mongo, kafkaConnect
<1>2. PICK b \in Buckets, document \in {"none", "off", "on"}, date \in Nat, later \in BOOLEAN :
        /\ b = oplog[pos].bucket /\ document \in Documents(pos)
        /\ conn' = HandleOn(Assignment, b, document, date, later).conn
        /\ raced' = (raced \/ awaited[b] # <<>>)
        /\ awaited[b] = <<>> => Effective' = HandleOn(Effective, b, document, date, later)
  <2>1. Types
    BY DEF Inv
  <2> QED BY <2>1, EventHandled, Zenon
<1>3. PICK n \in Nat : n = Len(oplog) /\ oplog \in Seq(Events) /\ pos \in 1..n
  BY <1>1 DEF Inv, Types
<1>4. Assignment \in Assignments /\ Effective \in Assignments
  BY AssignmentType, EffectiveType DEF Inv
<1>5. PICK a : a = HandleOn(Assignment, b, document, date, later)
  OBVIOUS
<1>6. overtaken' \/ AllSent'
  <2>1. Marked(Assignment, a)
    BY <1>4, <1>5, HandleOnEffect
  <2> QED BY <1>1, <1>2, <1>5, <2>1 DEF Chain, AllSent, Sent, Marked, Assignment
<1>7. ASSUME ~raced'
      PROVE  /\ Taken(Effective)' = IF document = "on" THEN Taken(Effective) \cup {b}
                                    ELSE Taken(Effective) \ {b}
             /\ Single(Effective) => Single(Effective)'
  <2>1. PICK t : t = HandleOn(Effective, b, document, date, later) /\ Effective' = t
    BY <1>2, <1>7
  <2>2. /\ Taken(t) = IF document = "on" THEN Taken(Effective) \cup {b} ELSE Taken(Effective) \ {b}
        /\ Single(Effective) => Single(t)
    <3>1. PICK x \in Assignments : x = Effective
      BY <1>4
    <3>2. /\ Taken(t) = IF document = "on" THEN Taken(x) \cup {b} ELSE Taken(x) \ {b}
          /\ Single(x) => Single(t)
      <4>1. t = HandleOn(x, b, document, date, later)
        BY <2>1, <3>1
      <4> QED BY <4>1, HandleOnEffect
    <3> QED BY <3>1, <3>2
  <2>3. Taken(Effective)' = Taken(t) /\ (Single(t) => Single(Effective)')
    BY <2>1 DEF Taken, Single
  <2> QED BY <2>2, <2>3
<1>8. doubled' \/ raced' \/ Single(Effective)'
  BY <1>1, <1>2, <1>7 DEF Chain
<1>9. LastEventsOK'
  BY <1>1 DEF Chain, LastEventsOK, IsLast
<1>10. ASSUME ~missed, ~raced' PROVE FollowedBy(Taken(Effective))'
  <2>1. FollowedBy(Taken(Effective))
    BY <1>1, <1>2, <1>10 DEF Chain, Followed
  <2> SUFFICES ASSUME NEW d \in Buckets, ~Pending(d)'
               PROVE  d \in Taken(Effective)' <=> metastore[d] = "on"
    BY <1>1 DEF FollowedBy
  <2>2. \A i \in (pos + 1)..n : oplog[i].bucket # d
    BY <1>1, <1>3 DEF Pending
  <2>3. CASE d # b
    <3>1. ~Pending(d)
      <4> SUFFICES ASSUME NEW i \in pos..n PROVE oplog[i].bucket # d
        BY <1>3 DEF Pending
      <4>1. i = pos \/ i \in (pos + 1)..n
        BY <1>3
      <4> QED BY <1>2, <2>2, <2>3, <4>1
    <3>2. d \in Taken(Effective) <=> metastore[d] = "on"
      BY <2>1, <3>1 DEF FollowedBy
    <3> QED BY <1>7, <1>10, <2>3, <3>2
  <2>4. CASE d = b
    <3>1. IsLast(oplog, pos)
      BY <1>2, <1>3, <2>2, <2>4 DEF IsLast
    <3>2. oplog[pos].to = metastore[b]
      BY <1>2, <1>3, <3>1 DEF Chain, LastEventsOK
    <3>3. document = oplog[pos].to
      <4>1. \A i \in pos..n : oplog[i].bucket = b => i = pos
        <5> SUFFICES ASSUME NEW i \in pos..n, i # pos PROVE oplog[i].bucket # b
          OBVIOUS
        <5>1. i \in (pos + 1)..n
          BY <1>3
        <5> QED BY <2>2, <2>4, <5>1
      <4> QED BY <1>2, <1>3, <4>1 DEF Documents
    <3> QED BY <1>7, <1>10, <2>4, <3>2, <3>3
  <2> QED BY <2>3, <2>4
<1>11. Flags'
  BY <1>1, <1>2 DEF Chain, Flags
<1> QED BY <1>1, <1>6, <1>8, <1>9, <1>10, <1>11 DEF Chain, Followed

LEMMA SetBucketsToConnectorsChain ==
    ASSUME Inv, Chain, NEW b \in Buckets, SetBucketsToConnectors(b) PROVE Chain'
<1>1. UNCHANGED <<metastore, oplog, proc, valid, pos, conn, kafka, missed, doubled, overtaken, raced>>
  BY DEF SetBucketsToConnectors, mongo, stream, kafkaConnect, history
<1>2. Effective' = Effective
  BY SameEffective DEF Inv
<1>3. LastEventsOK' /\ Followed'
  BY <1>1, <1>2, SameFollowed DEF Chain
<1>4. Flags' /\ (doubled' \/ raced' \/ Single(Effective)') /\ (overtaken' \/ AllSent')
  BY <1>1, <1>2 DEF Chain, Flags, Single, AllSent
<1> QED BY <1>3, <1>4 DEF Chain

LEMMA HandleChangeStreamErrorEventChain ==
    ASSUME Inv, Chain, HandleChangeStreamErrorEvent PROVE Chain'
<1>1. /\ UNCHANGED <<metastore, oplog, proc, owner, conn, awaited, kafka, doubled, overtaken, raced>>
      /\ proc = "up" /\ missed' = (missed \/ pos' > pos)
      /\ pos' = IF token = 0 THEN Len(oplog) + 1 ELSE token + 1
  BY DEF HandleChangeStreamErrorEvent, mongo, memory, kafkaConnect
<1>2. Flags' /\ (doubled' \/ raced' \/ Single(Effective)') /\ (overtaken' \/ AllSent')
  BY <1>1 DEF Chain, Flags, Single, Effective, Settling, AllSent
<1>3. LastEventsOK'
  BY <1>1 DEF Chain, LastEventsOK, IsLast
<1>4. ASSUME ~missed', ~raced PROVE FollowedBy(Taken(Effective))'
  <2>1. FollowedBy(Taken(Effective)) /\ ~(pos' > pos)
    BY <1>1, <1>4 DEF Chain, Followed
  <2>2. Taken(Effective)' = Taken(Effective)
    BY <1>1 DEF Taken, Effective, Settling
  <2>3. pos' \in Nat /\ pos \in Nat /\ Len(oplog) \in Nat
    BY <1>1 DEF Inv, Types
  <2>4. \A b \in Buckets : Pending(b) => Pending(b)'
    BY <1>1, <2>1, <2>3 DEF Pending
  <2> QED BY <1>1, <2>1, <2>2, <2>4 DEF FollowedBy
<1> QED BY <1>1, <1>2, <1>3, <1>4 DEF Chain, Followed

LEMMA UpdateConnectorChain ==
    ASSUME Inv, Chain, NEW c \in Connectors, UpdateConnector(c) PROVE Chain'
<1>1. /\ UNCHANGED <<metastore, oplog, proc, valid, pos, owner, awaited, kafka, missed, doubled, overtaken, raced>>
      /\ conn' = conn \/ UpdatePipeline(c)
  BY DEF UpdateConnector, DestroyConnector, SpawnConnector, mongo, stream, kafkaConnect, history
<1>2. conn \in [Connectors -> ConnectorStates]
  BY DEF Inv, Types
<1>3. \A d \in Connectors : /\ conn'[d].buckets = conn[d].buckets
                            /\ conn'[d] = conn[d] \/ conn'[d].modified
  <2>1. CASE conn' = conn
    BY <2>1
  <2>2. CASE UpdatePipeline(c)
    <3>1. PICK k : k = [conn[c] EXCEPT !.pipeline = conn[c].buckets, !.updating = TRUE, !.later = FALSE]
      OBVIOUS
    <3>2. k.buckets = conn[c].buckets /\ k.modified = conn[c].modified
      BY <1>2, <3>1 DEF ConnectorStates
    <3>3. conn' = [conn EXCEPT ![c] = k] /\ conn[c].modified
      BY <1>2, <2>2, <3>1 DEF UpdatePipeline, ConnectorStates
    <3>4. \A d \in Connectors : conn'[d] = IF d = c THEN k ELSE conn[d]
      BY <1>2, <3>3
    <3> QED BY <3>2, <3>3, <3>4
  <2> QED BY <1>1, <2>1, <2>2
<1>4. doubled' \/ raced' \/ Single(Effective)'
  BY <1>1, <1>3 DEF Chain, Single, Effective, Settling
<1>5. overtaken' \/ AllSent'
  BY <1>1, <1>3 DEF Chain, AllSent, Sent
<1>6. LastEventsOK' /\ Followed'
  BY <1>1, SameFollowed DEF Chain
<1>7. Flags'
  BY <1>1 DEF Chain, Flags
<1> QED BY <1>4, <1>5, <1>6, <1>7 DEF Chain

(* What an answer, or a failure, does to what Kafka Connect and the process know *)
LEMMA AnswerChain ==
    ASSUME Inv, Chain, NEW c \in Connectors, NEW k, NEW kc,
           UNCHANGED <<metastore, oplog, proc, valid, pos, owner, awaited, missed, doubled, raced>>,
           conn' = [conn EXCEPT ![c] = k], kafka' = [kafka EXCEPT ![c] = kc],
           k.buckets = conn[c].buckets, overtaken' \in BOOLEAN, overtaken => overtaken',
           overtaken' \/ (Sent(kafka[c], conn[c]) => Sent(kc, k))
    PROVE  Chain'
<1>1. conn \in [Connectors -> ConnectorStates] /\ kafka \in [Connectors -> Configurations]
  BY DEF Inv, Types
<1>2. \A d \in Connectors : /\ conn'[d] = IF d = c THEN k ELSE conn[d]
                            /\ kafka'[d] = IF d = c THEN kc ELSE kafka[d]
  BY <1>1
<1>3. doubled' \/ raced' \/ Single(Effective)'
  BY <1>2 DEF Chain, Single, Effective, Settling
<1>4. overtaken' \/ AllSent'
  BY <1>2 DEF Chain, AllSent
<1>5. LastEventsOK' /\ Followed'
  BY SameFollowed DEF Chain
<1>6. Flags'
  BY DEF Chain, Flags
<1> QED BY <1>3, <1>4, <1>5, <1>6 DEF Chain

LEMMA KafkaConnectStepChain ==
    ASSUME Inv, Chain, NEW call \in calls, KafkaConnectStep(call) PROVE Chain'
<1>1. /\ UNCHANGED <<metastore, oplog, proc, valid, pos, owner, awaited, missed, doubled, raced>>
      /\ Answer(call) \/ CallFails(call)
  BY DEF KafkaConnectStep, AnswerArrives, mongo, stream
<1>2. PICK c \in Connectors : c = call.conn
  BY DEF Inv, Types, Calls
<1>3. PICK k0 \in ConnectorStates, kc0 \in Configurations : k0 = conn[c] /\ kc0 = kafka[c]
  BY DEF Inv, Types
<1>4. /\ conn \in [Connectors -> ConnectorStates] /\ kafka \in [Connectors -> Configurations]
      /\ conn = [conn EXCEPT ![c] = k0] /\ kafka = [kafka EXCEPT ![c] = kc0]
      /\ overtaken \in BOOLEAN
  BY <1>3 DEF Inv, Types, Chain, Flags
<1>5. PICK created : created = [exists |-> TRUE, pipeline |-> call.pipeline, resume |-> call.resume]
  OBVIOUS
<1>6. PICK put : put = [exists |-> TRUE, pipeline |-> k0.pipeline, resume |-> k0.resume]
  OBVIOUS
<1>7. PICK failed : failed = UpdateFailed(k0)
  OBVIOUS
<1>8. failed.buckets = k0.buckets /\ failed.modified = TRUE /\ put.exists /\ put.pipeline = k0.pipeline
  BY <1>3, <1>6, <1>7 DEF UpdateFailed, ConnectorStates
<1>9. ~Absent.exists
  BY DEF Absent
(* A connector created without its latest buckets is marked, or overtaken *)
<1>10. ASSUME NEW k, Created(call), k.modified = k0.modified, k.pipeline = k0.pipeline
       PROVE  /\ kafka' = [kafka EXCEPT ![c] = created] /\ overtaken' \in BOOLEAN
              /\ (overtaken => overtaken') /\ (overtaken' \/ Sent(created, k))
  <2>1. overtaken' = (overtaken \/ (~k0.modified /\ call.pipeline # k0.pipeline))
    BY <1>2, <1>3, <1>10 DEF Created
  <2>2. kafka' = [kafka EXCEPT ![c] = created]
    BY <1>2, <1>5, <1>10 DEF Created, Configured
  <2>3. created.pipeline = call.pipeline
    BY <1>5
  <2> QED BY <1>3, <1>10, <2>1, <2>2, <2>3 DEF Sent, ConnectorStates
<1>11. CASE CreateConnector(call)
  <2>1. CASE kc0.exists
    <3>1. kafka' = kafka /\ conn' = conn /\ overtaken' = overtaken
      BY <1>2, <1>3, <1>11, <2>1 DEF CreateConnector
    <3> QED BY <1>1, <1>3, <1>4, <3>1, AnswerChain
  <2>2. CASE ~kc0.exists
    <3>1. PICK k : k = [k0 EXCEPT !.running = TRUE]
      OBVIOUS
    <3>2. k.buckets = k0.buckets /\ k.modified = k0.modified /\ k.pipeline = k0.pipeline
      BY <1>3, <3>1 DEF ConnectorStates
    <3>3. Created(call) /\ conn' = [conn EXCEPT ![c] = k]
      BY <1>2, <1>3, <1>4, <1>11, <2>2, <3>1 DEF CreateConnector
    <3>4. /\ kafka' = [kafka EXCEPT ![c] = created] /\ overtaken' \in BOOLEAN
          /\ (overtaken => overtaken') /\ (overtaken' \/ Sent(created, k))
      BY <1>10, <3>2, <3>3
    <3> QED BY <1>1, <1>3, <3>2, <3>3, <3>4, AnswerChain
  <2> QED BY <2>1, <2>2
<1>12. CASE DeleteConnector(call)
  <2>1. CASE ~kc0.exists
    <3>1. kafka' = kafka /\ conn' = conn /\ overtaken' = overtaken
      BY <1>2, <1>3, <1>12, <2>1 DEF DeleteConnector
    <3> QED BY <1>1, <1>3, <1>4, <3>1, AnswerChain
  <2>2. CASE kc0.exists
    <3>1. PICK k : k = [k0 EXCEPT !.running = FALSE, !.resume = NoDate]
      OBVIOUS
    <3>2. k.buckets = k0.buckets
      BY <1>3, <3>1 DEF ConnectorStates
    <3>3. /\ kafka' = [kafka EXCEPT ![c] = Absent] /\ conn' = [conn EXCEPT ![c] = k]
          /\ overtaken' = overtaken
      BY <1>2, <1>3, <1>4, <1>12, <2>2, <3>1 DEF DeleteConnector
    <3>4. Sent(Absent, k)
      BY <1>9 DEF Sent
    <3> QED BY <1>1, <1>3, <1>4, <3>2, <3>3, <3>4, AnswerChain
  <2> QED BY <2>1, <2>2
<1>13. CASE CheckConnector(call)
  <2>1. kafka' = kafka /\ overtaken' = overtaken
    BY <1>13 DEF CheckConnector
  <2>2. conn' = conn \/ conn' = [conn EXCEPT ![c] = failed]
    BY <1>2, <1>3, <1>7, <1>13 DEF CheckConnector
  <2>3. CASE conn' = conn
    BY <1>1, <1>3, <1>4, <2>1, <2>3, AnswerChain
  <2>4. CASE conn' = [conn EXCEPT ![c] = failed]
    <3>1. Sent(kc0, failed)
      BY <1>8 DEF Sent
    <3> QED BY <1>1, <1>3, <1>4, <1>8, <2>1, <2>4, <3>1, AnswerChain
  <2> QED BY <2>2, <2>3, <2>4
<1>14. CASE PutConnectorConfig(call)
  <2>1. PICK k : k = [k0 EXCEPT !.updating = FALSE, !.later = FALSE, !.modified = k0.modified /\ k0.later]
    OBVIOUS
  <2>2. k.buckets = k0.buckets /\ k.pipeline = k0.pipeline
    BY <1>3, <2>1 DEF ConnectorStates
  <2>3. /\ kafka' = [kafka EXCEPT ![c] = put] /\ conn' = [conn EXCEPT ![c] = k]
        /\ overtaken' = overtaken
    BY <1>2, <1>3, <1>4, <1>6, <1>14, <2>1 DEF PutConnectorConfig, Configured
  <2>4. Sent(put, k)
    BY <1>8, <2>2 DEF Sent
  <2> QED BY <1>1, <1>3, <1>4, <2>2, <2>3, <2>4, AnswerChain
<1>15. CASE CallFails(call)
  <2>1. CASE call.kind \in {"check", "put"}
    <3>1. conn' = [conn EXCEPT ![c] = failed]
      BY <1>2, <1>3, <1>7, <1>15, <2>1 DEF CallFails
    <3>2. PICK kc : kafka' = [kafka EXCEPT ![c] = kc] /\ overtaken' = overtaken
      <4>1. overtaken' = overtaken /\ (kafka' = kafka \/ kafka' = [kafka EXCEPT ![c] = put])
        BY <1>2, <1>3, <1>6, <1>15, <2>1 DEF CallFails, Configured
      <4> QED BY <1>4, <4>1
    <3>3. Sent(kc, failed)
      BY <1>8 DEF Sent
    <3> QED BY <1>1, <1>3, <1>4, <1>8, <3>1, <3>2, <3>3, AnswerChain
  <2>2. CASE call.kind = "create"
    <3>1. conn' = [conn EXCEPT ![c] = k0]
      BY <1>4, <1>15, <2>2 DEF CallFails
    <3>2. CASE Created(call)
      <4>1. /\ kafka' = [kafka EXCEPT ![c] = created] /\ overtaken' \in BOOLEAN
            /\ (overtaken => overtaken') /\ (overtaken' \/ Sent(created, k0))
        BY <1>10, <3>2
      <4> QED BY <1>1, <1>3, <3>1, <4>1, AnswerChain
    <3>3. CASE kafka' = kafka /\ overtaken' = overtaken
      BY <1>1, <1>3, <1>4, <3>1, <3>3, AnswerChain
    <3> QED BY <1>15, <2>2, <3>2, <3>3 DEF CallFails
  <2>3. CASE call.kind = "delete"
    <3>1. conn' = [conn EXCEPT ![c] = k0] /\ overtaken' = overtaken
      BY <1>4, <1>15, <2>3 DEF CallFails
    <3>2. CASE kafka' = kafka
      BY <1>1, <1>3, <1>4, <3>1, <3>2, AnswerChain
    <3>3. CASE kafka' = [kafka EXCEPT ![c] = Absent]
      <4>1. Sent(Absent, k0)
        BY <1>9 DEF Sent
      <4> QED BY <1>1, <1>3, <1>4, <3>1, <3>3, <4>1, AnswerChain
    <3> QED BY <1>2, <1>15, <2>3, <3>2, <3>3 DEF CallFails
  <2>4. call.kind \in {"create", "delete", "check", "put"}
    BY DEF Inv, Types, Calls
  <2> QED BY <2>1, <2>2, <2>3, <2>4
<1> QED BY <1>1, <1>11, <1>12, <1>13, <1>14, <1>15 DEF Answer

LEMMA NoAnswerChain ==
    ASSUME Inv, Chain, NEW c \in Connectors, NoAnswer(c) PROVE Chain'
<1>1. /\ UNCHANGED <<metastore, oplog, proc, valid, pos, owner, conn, awaited, kafka>>
      /\ UNCHANGED <<missed, doubled, overtaken, raced>>
  BY DEF NoAnswer, mongo, stream, memory, history
<1>2. LastEventsOK' /\ Followed'
  BY <1>1, SameFollowed DEF Chain
<1>3. Flags' /\ (doubled' \/ raced' \/ Single(Effective)') /\ (overtaken' \/ AllSent')
  BY <1>1 DEF Chain, Flags, Single, Effective, Settling, AllSent
<1> QED BY <1>2, <1>3 DEF Chain

LEMMA RestartChain ==
    ASSUME Inv, Chain, Restart PROVE Chain'
<1>1. /\ UNCHANGED <<metastore, oplog, kafka>>
      /\ proc' = "down" /\ missed' = FALSE /\ doubled' = FALSE /\ overtaken' = FALSE /\ raced' = FALSE
      /\ conn' = [c \in Connectors |-> NewConnector]
  BY DEF Restart, mongo
<1>2. Single(Effective)'
  BY <1>1 DEF Single, Effective, Settling, NewConnector
<1>3. AllSent'
  BY <1>1 DEF AllSent, Sent, NewConnector
<1>4. LastEventsOK' /\ Followed'
  BY <1>1 DEF Chain, LastEventsOK, IsLast, Followed
<1>5. Flags'
  BY <1>1 DEF Flags
<1> QED BY <1>2, <1>3, <1>4, <1>5 DEF Chain

LEMMA StutterChain ==
    ASSUME Inv, Chain, UNCHANGED vars PROVE Chain'
<1>1. /\ UNCHANGED <<metastore, oplog, proc, valid, pos, owner, conn, awaited, kafka>>
      /\ UNCHANGED <<missed, doubled, overtaken, raced>>
  BY DEF vars
<1>2. LastEventsOK' /\ Followed'
  BY <1>1, SameFollowed DEF Chain
<1>3. Flags' /\ (doubled' \/ raced' \/ Single(Effective)') /\ (overtaken' \/ AllSent')
  BY <1>1 DEF Chain, Flags, Single, Effective, Settling, AllSent
<1> QED BY <1>2, <1>3 DEF Chain

LEMMA NextChain ==
    ASSUME Inv, Chain, [Next]_vars PROVE Chain'
<1>1. ASSUME NEW b \in Buckets, NEW to \in {"none", "off", "on"}, ChangeBucket(b, to) PROVE Chain'
  BY <1>1, ChangeBucketChain
<1>2. CASE InitializeConnectors
  BY <1>2, InitializeConnectorsChain
<1>3. CASE GetBackbeatEnabledBuckets
  BY <1>3, GetBackbeatEnabledBucketsChain
<1>4. CASE SetMetastoreChangeStream
  BY <1>4, SetMetastoreChangeStreamChain
<1>5. CASE HandleChangeStreamChangeEvent
  BY <1>5, HandleChangeStreamChangeEventChain
<1>6. CASE HandleChangeStreamErrorEvent
  BY <1>6, HandleChangeStreamErrorEventChain
<1>7. ASSUME NEW c \in Connectors, UpdateConnector(c) PROVE Chain'
  BY <1>7, UpdateConnectorChain
<1>8. ASSUME NEW call \in calls, KafkaConnectStep(call) PROVE Chain'
  BY <1>8, KafkaConnectStepChain
<1>9. CASE Restart
  BY <1>9, RestartChain
<1>10. CASE UNCHANGED vars
  BY <1>10, StutterChain
<1>11. ASSUME NEW b \in Buckets, SetBucketsToConnectors(b) PROVE Chain'
  BY <1>11, SetBucketsToConnectorsChain
<1>12. ASSUME NEW c \in Connectors, NoAnswer(c) PROVE Chain'
  BY <1>12, NoAnswerChain
<1> QED BY <1>1, <1>2, <1>3, <1>4, <1>5, <1>6, <1>7, <1>8, <1>9, <1>10, <1>11, <1>12 DEF Next

(* Once events are handled and connectors have nothing to send, Kafka Connect
   publishes the oplog of the enabled buckets, each from one connector, for any
   number of changes, calls in flight, failures and restarts; but for the cases of
   Excepted, two events of a bucket handled at once among them
   (OplogPopulator._handleChangeStreamChangeEvent, Allocator, Connector,
   ConnectorsManager._updateConnectors).                                       *)
THEOREM SettledListens == Spec => []ListensWhenSettled
<1>1. Init => Inv /\ Chain
  BY InitInv, InitChain
<1>2. Inv /\ Chain /\ [Next]_vars => (Inv /\ Chain)'
  BY NextInv, NextChain
<1>3. Inv /\ Chain => ListensWhenSettled
  BY ChainImpliesListens
<1> QED BY <1>1, <1>2, <1>3, PTL DEF Spec
=============================================================================
